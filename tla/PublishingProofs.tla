-------------------------- MODULE PublishingProofs --------------------------
(***************************************************************************)
(* Proofs about what fills the records and what is made of them: the       *)
(* seeding, which makes one record for a title; the lists, whose pages     *)
(* miss nothing; and the articles, their batches, cases and feedback.      *)
(* What an article is written from is in DraftingProofs.                   *)
(***************************************************************************)
EXTENDS Seeding, Listing, Articles, ListFacts

-----------------------------------------------------------------------------
(* Seeding.                                                                *)

SeedStages == {"off", "looking", "claiming", "claimed", "adopting", "loading", "patching",
               "posting", "enqueueing", "remembering", "verifying", "draining", "done",
               "failed"}
AtFile == {"patching", "posting", "enqueueing", "remembering"}
AtRow == {"patching", "enqueueing", "remembering"}

RowType == [title : SeedTitles \cup Others \cup {"masked"}, type : Types,
            for : SeedTitles \cup {"people"}, moved : BOOLEAN, job : BOOLEAN]

SeedState == [pc : SeedStages, reset : BOOLEAN, at : Nat \ {0},
              existing : SUBSET SeedTitles, claims : SUBSET SeedTitles,
              targets : [SeedTitles -> RecordIds \cup {0}],
              id : RecordIds \cup {0}, failed : BOOLEAN, exit : Int]

SeedingType ==
    /\ rows \in [RecordIds -> {NoRow, Deleted} \cup RowType]
    /\ manifest \in [SeedTitles -> RecordIds \cup {0}]
    /\ seeding \in SeedState
    /\ seeding.pc \in AtFile => seeding.at <= Len(Files)
    /\ seeding.pc \in AtRow => seeding.id \in RecordIds

\* A row that may well be a second one for its title: made by people, renamed,
\* or of a title the sanitizer changes.
Strays(i) == rows[i].for = "people" \/ rows[i].moved \/ rows[i].for \in Rewritten

\* The other rows can be found under the title they were made for.
TitlesHold == \A i \in Rows : Strays(i) \/ rows[i].title = rows[i].for

\* No row that could be found was made for title t.
NotMade(t) == \A i \in Rows : rows[i].for = t => Strays(i)

\* Row i is there or was, and is title t's, if anybody's.
IsFor(i, t) == rows[i] # NoRow /\ (i \in Rows => rows[i].for = t \/ Strays(i))

\* What the run and the manifest remember of the rows is true of them.
ClaimsHold ==
    /\ \A t \in SeedTitles : manifest[t] # 0 => IsFor(manifest[t], t)
    /\ \A t \in SeedTitles : seeding.targets[t] # 0 => IsFor(seeding.targets[t], t)
    /\ seeding.pc \in AtRow => IsFor(seeding.id, File.title)

\* From this place on the files' rows are still to come, if neither the run nor
\* its first look knows of one.
FirstToCome == IF seeding.pc \in {"enqueueing", "remembering"} THEN seeding.at + 1 ELSE seeding.at
RestIsToCome ==
    /\ seeding.pc \in AtFile \cup {"loading"} =>
          \A k \in 1 .. Len(Files) :
              LET t == Files[k].title
              IN  k >= FirstToCome /\ seeding.targets[t] = 0 /\ t \notin seeding.existing
                      => NotMade(t)
    /\ seeding.pc = "posting" =>
          seeding.targets[File.title] = 0 /\ File.title \notin seeding.existing
    /\ seeding.pc \in {"claiming", "claimed", "adopting"} => seeding.existing = {}
    /\ seeding.pc = "looking" => \A t \in SeedTitles : seeding.targets[t] = 0

SeedingInv == SeedingType /\ TitlesHold /\ ClaimsHold /\ RestIsToCome /\ SeedsStayOne

\* Rows stay what they were: deleted at most, made for the same title, and
\* moved for good.
RowsKeep ==
    \A i \in RecordIds : rows[i] # NoRow =>
        /\ rows'[i] # NoRow
        /\ i \in Rows' => /\ i \in Rows
                          /\ rows'[i].for = rows[i].for
                          /\ rows[i].moved => rows'[i].moved

\* A file has a title of its own.
LEMMA FileTitles ==
  /\ Len(Files) \in Nat
  /\ \A k \in 1 .. Len(Files) : Files[k].title \in SeedTitles /\ Files[k].type \in Types
  /\ \A j, k \in 1 .. Len(Files) : Files[j].title = Files[k].title => j = k
  <1> DEFINE T == [title : SeedTitles, type : Types]
  <1>1. Files \in Seq(T)
    BY SeedingAssumption
  <1>2. \A f \in T : f.title \in SeedTitles /\ f.type \in Types
    OBVIOUS
  <1> HIDE DEF T
  <1>3. Len(Files) \in Nat /\ \A k \in 1 .. Len(Files) : Files[k] \in T
    BY <1>1
  <1>4. QED
    BY <1>2, <1>3, SeedingAssumption

\* What is no row can be told from one.
LEMMA RowsAreRows ==
  /\ NoRow \notin RowType /\ Deleted \notin RowType /\ NoRow # Deleted
  /\ 0 \notin RecordIds
  <1>1. NoRow.for # Deleted.for
    BY DEF NoRow, Deleted
  <1>2. ASSUME NEW r \in RowType PROVE r # NoRow /\ r # Deleted
    <2>1. "title" \in DOMAIN r
      BY DEF RowType
    <2>2. DOMAIN NoRow = {"for"} /\ DOMAIN Deleted = {"for"}
      BY DEF NoRow, Deleted
    <2>3. QED
      BY <2>1, <2>2
  <1>3. QED
    BY <1>1, <1>2, SeedingAssumption

LEMMA TypeOfRow ==
  ASSUME SeedingType, NEW i \in Rows
  PROVE  /\ i \in RecordIds /\ rows[i] \in RowType
         /\ rows[i].title \in SeedTitles \cup Others \cup {"masked"}
         /\ rows[i].type \in Types /\ rows[i].for \in SeedTitles \cup {"people"}
         /\ rows[i].moved \in BOOLEAN /\ rows[i].job \in BOOLEAN
  <1>1. i \in RecordIds /\ rows[i] \in RowType
    BY DEF SeedingType, Rows
  <1>2. QED
    BY <1>1 DEF RowType

\* A row is made or changed.
LEMMA RowWritten ==
  ASSUME SeedingType, TitlesHold, SeedsStayOne,
         NEW i \in RecordIds, NEW r \in RowType,
         rows' = [rows EXCEPT ![i] = r],
         i \in Unused \/ (i \in Rows /\ r.for = rows[i].for /\ (rows[i].moved => r.moved)),
         r.for = "people" \/ r.moved \/ r.for \in Rewritten \/ r.title = r.for,
         i \in Rows \/ r.for = "people" \/ NotMade(r.for)
  PROVE  /\ rows' \in [RecordIds -> {NoRow, Deleted} \cup RowType]
         /\ Rows' = Rows \cup {i}
         /\ rows'[i] = r /\ \A j \in RecordIds \ {i} : rows'[j] = rows[j]
         /\ RowsKeep /\ TitlesHold' /\ SeedsStayOne'
         /\ \A t : NotMade(t) /\ (i \in Rows \/ r.for # t \/ t = "people") => NotMade(t)'
  <1>1. rows' \in [RecordIds -> {NoRow, Deleted} \cup RowType]
    BY DEF SeedingType
  <1>2. rows'[i] = r /\ \A j \in RecordIds \ {i} : rows'[j] = rows[j]
    BY DEF SeedingType
  <1>3. Rows' = Rows \cup {i}
    BY <1>2, RowsAreRows DEF Rows
  <1>4. \A j \in Rows : j # i => Strays(j)' = Strays(j)
    BY <1>2 DEF Strays, Rows
  <1>5. i \in Rows /\ Strays(i) => Strays(i)'
    BY <1>2, RowsAreRows DEF Strays, Unused, Rows
  <1>6. RowsKeep
    BY <1>2, <1>3, RowsAreRows DEF RowsKeep, Unused, Rows
  <1>7. TitlesHold'
    BY <1>2, <1>3, <1>4 DEF TitlesHold, Strays, Rows
  <1>8. ASSUME NEW t, NotMade(t), i \in Rows \/ r.for # t \/ t = "people" PROVE NotMade(t)'
    <2> SUFFICES ASSUME NEW j \in Rows', rows'[j].for = t PROVE Strays(j)'
      BY DEF NotMade
    <2>1. CASE j # i
      BY <1>2, <1>3, <1>4, <1>8, <2>1 DEF NotMade, Rows
    <2>2. CASE j = i
      <3>1. CASE i \in Rows
        BY <1>2, <1>5, <1>8, <2>2, <3>1, RowsAreRows DEF NotMade, Unused, Rows
      <3>2. CASE i \notin Rows
        BY <1>2, <1>8, <2>2, <3>2 DEF Strays
      <3>3. QED
        BY <3>1, <3>2
    <2>3. QED
      BY <2>1, <2>2
  <1>9. SeedsStayOne'
    <2>1. ASSUME NEW j \in Rows, j # i, r.for = rows[j].for, r.for # "people"
          PROVE  r.moved \/ rows[j].moved \/ r.for \in Rewritten
      <3>1. CASE i \in Rows
        BY <2>1, <3>1, RowsAreRows DEF SeedsStayOne, Unused, Rows
      <3>2. CASE i \notin Rows
        BY <2>1, <3>2 DEF NotMade, Strays
      <3>3. QED
        BY <3>1, <3>2
    <2>2. QED
      BY <1>2, <1>3, <2>1 DEF SeedsStayOne, Rows
  <1>10. QED
    BY <1>1, <1>2, <1>3, <1>6, <1>7, <1>8, <1>9

\* What is known of a row stays true.
LEMMA ForStays ==
  ASSUME RowsKeep, NEW i \in RecordIds, NEW t, IsFor(i, t)
  PROVE  IsFor(i, t)'
  BY DEF RowsKeep, IsFor, Strays, Rows

-----------------------------------------------------------------------------
(* The run's own steps.                                                    *)

\* The run goes on without touching the rows, to a place whose duties it has.
LEMMA RunGoesOn ==
  ASSUME SeedingInv, SeedingType', UNCHANGED <<rows, manifest>>, ClaimsHold', RestIsToCome'
  PROVE  SeedingInv'
  <1>1. TitlesHold' /\ SeedsStayOne'
    BY DEF SeedingInv, TitlesHold, SeedsStayOne, Rows, Strays
  <1>2. QED
    BY <1>1 DEF SeedingInv

\* What the rows say stays as they do.
LEMMA RowsAlike ==
  ASSUME UNCHANGED rows
  PROVE  /\ Rows' = Rows
         /\ \A i, t : IsFor(i, t)' = IsFor(i, t)
         /\ \A t : NotMade(t)' = NotMade(t)
         /\ \A i : Strays(i)' = Strays(i)
  BY DEF Rows, IsFor, NotMade, Strays

\* A run that is between its files has no duties but the targets'.
LEMMA RunEnds ==
  ASSUME SeedingInv, UNCHANGED <<rows, manifest>>, seeding' \in SeedState,
         seeding'.pc \in {"off", "verifying", "draining", "done", "failed"},
         seeding'.targets = seeding.targets
  PROVE  SeedingInv'
  <1>1. SeedingType'
    BY DEF SeedingInv, SeedingType, AtFile, AtRow
  <1>2. ClaimsHold'
    BY RowsAlike DEF SeedingInv, ClaimsHold, AtRow
  <1>3. RestIsToCome'
    BY DEF RestIsToCome, AtFile
  <1>4. QED
    BY <1>1, <1>2, <1>3, RunGoesOn

\* Only the stage changes, and perhaps the exit code or a failure noticed.
LEMMA StageSet ==
  ASSUME SeedingType, NEW to \in SeedStages
  PROVE  LET s == [seeding EXCEPT !.pc = to]
         IN  /\ s \in SeedState /\ s.pc = to /\ s.at = seeding.at /\ s.id = seeding.id
             /\ s.targets = seeding.targets /\ s.existing = seeding.existing
  BY DEF SeedingType, SeedState

LEMMA FailureKeeps ==
  ASSUME SeedingInv, SeedFails, UNCHANGED <<rows, manifest>>
  PROVE  SeedingInv'
  <1>1. seeding \in SeedState
    BY DEF SeedingInv, SeedingType
  <1>2. seeding' \in SeedState
    <2>1. "failed" \in SeedStages /\ ExitFailure \in Int
      BY DEF SeedStages, ExitFailure
    <2>2. QED
      BY <1>1, <2>1 DEF SeedFails, SeedState
  <1>3. seeding'.pc = "failed" /\ seeding'.targets = seeding.targets
    BY <1>1 DEF SeedFails, SeedState
  <1>4. QED
    BY <1>2, <1>3, RunEnds

LEMMA StartKeeps ==
  ASSUME SeedingInv, StartSeed
  PROVE  SeedingInv'
  <1>1. PICK setup \in SeedSetups :
           LET args == ParseSeedArgs(setup.argv)
               exit == Refusal(args, setup)
           IN  seeding' = [NotSeeding EXCEPT !.reset = args.reset, !.exit = exit,
                 !.pc = IF exit # 0 THEN "failed"
                        ELSE IF args.reset THEN "claiming" ELSE "looking"]
    BY DEF StartSeed
  <1> DEFINE args == ParseSeedArgs(setup.argv)
             exit == Refusal(args, setup)
             to == IF exit # 0 THEN "failed" ELSE IF args.reset THEN "claiming" ELSE "looking"
  <1>2. args.reset \in BOOLEAN
    BY DEF ParseSeedArgs
  <1>3. exit \in Int
    BY DEF Refusal, ExitConfigError, ExitFailure, ExitUnavailable
  <1>4. to \in {"failed", "claiming", "looking"}
    OBVIOUS
  <1>5. seeding' = [NotSeeding EXCEPT !.reset = args.reset, !.exit = exit, !.pc = to]
    BY <1>1
  <1> HIDE DEF args, exit, to
  <1>6. NotSeeding \in SeedState
    BY DEF NotSeeding, SeedState, SeedStages
  <1>7. seeding' \in SeedState
    BY <1>2, <1>3, <1>4, <1>5, <1>6 DEF SeedState, SeedStages
  <1>8. /\ seeding'.pc \in {"failed", "claiming", "looking"} /\ seeding'.existing = {}
        /\ seeding'.targets = [t \in SeedTitles |-> 0]
    BY <1>4, <1>5 DEF NotSeeding
  <1>9. UNCHANGED <<rows, manifest>>
    BY DEF StartSeed
  <1>10. SeedingType'
    BY <1>7, <1>8, <1>9 DEF SeedingInv, SeedingType, AtFile, AtRow
  <1>11. ClaimsHold'
    BY <1>8, <1>9, RowsAlike DEF SeedingInv, ClaimsHold, AtRow
  <1>12. RestIsToCome'
    BY <1>8 DEF RestIsToCome, AtFile
  <1>13. QED
    BY <1>9, <1>10, <1>11, <1>12, RunGoesOn

\* A plain run looks.
LEMMA LookKeeps ==
  ASSUME SeedingInv, LookForTitles
  PROVE  SeedingInv'
  <1>1. /\ seeding.pc = "looking" /\ seeding \in SeedState
        /\ seeding' = [seeding EXCEPT !.pc = "loading", !.existing = FindSeedTitles]
        /\ UNCHANGED <<rows, manifest>>
    BY DEF LookForTitles, SeedingInv, SeedingType
  <1>2. FindSeedTitles \subseteq SeedTitles /\ "loading" \in SeedStages
    BY DEF FindSeedTitles, SeedStages
  <1>3. seeding' \in SeedState
    BY <1>1, <1>2 DEF SeedState
  <1>4. /\ seeding'.pc = "loading" /\ seeding'.targets = seeding.targets
        /\ seeding'.existing = FindSeedTitles
    BY <1>1 DEF SeedState
  <1>5. SeedingType'
    BY <1>1, <1>3, <1>4 DEF SeedingInv, SeedingType, AtFile, AtRow
  <1>6. ClaimsHold'
    BY <1>1, <1>4, RowsAlike DEF SeedingInv, ClaimsHold, AtRow
  <1>7. ASSUME NEW t \in SeedTitles, t \notin FindSeedTitles PROVE NotMade(t)
    BY <1>7 DEF FindSeedTitles, NotMade, SeedingInv, TitlesHold
  <1>8. RestIsToCome'
    BY <1>1, <1>4, <1>7, RowsAlike, FileTitles DEF RestIsToCome, AtFile
  <1>9. QED
    BY <1>1, <1>5, <1>6, <1>8, RunGoesOn

LEMMA ManifestReadKeeps ==
  ASSUME SeedingInv, ReadManifest
  PROVE  SeedingInv'
  <1> DEFINE C == {t \in SeedTitles : manifest[t] # 0}
  <1>1. /\ seeding.pc = "claiming" /\ seeding \in SeedState
        /\ seeding' = [seeding EXCEPT !.pc = "claimed", !.claims = C]
        /\ UNCHANGED <<rows, manifest>>
    BY DEF ReadManifest, SeedingInv, SeedingType
  <1>2. C \subseteq SeedTitles /\ "claimed" \in SeedStages
    BY DEF SeedStages
  <1> HIDE DEF C
  <1>3. seeding' \in SeedState
    BY <1>1, <1>2 DEF SeedState
  <1>4. /\ seeding'.pc = "claimed" /\ seeding'.targets = seeding.targets
        /\ seeding'.existing = seeding.existing
    BY <1>1 DEF SeedState
  <1>5. SeedingType'
    BY <1>1, <1>3, <1>4 DEF SeedingInv, SeedingType, AtFile, AtRow
  <1>6. ClaimsHold'
    BY <1>1, <1>4, RowsAlike DEF SeedingInv, ClaimsHold, AtRow
  <1>7. RestIsToCome'
    BY <1>1, <1>4 DEF SeedingInv, RestIsToCome, AtFile
  <1>8. QED
    BY <1>1, <1>5, <1>6, <1>7, RunGoesOn

\* The targets are set, each to a row of its title.
LEMMA TargetsSet ==
  ASSUME SeedingInv, UNCHANGED <<rows, manifest>>,
         NEW to \in {"adopting", "loading"}, NEW T \in [SeedTitles -> RecordIds \cup {0}],
         seeding' = [seeding EXCEPT !.pc = to, !.targets = T],
         seeding.existing = {},
         \A t \in SeedTitles : T[t] # 0 => IsFor(T[t], t),
         to = "loading" => \A t \in SeedTitles : T[t] = 0 => NotMade(t)
  PROVE  SeedingInv'
  <1>1. seeding \in SeedState
    BY DEF SeedingInv, SeedingType
  <1>2. to \in SeedStages
    BY DEF SeedStages
  <1>3. seeding' \in SeedState
    BY <1>1, <1>2 DEF SeedState
  <1>4. seeding'.pc = to /\ seeding'.targets = T /\ seeding'.existing = {}
    BY <1>1 DEF SeedState
  <1>5. SeedingType'
    BY <1>3, <1>4 DEF SeedingInv, SeedingType, AtFile, AtRow
  <1>6. ClaimsHold'
    BY <1>4, RowsAlike DEF SeedingInv, ClaimsHold, AtRow
  <1>7. RestIsToCome'
    BY <1>4, RowsAlike, FileTitles DEF RestIsToCome, AtFile
  <1>8. QED
    BY <1>5, <1>6, <1>7, RunGoesOn

LEMMA ClaimedKeeps ==
  ASSUME SeedingInv, ReadClaimed
  PROVE  SeedingInv'
  <1>1. PICK owner \in [{manifest[t] : t \in seeding.claims} -> SeedTitles] :
           seeding' = [seeding EXCEPT !.pc = "adopting",
                !.targets = [t \in SeedTitles |->
                    IF t \in seeding.claims /\ manifest[t] \in Rows /\ owner[manifest[t]] = t
                    THEN manifest[t] ELSE 0]]
    BY DEF ReadClaimed
  <1> DEFINE T == [t \in SeedTitles |->
                    IF t \in seeding.claims /\ manifest[t] \in Rows /\ owner[manifest[t]] = t
                    THEN manifest[t] ELSE 0]
  <1>2. T \in [SeedTitles -> RecordIds \cup {0}]
    BY DEF Rows
  <1>3. \A t \in SeedTitles : T[t] # 0 => IsFor(T[t], t)
    BY DEF SeedingInv, ClaimsHold
  <1>4. seeding' = [seeding EXCEPT !.pc = "adopting", !.targets = T]
    BY <1>1
  <1> HIDE DEF T
  <1>5. seeding.existing = {} /\ UNCHANGED <<rows, manifest>>
    BY DEF ReadClaimed, SeedingInv, RestIsToCome
  <1>6. QED
    BY <1>2, <1>3, <1>4, <1>5, TargetsSet

LEMMA AdoptKeeps ==
  ASSUME SeedingInv, AdoptCandidates
  PROVE  SeedingInv'
  <1>1. seeding.pc = "adopting" /\ UNCHANGED <<rows, manifest>>
    BY DEF AdoptCandidates
  <1>2. CASE \E t \in Orphans : Cardinality(Candidates(t)) > 1
    BY <1>1, <1>2, FailureKeeps DEF AdoptCandidates
  <1>3. CASE ~\E t \in Orphans : Cardinality(Candidates(t)) > 1
    <2> DEFINE T == [t \in SeedTitles |->
                    IF t \in Orphans /\ Candidates(t) # {}
                    THEN CHOOSE i \in Candidates(t) : TRUE ELSE seeding.targets[t]]
    <2>1. seeding' = [seeding EXCEPT !.pc = "loading", !.targets = T]
      BY <1>3 DEF AdoptCandidates
    <2>2. seeding.existing = {}
      BY <1>1 DEF SeedingInv, RestIsToCome
    <2>3. seeding.targets \in [SeedTitles -> RecordIds \cup {0}]
      BY DEF SeedingInv, SeedingType, SeedState
    <2>4. ASSUME NEW t \in SeedTitles
          PROVE  /\ T[t] \in RecordIds \cup {0}
                 /\ T[t] # 0 => IsFor(T[t], t)
                 /\ T[t] = 0 => NotMade(t)
      <3>1. CASE t \in Orphans /\ Candidates(t) # {}
        <4>1. T[t] \in Candidates(t)
          BY <3>1
        <4>2. T[t] \in Rows /\ rows[T[t]].title = t
          BY <4>1 DEF Candidates
        <4>3. T[t] \in RecordIds /\ rows[T[t]] # NoRow
          BY <4>2 DEF Rows
        <4>4. rows[T[t]].for = t \/ Strays(T[t])
          BY <4>2 DEF SeedingInv, TitlesHold
        <4>5. QED
          BY <4>3, <4>4, RowsAreRows DEF IsFor
      <3>2. CASE t \in Orphans /\ Candidates(t) = {}
        <4>1. T[t] = 0
          BY <3>2 DEF Orphans
        <4>2. NotMade(t)
          BY <3>2 DEF NotMade, Candidates, SeedingInv, TitlesHold
        <4>3. QED
          BY <4>1, <4>2
      <3>3. CASE t \notin Orphans
        <4>1. T[t] = seeding.targets[t] /\ T[t] # 0
          BY <3>3 DEF Orphans
        <4>2. QED
          BY <2>3, <4>1 DEF SeedingInv, ClaimsHold
      <3>4. QED
        BY <3>1, <3>2, <3>3
    <2>5. T = [t \in SeedTitles |-> T[t]]
      OBVIOUS
    <2> HIDE DEF T
    <2>6. T \in [SeedTitles -> RecordIds \cup {0}]
      BY <2>4, <2>5
    <2>7. QED
      BY <1>1, <2>1, <2>2, <2>4, <2>6, TargetsSet
  <1>4. QED
    BY <1>2, <1>3

\* What a run at a file may rely on.
LEMMA AtTheFile ==
  ASSUME SeedingInv, seeding.pc \in AtFile \/ (seeding.pc = "loading" /\ seeding.at <= Len(Files))
  PROVE  /\ seeding.at \in 1 .. Len(Files)
         /\ File.title \in SeedTitles /\ File.type \in Types
         /\ File.title = Files[seeding.at].title
         /\ seeding.targets[File.title] \in RecordIds \cup {0}
  <1>1. seeding.at \in Nat \ {0} /\ seeding.targets \in [SeedTitles -> RecordIds \cup {0}]
    BY DEF SeedingInv, SeedingType, SeedState
  <1>2. seeding.at <= Len(Files)
    BY DEF SeedingInv, SeedingType
  <1>3. QED
    BY <1>1, <1>2, FileTitles DEF File

LEMMA LoadKeeps ==
  ASSUME SeedingInv, LoadFile
  PROVE  SeedingInv'
  <1> DEFINE target == seeding.targets[File.title]
  <1>1. /\ seeding.pc = "loading" /\ UNCHANGED <<rows, manifest>> /\ seeding \in SeedState
        /\ seeding.at \in Nat
    BY DEF LoadFile, SeedingInv, SeedingType, SeedState
  <1>2. /\ "verifying" \in SeedStages /\ "patching" \in SeedStages /\ "posting" \in SeedStages
        /\ "loading" \in SeedStages
    BY DEF SeedStages
  <1>3. CASE seeding.at > Len(Files)
    <2>1. seeding' = [seeding EXCEPT !.pc = "verifying"]
      BY <1>3 DEF LoadFile, Seeds
    <2>2. /\ seeding' \in SeedState /\ seeding'.pc = "verifying"
          /\ seeding'.targets = seeding.targets
      BY <1>1, <1>2, <2>1 DEF SeedState
    <2>3. QED
      BY <1>1, <2>2, RunEnds
  <1>4. CASE ~(seeding.at > Len(Files))
    <2>1. seeding.at <= Len(Files)
      BY <1>1, <1>4, FileTitles
    <2>2. /\ seeding.at \in 1 .. Len(Files)
          /\ File.title \in SeedTitles /\ File.title = Files[seeding.at].title
          /\ target \in RecordIds \cup {0}
      BY <1>1, <2>1, AtTheFile
    <2>3. CASE target \in Rows /\ rows[target].type # File.type
      BY <1>1, <1>4, <2>3, FailureKeeps DEF LoadFile
    <2>4. CASE ~(target \in Rows /\ rows[target].type # File.type) /\ target # 0
      <3>1. seeding' = [seeding EXCEPT !.id = target, !.pc = "patching"]
        BY <1>4, <2>4 DEF LoadFile
      <3>2. target \in RecordIds
        BY <2>2, <2>4
      <3>3. IsFor(target, File.title)
        BY <2>2, <2>4 DEF SeedingInv, ClaimsHold
      <3> HIDE DEF target
      <3>4. seeding' \in SeedState
        BY <1>1, <1>2, <3>1, <3>2 DEF SeedState
      <3>5. /\ seeding'.pc = "patching" /\ seeding'.targets = seeding.targets
            /\ seeding'.id = target /\ seeding'.at = seeding.at
            /\ seeding'.existing = seeding.existing
        BY <1>1, <3>1 DEF SeedState
      <3>6. SeedingType'
        BY <1>1, <2>1, <3>2, <3>4, <3>5 DEF SeedingInv, SeedingType, AtFile, AtRow
      <3>7. File' = File
        BY <3>5 DEF File
      <3>8. ClaimsHold'
        BY <1>1, <3>3, <3>5, <3>7, RowsAlike DEF SeedingInv, ClaimsHold
      <3>9. RestIsToCome'
        BY <1>1, <3>5, RowsAlike DEF SeedingInv, RestIsToCome, FirstToCome, AtFile
      <3>10. QED
        BY <1>1, <3>6, <3>8, <3>9, RunGoesOn
    <2>5. CASE target = 0 /\ File.title \in seeding.existing
      <3>1. target \notin Rows
        BY <2>5, RowsAreRows DEF Rows
      <3>2. seeding' = [seeding EXCEPT !.pc = "loading", !.at = @ + 1]
        BY <1>4, <2>5, <3>1 DEF LoadFile, NextFile
      <3>3. /\ seeding' \in SeedState /\ seeding'.pc = "loading" /\ seeding'.at = seeding.at + 1
            /\ seeding'.targets = seeding.targets /\ seeding'.existing = seeding.existing
        <4> DEFINE next == seeding.at + 1
        <4>1. next \in Nat \ {0} /\ seeding' = [seeding EXCEPT !.pc = "loading", !.at = next]
          BY <1>1, <3>2 DEF SeedState
        <4> HIDE DEF next
        <4>2. /\ seeding' \in SeedState /\ seeding'.pc = "loading" /\ seeding'.at = next
              /\ seeding'.targets = seeding.targets /\ seeding'.existing = seeding.existing
          BY <1>1, <1>2, <4>1 DEF SeedState
        <4>3. QED
          BY <4>2 DEF next
      <3>4. SeedingType'
        BY <1>1, <3>3 DEF SeedingInv, SeedingType, AtFile, AtRow
      <3>5. ClaimsHold'
        BY <1>1, <3>3, RowsAlike DEF SeedingInv, ClaimsHold, AtRow
      <3>6. RestIsToCome'
        BY <1>1, <2>2, <3>3, RowsAlike DEF SeedingInv, RestIsToCome, FirstToCome, AtFile
      <3>7. QED
        BY <1>1, <3>4, <3>5, <3>6, RunGoesOn
    <2>6. CASE target = 0 /\ File.title \notin seeding.existing
      <3>1. target \notin Rows
        BY <2>6, RowsAreRows DEF Rows
      <3>2. seeding' = [seeding EXCEPT !.pc = "posting"]
        BY <1>4, <2>6, <3>1 DEF LoadFile, Seeds
      <3>3. /\ seeding' \in SeedState /\ seeding'.pc = "posting" /\ seeding'.at = seeding.at
            /\ seeding'.targets = seeding.targets /\ seeding'.existing = seeding.existing
        BY <1>1, <1>2, <3>2 DEF SeedState
      <3>4. SeedingType'
        BY <1>1, <2>1, <3>3 DEF SeedingInv, SeedingType, AtFile, AtRow
      <3>5. ClaimsHold'
        BY <1>1, <3>3, RowsAlike DEF SeedingInv, ClaimsHold, AtRow
      <3>6. File' = File
        BY <3>3 DEF File
      <3>7. RestIsToCome'
        BY <1>1, <2>2, <2>6, <3>3, <3>6, RowsAlike
           DEF SeedingInv, RestIsToCome, FirstToCome, AtFile
      <3>8. QED
        BY <1>1, <3>4, <3>5, <3>7, RunGoesOn
    <2>7. QED
      BY <2>2, <2>3, <2>4, <2>5, <2>6
  <1>5. QED
    BY <1>3, <1>4

\* Only the stage changes, and a row with it, that was there or not.
LEMMA RunWrites ==
  ASSUME SeedingInv, NEW i \in RecordIds, NEW r \in RowType,
         rows' = [rows EXCEPT ![i] = r],
         i \in Unused \/ (i \in Rows /\ r.for = rows[i].for /\ (rows[i].moved => r.moved)),
         r.for = "people" \/ r.moved \/ r.for \in Rewritten \/ r.title = r.for,
         i \in Rows \/ r.for = "people" \/ NotMade(r.for),
         SeedingType', UNCHANGED manifest,
         seeding'.targets = seeding.targets, seeding'.existing = seeding.existing,
         seeding'.at = seeding.at,
         seeding'.pc \in AtRow => IsFor(seeding.id, File.title)',
         RestIsToCome'
  PROVE  SeedingInv'
  <1>1. RowsKeep /\ TitlesHold' /\ SeedsStayOne'
    BY RowWritten DEF SeedingInv
  <1>2. \A t \in SeedTitles : manifest[t] \in RecordIds \cup {0} /\ seeding.targets[t] \in RecordIds \cup {0}
    BY DEF SeedingInv, SeedingType, SeedState
  <1>3. ClaimsHold'
    <2>1. ASSUME NEW t \in SeedTitles, manifest[t] # 0 PROVE IsFor(manifest[t], t)'
      <3>1. PICK j \in RecordIds : j = manifest[t]
        BY <1>2, <2>1
      <3>2. IsFor(j, t)'
        BY <1>1, <2>1, <3>1, ForStays DEF SeedingInv, ClaimsHold
      <3>3. QED
        BY <3>1, <3>2
    <2>2. ASSUME NEW t \in SeedTitles, seeding.targets[t] # 0
          PROVE  IsFor(seeding.targets[t], t)'
      <3>1. PICK j \in RecordIds : j = seeding.targets[t]
        BY <1>2, <2>2
      <3>2. IsFor(j, t)'
        BY <1>1, <2>2, <3>1, ForStays DEF SeedingInv, ClaimsHold
      <3>3. seeding'.targets[t] = j
        BY <3>1
      <3>4. QED
        BY <3>2, <3>3
    <2>3. QED
      BY <2>1, <2>2 DEF ClaimsHold
  <1>4. QED
    BY <1>1, <1>3 DEF SeedingInv

LEMMA PatchKeeps ==
  ASSUME SeedingInv, PatchSeedRecord
  PROVE  SeedingInv'
  <1>1. /\ seeding.pc = "patching" /\ UNCHANGED manifest /\ seeding \in SeedState
        /\ seeding.id \in RecordIds /\ seeding.at <= Len(Files) /\ SeedingType
    BY DEF PatchSeedRecord, SeedingInv, SeedingType, AtFile, AtRow
  <1>2. CASE seeding.id \notin Rows
    BY <1>1, <1>2, FailureKeeps DEF PatchSeedRecord
  <1>3. CASE seeding.id \in Rows
    <2> DEFINE i == seeding.id
               r == [rows[i] EXCEPT !.title = StoredTitle(File.title), !.job = TRUE]
    <2>1. /\ rows[i] \in RowType /\ rows[i].moved \in BOOLEAN
      BY <1>1, <1>3, TypeOfRow
    <2>2. rows' = [rows EXCEPT ![i] = r]
      BY <1>3 DEF PatchSeedRecord
    <2>3. File.title \in SeedTitles
      BY <1>1, AtTheFile DEF AtFile
    <2>4. StoredTitle(File.title) \in SeedTitles \cup Others \cup {"masked"}
      BY <2>3 DEF StoredTitle
    <2>5. r \in RowType /\ r.for = rows[i].for /\ r.moved = rows[i].moved
          /\ r.title = StoredTitle(File.title)
      BY <2>1, <2>4 DEF RowType
    <2>6. IsFor(i, File.title)
      BY <1>1 DEF SeedingInv, ClaimsHold, AtRow
    <2>7. r.for = "people" \/ r.moved \/ r.for \in Rewritten \/ r.title = r.for
      BY <1>3, <2>5, <2>6 DEF IsFor, Strays, StoredTitle
    <2>8. seeding' = [seeding EXCEPT !.pc = "remembering"] /\ "remembering" \in SeedStages
      BY <1>3 DEF PatchSeedRecord, Seeds, SeedStages
    <2>9. /\ seeding' \in SeedState /\ seeding'.pc = "remembering" /\ seeding'.id = i
          /\ seeding'.targets = seeding.targets /\ seeding'.existing = seeding.existing
          /\ seeding'.at = seeding.at
      BY <1>1, <2>8 DEF SeedState
    <2> HIDE DEF r
    <2>10. /\ rows' \in [RecordIds -> {NoRow, Deleted} \cup RowType] /\ RowsKeep
           /\ \A t : NotMade(t) => NotMade(t)'
      BY <1>1, <1>3, <2>2, <2>5, <2>7, RowWritten DEF SeedingInv
    <2>11. SeedingType'
      BY <1>1, <2>9, <2>10 DEF SeedingType, AtFile, AtRow
    <2>12. File' = File
      BY <2>9 DEF File
    <2>13. IsFor(seeding.id, File.title)'
      <3>1. PICK j \in RecordIds, t \in SeedTitles : j = seeding.id /\ t = File.title
        BY <1>1, <2>3
      <3>2. IsFor(j, t)'
        BY <2>6, <2>10, <3>1, ForStays
      <3>3. seeding'.id = j /\ File' = File
        BY <2>9, <2>12, <3>1
      <3>4. QED
        BY <3>1, <3>2, <3>3
    <2>14. RestIsToCome'
      BY <1>1, <2>9, <2>10, FileTitles DEF SeedingInv, SeedState, RestIsToCome, FirstToCome, AtFile
    <2>15. QED
      BY <1>1, <1>3, <2>2, <2>5, <2>7, <2>9, <2>11, <2>13, <2>14, RunWrites
  <1>4. QED
    BY <1>2, <1>3

LEMMA PostKeeps ==
  ASSUME SeedingInv, PostSeedRecord
  PROVE  SeedingInv'
  <1>1. /\ seeding.pc = "posting" /\ UNCHANGED manifest /\ seeding \in SeedState
        /\ seeding.at <= Len(Files) /\ SeedingType
    BY DEF PostSeedRecord, SeedingInv, SeedingType, AtFile
  <1> DEFINE r == [title |-> StoredTitle(File.title), type |-> File.type, for |-> File.title,
                   moved |-> FALSE, job |-> FALSE]
  <1>2. PICK i \in Unused :
           /\ rows' = [rows EXCEPT ![i] = r]
           /\ seeding' = [seeding EXCEPT !.pc = "enqueueing", !.id = i]
    BY DEF PostSeedRecord
  <1>3. i \in RecordIds
    BY DEF Unused
  <1>4. /\ seeding.at \in 1 .. Len(Files) /\ File.title \in SeedTitles /\ File.type \in Types
        /\ File.title = Files[seeding.at].title
    BY <1>1, AtTheFile DEF AtFile
  <1>5. r \in RowType
    BY <1>4 DEF RowType, StoredTitle
  <1>6. /\ r.for = File.title /\ r.title = StoredTitle(File.title)
    OBVIOUS
  <1> HIDE DEF r
  <1>7. r.for \in Rewritten \/ r.title = r.for
    BY <1>6 DEF StoredTitle
  <1>8. NotMade(r.for)
    BY <1>1, <1>4, <1>6 DEF SeedingInv, RestIsToCome, FirstToCome, AtFile
  <1>9. "enqueueing" \in SeedStages
    BY DEF SeedStages
  <1>10. /\ seeding' \in SeedState /\ seeding'.pc = "enqueueing" /\ seeding'.id = i
         /\ seeding'.targets = seeding.targets /\ seeding'.existing = seeding.existing
         /\ seeding'.at = seeding.at
    BY <1>1, <1>2, <1>3, <1>9 DEF SeedState
  <1>11. /\ rows' \in [RecordIds -> {NoRow, Deleted} \cup RowType] /\ Rows' = Rows \cup {i}
         /\ rows'[i] = r /\ RowsKeep
         /\ \A t : NotMade(t) /\ r.for # t => NotMade(t)'
    BY <1>1, <1>2, <1>3, <1>5, <1>7, <1>8, RowWritten DEF SeedingInv
  <1>12. SeedingType'
    BY <1>1, <1>3, <1>10, <1>11 DEF SeedingType, AtFile, AtRow
  <1>13. File' = File
    BY <1>10 DEF File
  <1>14. IsFor(seeding.id, File.title)'
    BY <1>5, <1>6, <1>10, <1>11, <1>13, RowsAreRows DEF IsFor
  <1>15. RestIsToCome'
    <2>1. ASSUME NEW k \in 1 .. Len(Files), k >= seeding.at + 1,
                 seeding.targets[Files[k].title] = 0, Files[k].title \notin seeding.existing
          PROVE  NotMade(Files[k].title)'
      <3>1. k # seeding.at /\ k >= seeding.at
        BY <1>4, <2>1
      <3>2. Files[k].title # r.for
        BY <1>4, <1>6, <3>1, FileTitles
      <3>3. NotMade(Files[k].title)
        BY <1>1, <2>1, <3>1 DEF SeedingInv, RestIsToCome, FirstToCome, AtFile
      <3>4. QED
        BY <1>11, <3>2, <3>3
    <2>2. QED
      BY <1>10, <2>1 DEF RestIsToCome, FirstToCome, AtFile
  <1>16. QED
    BY <1>1, <1>2, <1>3, <1>5, <1>7, <1>8, <1>10, <1>12, <1>14, <1>15, RunWrites

LEMMA EnqueueKeeps ==
  ASSUME SeedingInv, EnqueueSeedJob
  PROVE  SeedingInv'
  <1>1. /\ seeding.pc = "enqueueing" /\ UNCHANGED manifest /\ seeding \in SeedState
        /\ seeding.id \in RecordIds /\ seeding.at <= Len(Files) /\ SeedingType
        /\ IsFor(seeding.id, File.title) /\ File.title \in SeedTitles
    BY AtTheFile DEF EnqueueSeedJob, SeedingInv, SeedingType, ClaimsHold, AtFile, AtRow
  <1>2. seeding' = [seeding EXCEPT !.pc = "remembering"] /\ "remembering" \in SeedStages
    BY DEF EnqueueSeedJob, Seeds, SeedStages
  <1>3. /\ seeding' \in SeedState /\ seeding'.pc = "remembering" /\ seeding'.id = seeding.id
        /\ seeding'.targets = seeding.targets /\ seeding'.existing = seeding.existing
        /\ seeding'.at = seeding.at
    BY <1>1, <1>2 DEF SeedState
  <1>4. File' = File
    BY <1>3 DEF File
  <1>5. CASE seeding.id \notin Rows
    <2>1. UNCHANGED rows
      BY <1>5 DEF EnqueueSeedJob
    <2>2. SeedingType'
      BY <1>1, <1>3, <2>1 DEF SeedingType, AtFile, AtRow
    <2>3. IsFor(seeding.id, File.title)'
      BY <1>1, <1>3, <1>4, <2>1 DEF IsFor, Strays, Rows
    <2>4. ClaimsHold'
      BY <1>1, <1>3, <2>1, <2>3, RowsAlike DEF SeedingInv, ClaimsHold, AtRow
    <2>5. RestIsToCome'
      BY <1>1, <1>3, <2>1, RowsAlike DEF SeedingInv, RestIsToCome, FirstToCome, AtFile
    <2>6. QED
      BY <1>1, <2>1, <2>2, <2>4, <2>5, RunGoesOn
  <1>6. CASE seeding.id \in Rows
    <2> DEFINE i == seeding.id
               r == [rows[i] EXCEPT !.job = TRUE]
    <2>1. rows[i] \in RowType
      BY <1>1, <1>6, TypeOfRow
    <2>2. rows' = [rows EXCEPT ![i] = r]
      BY <1>6 DEF EnqueueSeedJob
    <2>3. /\ r \in RowType /\ r.for = rows[i].for /\ r.moved = rows[i].moved
          /\ r.title = rows[i].title
      BY <2>1 DEF RowType
    <2> HIDE DEF r
    <2>4. r.for = "people" \/ r.moved \/ r.for \in Rewritten \/ r.title = r.for
      BY <1>6, <2>3 DEF SeedingInv, TitlesHold, Strays
    <2>5. /\ rows' \in [RecordIds -> {NoRow, Deleted} \cup RowType] /\ RowsKeep
          /\ \A t : NotMade(t) => NotMade(t)'
      BY <1>1, <1>6, <2>2, <2>3, <2>4, RowWritten DEF SeedingInv
    <2>6. SeedingType'
      BY <1>1, <1>3, <2>5 DEF SeedingType, AtFile, AtRow
    <2>7. IsFor(seeding.id, File.title)'
      <3>1. PICK j \in RecordIds, t \in SeedTitles : j = seeding.id /\ t = File.title
        BY <1>1
      <3>2. IsFor(j, t)'
        BY <1>1, <2>5, <3>1, ForStays
      <3>3. seeding'.id = j /\ File' = File
        BY <1>3, <1>4, <3>1
      <3>4. QED
        BY <3>1, <3>2, <3>3
    <2>8. RestIsToCome'
      BY <1>1, <1>3, <2>5 DEF SeedingInv, RestIsToCome, FirstToCome, AtFile
    <2>9. QED
      BY <1>1, <1>3, <1>6, <2>2, <2>3, <2>4, <2>6, <2>7, <2>8, RunWrites
  <1>7. QED
    BY <1>5, <1>6

LEMMA RememberKeeps ==
  ASSUME SeedingInv, RememberSeedRecord
  PROVE  SeedingInv'
  <1>1. /\ seeding.pc = "remembering" /\ UNCHANGED rows /\ seeding \in SeedState
        /\ seeding.id \in RecordIds /\ seeding.at \in Nat /\ seeding.at <= Len(Files)
        /\ SeedingType /\ IsFor(seeding.id, File.title) /\ File.title \in SeedTitles
        /\ manifest' = [manifest EXCEPT ![File.title] = seeding.id]
    BY AtTheFile
       DEF RememberSeedRecord, SeedingInv, SeedingType, SeedState, ClaimsHold, AtFile, AtRow
  <1> DEFINE next == seeding.at + 1
  <1>2. /\ next \in Nat \ {0} /\ "loading" \in SeedStages
        /\ seeding' = [seeding EXCEPT !.pc = "loading", !.at = next]
    BY <1>1 DEF RememberSeedRecord, NextFile, SeedStages, SeedState
  <1>3. next = FirstToCome
    BY <1>1 DEF FirstToCome
  <1> HIDE DEF next
  <1>4. /\ seeding' \in SeedState /\ seeding'.pc = "loading" /\ seeding'.at = next
        /\ seeding'.targets = seeding.targets /\ seeding'.existing = seeding.existing
    BY <1>1, <1>2 DEF SeedState
  <1>5. manifest' \in [SeedTitles -> RecordIds \cup {0}]
    BY <1>1 DEF SeedingType
  <1>6. SeedingType'
    BY <1>1, <1>4, <1>5 DEF SeedingType, AtFile, AtRow
  <1>7. \A t \in SeedTitles : manifest'[t] # 0 => IsFor(manifest'[t], t)
    BY <1>1 DEF SeedingInv, SeedingType, ClaimsHold
  <1>8. ClaimsHold'
    BY <1>1, <1>4, <1>7, RowsAlike DEF SeedingInv, ClaimsHold, AtRow
  <1>9. RestIsToCome'
    BY <1>1, <1>3, <1>4, RowsAlike DEF SeedingInv, RestIsToCome, FirstToCome, AtFile
  <1>10. TitlesHold' /\ SeedsStayOne'
    BY <1>1 DEF SeedingInv, TitlesHold, SeedsStayOne, Rows, Strays
  <1>11. QED
    BY <1>6, <1>8, <1>9, <1>10 DEF SeedingInv

LEMMA VerifyKeeps ==
  ASSUME SeedingInv, VerifyTitles
  PROVE  SeedingInv'
  <1>1. UNCHANGED <<rows, manifest>> /\ seeding \in SeedState /\ "draining" \in SeedStages
    BY DEF VerifyTitles, SeedingInv, SeedingType, SeedStages
  <1>2. CASE FindSeedTitles # SeedTitles
    BY <1>1, <1>2, FailureKeeps DEF VerifyTitles
  <1>3. CASE FindSeedTitles = SeedTitles
    <2>1. seeding' = [seeding EXCEPT !.pc = "draining"]
      BY <1>3 DEF VerifyTitles, Seeds
    <2>2. /\ seeding' \in SeedState /\ seeding'.pc = "draining"
          /\ seeding'.targets = seeding.targets
      BY <1>1, <2>1 DEF SeedState
    <2>3. QED
      BY <1>1, <2>2, RunEnds
  <1>4. QED
    BY <1>2, <1>3

LEMMA DrainKeeps ==
  ASSUME SeedingInv, DrainEmbedJobs
  PROVE  SeedingInv'
  <1>1. /\ seeding.pc = "draining" /\ UNCHANGED manifest /\ seeding \in SeedState
        /\ SeedingType /\ "done" \in SeedStages
    BY DEF DrainEmbedJobs, SeedingInv, SeedingType, SeedStages
  <1>2. ASSUME NEW i \in Rows, NEW failed \in BOOLEAN,
               rows' = [rows EXCEPT ![i].job = FALSE],
               seeding' = [seeding EXCEPT !.failed = @ \/ failed]
        PROVE  SeedingInv'
    <2> DEFINE r == [rows[i] EXCEPT !.job = FALSE]
               fails == seeding.failed \/ failed
    <2>1. i \in RecordIds /\ rows[i] \in RowType
      BY <1>1, TypeOfRow
    <2>2. rows' = [rows EXCEPT ![i] = r]
      BY <1>2
    <2>3. /\ r \in RowType /\ r.for = rows[i].for /\ r.moved = rows[i].moved
          /\ r.title = rows[i].title
      BY <2>1 DEF RowType
    <2>4. r.for = "people" \/ r.moved \/ r.for \in Rewritten \/ r.title = r.for
      BY <2>3 DEF SeedingInv, TitlesHold, Strays
    <2>5. fails \in BOOLEAN /\ seeding' = [seeding EXCEPT !.failed = fails]
      BY <1>1, <1>2 DEF SeedState
    <2> HIDE DEF r, fails
    <2>6. /\ seeding' \in SeedState /\ seeding'.pc = "draining"
          /\ seeding'.targets = seeding.targets /\ seeding'.existing = seeding.existing
          /\ seeding'.at = seeding.at
      BY <1>1, <2>5 DEF SeedState
    <2>7. rows' \in [RecordIds -> {NoRow, Deleted} \cup RowType]
      BY <1>1, <2>1, <2>2, <2>3, <2>4, RowWritten DEF SeedingInv
    <2>8. SeedingType'
      BY <1>1, <2>6, <2>7 DEF SeedingType, AtFile, AtRow
    <2>9. RestIsToCome'
      BY <2>6 DEF RestIsToCome, AtFile
    <2>10. QED
      BY <1>1, <2>1, <2>2, <2>3, <2>4, <2>6, <2>8, <2>9, RunWrites DEF AtRow
  <1>3. CASE /\ IF seeding.failed THEN SeedFails ELSE Seeds("done")
             /\ UNCHANGED rows
    <2>1. CASE SeedFails
      BY <1>1, <1>3, <2>1, FailureKeeps
    <2>2. CASE Seeds("done")
      <3>1. /\ seeding' \in SeedState /\ seeding'.pc = "done"
            /\ seeding'.targets = seeding.targets
        BY <1>1, <2>2 DEF Seeds, SeedState
      <3>2. QED
        BY <1>1, <1>3, <3>1, RunEnds
    <2>3. QED
      BY <1>3, <2>1, <2>2
  <1>4. QED
    BY <1>2, <1>3 DEF DrainEmbedJobs

\* People write a row beside the run.
LEMMA PeopleWrite ==
  ASSUME SeedingInv, UNCHANGED <<manifest, seeding>>,
         NEW i \in RecordIds, NEW r \in RowType,
         rows' = [rows EXCEPT ![i] = r],
         i \in Unused \/ (i \in Rows /\ r.for = rows[i].for),
         IF i \in Unused THEN r.for = "people" ELSE r.moved
  PROVE  SeedingInv'
  <1>1. SeedingType /\ SeedingInv
    BY DEF SeedingInv
  <1>2. i \in Unused => i \notin Rows
    BY DEF Unused, Rows
  <1>3. r.moved \in BOOLEAN
    BY DEF RowType
  <1>4. /\ rows' \in [RecordIds -> {NoRow, Deleted} \cup RowType] /\ RowsKeep
        /\ \A t : NotMade(t) /\ (i \in Rows \/ r.for # t \/ t = "people") => NotMade(t)'
    BY <1>1, <1>2, <1>3, RowWritten DEF SeedingInv
  <1>5. SeedingType'
    BY <1>1, <1>4 DEF SeedingType
  <1>6. seeding'.pc \in AtRow => IsFor(seeding.id, File.title)'
    <2> SUFFICES ASSUME seeding.pc \in AtRow PROVE IsFor(seeding.id, File.title)'
      OBVIOUS
    <2>1. seeding.id \in RecordIds /\ File.title \in SeedTitles
      BY <1>1, AtTheFile DEF SeedingType, AtRow, AtFile
    <2>2. PICK j \in RecordIds, t \in SeedTitles : j = seeding.id /\ t = File.title
      BY <2>1
    <2>3. IsFor(j, t)'
      BY <1>1, <1>4, <2>2, ForStays DEF SeedingInv, ClaimsHold
    <2>4. seeding'.id = j /\ File' = File
      BY <2>2 DEF File
    <2>5. QED
      BY <2>2, <2>3, <2>4
  <1>7. RestIsToCome'
    <2>1. \A t : NotMade(t) => NotMade(t)'
      BY <1>2, <1>4
    <2>2. QED
      BY <1>1, <2>1 DEF SeedingInv, RestIsToCome, FirstToCome, File
  <1>8. i \in Rows \/ r.for = "people" \/ NotMade(r.for)
    OBVIOUS
  <1>9. QED
    BY <1>1, <1>2, <1>3, <1>5, <1>6, <1>7, <1>8, RunWrites

LEMMA RecordedKeeps ==
  ASSUME SeedingInv, RecordByHand
  PROVE  SeedingInv'
  <1>1. PICK i \in Unused, title \in SeedTitles \cup Others, type \in Types :
           rows' = [rows EXCEPT ![i] = [title |-> title, type |-> type,
                       for |-> "people", moved |-> FALSE, job |-> TRUE]]
    BY DEF RecordByHand
  <1> DEFINE r == [title |-> title, type |-> type,
                   for |-> "people", moved |-> FALSE, job |-> TRUE]
  <1>2. r \in RowType /\ r.for = "people"
    BY DEF RowType
  <1>3. i \in RecordIds /\ UNCHANGED <<manifest, seeding>>
    BY DEF Unused, RecordByHand
  <1> HIDE DEF r
  <1>4. rows' = [rows EXCEPT ![i] = r]
    BY <1>1 DEF r
  <1>5. QED
    BY <1>2, <1>3, <1>4, PeopleWrite

LEMMA RenamedKeeps ==
  ASSUME SeedingInv, RenameByHand
  PROVE  SeedingInv'
  <1>1. PICK i \in Rows, title \in SeedTitles \cup Others :
           rows' = [rows EXCEPT ![i].title = title, ![i].moved = TRUE]
    BY DEF RenameByHand
  <1> DEFINE r == [rows[i] EXCEPT !.title = title, !.moved = TRUE]
  <1>2. i \in RecordIds /\ rows[i] \in RowType /\ UNCHANGED <<manifest, seeding>>
    BY TypeOfRow DEF SeedingInv, RenameByHand
  <1>3. r \in RowType /\ r.for = rows[i].for /\ r.moved
    BY <1>2 DEF RowType
  <1>4. rows' = [rows EXCEPT ![i] = r]
    BY <1>1
  <1>5. i \notin Unused
    BY DEF Unused, Rows
  <1> HIDE DEF r
  <1>6. QED
    BY <1>2, <1>3, <1>4, <1>5, PeopleWrite

LEMMA DeletedKeeps ==
  ASSUME SeedingInv, DeleteByHand
  PROVE  SeedingInv'
  <1>1. PICK i \in Rows : rows' = [rows EXCEPT ![i] = Deleted]
    BY DEF DeleteByHand
  <1>2. UNCHANGED <<manifest, seeding>> /\ SeedingType /\ i \in RecordIds
    BY DEF DeleteByHand, SeedingInv, Rows
  <1>3. /\ rows' \in [RecordIds -> {NoRow, Deleted} \cup RowType]
        /\ rows'[i] = Deleted /\ \A j \in RecordIds \ {i} : rows'[j] = rows[j]
    BY <1>1, <1>2 DEF SeedingType
  <1>4. /\ Rows' = Rows \ {i}
        /\ \A j \in Rows' : rows'[j] = rows[j]
    BY <1>3, RowsAreRows DEF Rows
  <1>5. RowsKeep
    BY <1>3, <1>4, RowsAreRows DEF RowsKeep, Rows
  <1>6. TitlesHold' /\ SeedsStayOne' /\ \A t : NotMade(t) => NotMade(t)'
    BY <1>4 DEF SeedingInv, TitlesHold, SeedsStayOne, NotMade, Strays
  <1>7. SeedingType'
    BY <1>2, <1>3 DEF SeedingType
  <1>8. ASSUME NEW j \in RecordIds, NEW t \in SeedTitles, IsFor(j, t) PROVE IsFor(j, t)'
    BY <1>5, <1>8, ForStays
  <1>9. ClaimsHold'
    <2>1. \A t \in SeedTitles : manifest[t] # 0 => IsFor(manifest[t], t)'
      <3> SUFFICES ASSUME NEW t \in SeedTitles, manifest[t] # 0 PROVE IsFor(manifest[t], t)'
        BY <1>2
      <3>1. PICK j \in RecordIds : j = manifest[t]
        BY <1>2 DEF SeedingType
      <3>2. IsFor(j, t)'
        BY <1>8, <3>1 DEF SeedingInv, ClaimsHold
      <3>3. manifest'[t] = j
        BY <1>2, <3>1
      <3>4. QED
        BY <3>2, <3>3
    <2>2. ASSUME NEW t \in SeedTitles, seeding.targets[t] # 0
          PROVE  IsFor(seeding.targets[t], t)'
      <3>1. PICK j \in RecordIds : j = seeding.targets[t]
        BY <1>2, <2>2 DEF SeedingType, SeedState
      <3>2. IsFor(j, t)'
        BY <1>8, <2>2, <3>1 DEF SeedingInv, ClaimsHold
      <3>3. seeding'.targets[t] = j
        BY <1>2, <3>1
      <3>4. QED
        BY <3>2, <3>3
    <2>3. ASSUME seeding.pc \in AtRow PROVE IsFor(seeding.id, File.title)'
      <3>1. PICK j \in RecordIds, t \in SeedTitles : j = seeding.id /\ t = File.title
        BY <1>2, <2>3, AtTheFile DEF SeedingType, AtRow, AtFile
      <3>2. IsFor(j, t)'
        BY <1>8, <2>3, <3>1 DEF SeedingInv, ClaimsHold
      <3>3. seeding'.id = j /\ File' = File
        BY <1>2, <3>1 DEF File
      <3>4. QED
        BY <3>1, <3>2, <3>3
    <2>4. QED
      BY <1>2, <2>1, <2>2, <2>3 DEF ClaimsHold
  <1>10. RestIsToCome'
    BY <1>2, <1>6 DEF SeedingInv, RestIsToCome, FirstToCome, File
  <1>11. QED
    BY <1>6, <1>7, <1>9, <1>10 DEF SeedingInv

\* seed.ts, runSeed: however often it is run, plain or with --reset, and wherever
\* it dies, the seeds make one record for a title, for any files and any number
\* of runs and of people beside them: a second one only where a person has
\* renamed or deleted the first, or the sanitizer changes the title.
THEOREM SeedsMakeOne == SeedingSpec => []SeedsStayOne
  <1>1. SeedingInit => SeedingInv
    <2> SUFFICES ASSUME SeedingInit PROVE SeedingInv
      OBVIOUS
    <2>1. Rows = {}
      BY DEF SeedingInit, Rows
    <2>2. NotSeeding \in SeedState
      BY DEF NotSeeding, SeedState, SeedStages
    <2>3. /\ seeding.pc = "off" /\ seeding.targets = [t \in SeedTitles |-> 0]
      BY DEF SeedingInit, NotSeeding
    <2>4. SeedingType
      BY <2>2, <2>3 DEF SeedingInit, SeedingType, AtFile, AtRow
    <2>5. ClaimsHold
      BY <2>3 DEF SeedingInit, ClaimsHold, AtRow
    <2>6. TitlesHold /\ SeedsStayOne /\ RestIsToCome
      BY <2>1, <2>3 DEF TitlesHold, SeedsStayOne, RestIsToCome, AtFile
    <2>7. QED
      BY <2>4, <2>5, <2>6 DEF SeedingInv
  <1>2. SeedingInv /\ [SeedingNext]_seedingVars => SeedingInv'
    <2> SUFFICES ASSUME SeedingInv, [SeedingNext]_seedingVars PROVE SeedingInv'
      OBVIOUS
    <2>1. CASE StartSeed
      BY <2>1, StartKeeps
    <2>2. CASE SeedRun
      BY <2>2, LookKeeps, ManifestReadKeeps, ClaimedKeeps, AdoptKeeps, LoadKeeps, PatchKeeps,
         PostKeeps, EnqueueKeeps, RememberKeeps, VerifyKeeps, DrainKeeps DEF SeedRun
    <2>3. CASE CrashSeed
      BY <2>3, FailureKeeps DEF CrashSeed
    <2>4. CASE RecordByHand \/ RenameByHand \/ DeleteByHand
      BY <2>4, RecordedKeeps, RenamedKeeps, DeletedKeeps
    <2>5. CASE UNCHANGED seedingVars
      <3>1. SeedingType' /\ ClaimsHold' /\ RestIsToCome'
        BY <2>5, RowsAlike DEF seedingVars, SeedingInv, SeedingType, ClaimsHold, RestIsToCome,
                               FirstToCome, File
      <3>2. QED
        BY <2>5, <3>1, RunGoesOn DEF seedingVars
    <2>6. QED
      BY <2>1, <2>2, <2>3, <2>4, <2>5 DEF SeedingNext
  <1>3. SeedingInv => SeedsStayOne
    BY DEF SeedingInv
  <1>4. QED
    BY <1>1, <1>2, <1>3, PTL DEF SeedingSpec

-----------------------------------------------------------------------------
(* The lists.                                                              *)

Entries == [at : Times, labels : SUBSET (Marks \cup Statuses)]
Walks == [pc : {"asking", "showing", "refused", "over"},
          query : [labels : SUBSET (Marks \cup Statuses), limit : Int],
          cursor : Links, seen : [EntryIds -> Nat], steady : SUBSET EntryIds]

ListingType ==
    /\ collection \in {"records", "articles"}
    /\ shelf \in [EntryIds -> {NoEntry} \cup Entries]
    /\ walk.pc # "off" => walk \in Walks

\* The cursor parts the entries that were shown from those to come: what was
\* shown lies before it, and what answered the query all the while and was not
\* shown yet lies behind it.
CursorParts ==
    /\ walk.pc # "off" => \A i \in EntryIds : walk.seen[i] <= 1
    /\ walk.pc \in {"asking", "showing"} =>
          /\ \A i \in EntryIds : walk.seen[i] = 1 => i \in Shelved /\ ~Behind(i, walk.cursor)
          /\ \A i \in walk.steady : /\ Matches(i, walk.query)
                                    /\ walk.seen[i] = 1 \/ Behind(i, walk.cursor)
    /\ walk.pc = "over" => \A i \in walk.steady : walk.seen[i] = 1

ListingInv == ListingType /\ CursorParts

\* Entries and what they are called.
LEMMA EntryTypes ==
  ASSUME ListingType
  PROVE  /\ \A i \in Shelved : /\ i \in EntryIds /\ shelf[i] \in Entries
                               /\ shelf[i].at \in Nat /\ shelf[i].at \in Times
         /\ \A i \in EntryIds : i \in Nat
         /\ NoEntry \notin Entries
  <1>1. Times \subseteq Nat /\ EntryIds \subseteq Nat
    BY ListingAssumption
  <1>2. \A e \in Entries : e.at \in Times
    BY DEF Entries
  <1>3. NoEntry.at = -1 /\ -1 \notin Nat
    BY DEF NoEntry
  <1>4. NoEntry \notin Entries
    BY <1>1, <1>2, <1>3
  <1>5. \A i \in Shelved : i \in EntryIds /\ shelf[i] \in Entries
    BY DEF ListingType, Shelved
  <1>6. QED
    BY <1>1, <1>2, <1>4, <1>5

\* Any two entries have an order.
LEMMA NewerOrders ==
  ASSUME ListingType
  PROVE  /\ \A i \in Shelved : ~Newer(i, i)
         /\ \A i, j \in Shelved : i # j => (Newer(i, j) <=> ~Newer(j, i))
         /\ \A i, j, k \in Shelved : Newer(i, j) /\ Newer(j, k) => Newer(i, k)
  <1>1. \A i \in Shelved : shelf[i].at \in Nat /\ i \in Nat
    BY EntryTypes
  <1>2. QED
    BY <1>1 DEF Newer

\* Some entries, if there are any, have a last one, and a first.
LEMMA LastOfSome ==
  ASSUME ListingType, NEW S \in SUBSET Shelved, S # {}
  PROVE  /\ \E l \in S : \A j \in S \ {l} : Newer(j, l)
         /\ \E f \in S : \A j \in S : ~Newer(j, f)
  <1>1. IsFiniteSet(S)
    BY ListingAssumption, FS_Subset, EntryTypes
  <1>2. \E l \in S : \A j \in S \ {l} : Newer(j, l)
    <2> DEFINE Older(i) == {j \in S : Newer(i, j)}
               Sizes == {Cardinality(Older(i)) : i \in S}
    <2>1. \A i \in S : IsFiniteSet(Older(i)) /\ Cardinality(Older(i)) \in Nat
      BY <1>1, FS_Subset, FS_CardinalityType
    <2>2. Sizes \in SUBSET Nat /\ Sizes # {}
      BY <2>1
    <2>3. PICK m \in Sizes : \A n \in Sizes : m <= n
      BY <2>2, LeastOf
    <2>4. PICK l \in S : \A i \in S : Cardinality(Older(l)) <= Cardinality(Older(i))
      BY <2>3
    <2>5. ASSUME NEW j \in S \ {l}, ~Newer(j, l) PROVE FALSE
      <3>1. Newer(l, j) /\ ~Newer(j, j)
        BY <2>5, NewerOrders
      <3>2. Older(j) \subseteq Older(l) /\ j \in Older(l) /\ j \notin Older(j)
        BY <3>1, NewerOrders
      <3>3. Cardinality(Older(j)) <= Cardinality(Older(l))
            /\ (Cardinality(Older(l)) = Cardinality(Older(j)) => Older(l) = Older(j))
        BY <2>1, <3>2, FS_Subset
      <3>4. ~(Cardinality(Older(l)) <= Cardinality(Older(j)))
        <4>1. Older(l) # Older(j)
          BY <3>2
        <4> HIDE DEF Older
        <4>2. QED
          BY <2>1, <3>3, <4>1
      <3>5. QED
        BY <2>4, <2>5, <3>4
    <2>6. QED
      BY <2>5
  <1>3. \E f \in S : \A j \in S : ~Newer(j, f)
    <2> DEFINE Above(i) == {j \in S : Newer(j, i)}
               Sizes == {Cardinality(Above(i)) : i \in S}
    <2>1. \A i \in S : IsFiniteSet(Above(i)) /\ Cardinality(Above(i)) \in Nat
      BY <1>1, FS_Subset, FS_CardinalityType
    <2>2. Sizes \in SUBSET Nat /\ Sizes # {}
      BY <2>1
    <2>3. PICK m \in Sizes : \A n \in Sizes : m <= n
      BY <2>2, LeastOf
    <2>4. PICK f \in S : \A i \in S : Cardinality(Above(f)) <= Cardinality(Above(i))
      BY <2>3
    <2>5. ASSUME NEW j \in S, Newer(j, f) PROVE FALSE
      <3>1. Above(j) \subseteq Above(f) /\ j \in Above(f) /\ j \notin Above(j)
        BY <2>5, NewerOrders
      <3>2. Cardinality(Above(j)) <= Cardinality(Above(f))
            /\ (Cardinality(Above(f)) = Cardinality(Above(j)) => Above(f) = Above(j))
        BY <2>1, <3>1, FS_Subset
      <3>3. ~(Cardinality(Above(f)) <= Cardinality(Above(j)))
        <4>1. Above(f) # Above(j)
          BY <3>1
        <4> HIDE DEF Above
        <4>2. QED
          BY <2>1, <3>2, <4>1
      <3>4. QED
        BY <2>4, <2>5, <3>3
    <2>6. QED
      BY <2>5
  <1>4. QED
    BY <1>2, <1>3

\* What a page shows: the newest of what is asked for and lies behind the cursor.
LEMMA PageShows ==
  ASSUME ListingType, NEW query, NEW cursor, query.limit \in Int, query.limit >= 1
  PROVE  LET page == PageOf(query, cursor)
             documents == Found(query, cursor)
         IN  /\ page.items \subseteq documents
             /\ \/ page.nextCursor = NoCursor /\ page.items = documents
                \/ \E last \in page.items :
                      /\ page.nextCursor = EncodeCursor(last)
                      /\ \A j \in page.items \ {last} : Newer(j, last)
                      /\ \A j \in documents \ page.items : Newer(last, j)
  <1> DEFINE D == Found(query, cursor)
             Above(i) == {j \in D : Newer(j, i)}
             I == {i \in D : Cardinality(Above(i)) < query.limit}
             last == CHOOSE i \in I : \A j \in I \ {i} : Newer(j, i)
             page == PageOf(query, cursor)
  <1>1. D \in SUBSET Shelved /\ IsFiniteSet(D)
    <2>1. D \subseteq EntryIds
      BY DEF Found
    <2>2. D \in SUBSET Shelved
      BY DEF Found, Matches
    <2>3. QED
      BY <2>1, <2>2, ListingAssumption, FS_Subset
  <1>2. /\ page.items = I
        /\ page.nextCursor = IF Cardinality(D) > query.limit THEN EncodeCursor(last) ELSE NoCursor
    BY DEF PageOf
  <1>3. \A i \in D : IsFiniteSet(Above(i)) /\ Cardinality(Above(i)) \in Nat
    BY <1>1, FS_Subset, FS_CardinalityType
  <1>4. Cardinality(D) \in Nat
    BY <1>1, FS_CardinalityType
  <1> HIDE DEF D, page
  <1>5. CASE Cardinality(D) > query.limit
    <2>1. D # {}
      BY <1>4, <1>5, FS_EmptySet
    <2>2. PICK f \in D : \A j \in D : ~Newer(j, f)
      BY <1>1, <2>1, LastOfSome
    <2>3. f \in I
      <3>1. Above(f) = {}
        BY <2>2
      <3>2. Cardinality(Above(f)) = 0
        BY <3>1, FS_EmptySet
      <3>3. QED
        BY <3>2
    <2>4. I \in SUBSET Shelved /\ I # {}
      BY <1>1, <2>3
    <2>5. PICK l \in I : \A j \in I \ {l} : Newer(j, l)
      <3> HIDE DEF I
      <3>1. QED
        BY <2>4, LastOfSome
    <2>6. last \in I /\ \A j \in I \ {last} : Newer(j, last)
      <3> HIDE DEF I
      <3>1. QED
        BY <2>5
    <2> HIDE DEF last
    <2>7. ASSUME NEW j \in D \ I PROVE Newer(last, j)
      <3>1. j # last /\ last \in D /\ j \in Shelved /\ last \in Shelved
        BY <1>1, <2>6, <2>7
      <3>2. SUFFICES ASSUME Newer(j, last) PROVE FALSE
        BY <3>1, NewerOrders
      <3>3. Above(j) \subseteq Above(last)
        BY <1>1, <3>1, <3>2, NewerOrders
      <3>4. Cardinality(Above(j)) <= Cardinality(Above(last))
        BY <1>3, <3>1, <3>3, FS_Subset
      <3>5. Cardinality(Above(last)) < query.limit /\ ~(Cardinality(Above(j)) < query.limit)
        BY <2>6, <2>7
      <3>6. Cardinality(Above(last)) \in Nat /\ Cardinality(Above(j)) \in Nat
        BY <1>3, <2>7, <3>1
      <3> HIDE DEF Above
      <3>7. QED
        BY <3>4, <3>5, <3>6
    <2>8. page.items = I /\ page.nextCursor = EncodeCursor(last)
      BY <1>2, <1>5 DEF last
    <2>9. QED
      BY <2>6, <2>7, <2>8 DEF page, D
  <1>6. CASE ~(Cardinality(D) > query.limit)
    <2>1. ASSUME NEW i \in D PROVE i \in I
      <3>1. Above(i) \subseteq D \ {i}
        BY <1>1, NewerOrders
      <3>2. IsFiniteSet(D \ {i}) /\ Cardinality(D \ {i}) = Cardinality(D) - 1
        BY <1>1, FS_RemoveElement
      <3>3. Cardinality(Above(i)) <= Cardinality(D) - 1
        BY <3>1, <3>2, FS_Subset
      <3>4. Cardinality(Above(i)) \in Nat
        BY <1>3
      <3>5. Cardinality(Above(i)) < query.limit
        <4> HIDE DEF Above
        <4>1. QED
          BY <1>4, <1>6, <3>3, <3>4
      <3>6. QED
        BY <3>5
    <2>2. page.items = D /\ page.nextCursor = NoCursor
      BY <1>2, <1>6, <2>1
    <2>3. QED
      BY <2>2 DEF page, D
  <1>7. QED
    BY <1>5, <1>6

\* A cursor made from an entry is told from no cursor at all.
LEMMA CursorsOfEntries ==
  ASSUME ListingType
  PROVE  /\ \A i \in Shelved : /\ EncodeCursor(i) \in Links /\ EncodeCursor(i) # NoCursor
                               /\ \A j \in Shelved : Behind(j, EncodeCursor(i)) <=> Newer(i, j)
         /\ NoCursor \in Links
  <1>1. ASSUME NEW i \in Shelved
        PROVE  /\ EncodeCursor(i).kind = "cursor" /\ EncodeCursor(i).at = shelf[i].at
               /\ EncodeCursor(i).id = i
    BY DEF EncodeCursor
  <1>2. ASSUME NEW i \in Shelved PROVE EncodeCursor(i) \in Links
    BY EntryTypes DEF EncodeCursor, Links
  <1>3. NoCursor.kind = "none"
    BY DEF NoCursor
  <1>4. ASSUME NEW i \in Shelved, NEW j \in Shelved
        PROVE  Behind(j, EncodeCursor(i)) <=> Newer(i, j)
    <2>1. shelf[i].at \in Nat /\ shelf[j].at \in Nat /\ i \in Nat /\ j \in Nat
      BY EntryTypes
    <2>2. QED
      BY <1>1, <2>1 DEF Behind, Newer
  <1>5. QED
    BY <1>1, <1>2, <1>3, <1>4 DEF Links

\* The times and ids of cursors are numbers.
LEMMA CursorNumbers ==
  ASSUME NEW c \in Links, c.kind = "cursor"
  PROVE  c.at \in Nat /\ c.id \in Nat
  <1>1. c \in [kind : {"cursor"}, at : Times, id : EntryIds]
    BY DEF Links, NoCursor, Forged
  <1>2. QED
    BY <1>1, ListingAssumption

\* A page moves the cursor on.
LEMMA PageKeeps ==
  ASSUME ListingInv, ShowPage
  PROVE  ListingInv'
  <1>1. walk.pc = "asking" /\ walk \in Walks /\ UNCHANGED <<collection, shelf>> /\ ListingType
    BY DEF ShowPage, ListingInv, ListingType
  <1>2. /\ walk.query.limit \in Int /\ walk.cursor \in Links /\ walk.seen \in [EntryIds -> Nat]
        /\ walk.steady \subseteq EntryIds
    BY <1>1 DEF Walks
  <1>3. CASE InvalidQuery(walk.query) \/ InvalidCursor(walk.cursor)
    <2>1. walk' = [walk EXCEPT !.pc = "refused"]
      BY <1>3 DEF ShowPage
    <2>2. walk' \in Walks /\ walk'.pc = "refused" /\ walk'.seen = walk.seen
      BY <1>1, <2>1 DEF Walks
    <2>3. QED
      BY <1>1, <2>2 DEF ListingInv, ListingType, CursorParts
  <1>4. CASE ~(InvalidQuery(walk.query) \/ InvalidCursor(walk.cursor))
    <2> DEFINE page == PageOf(walk.query, walk.cursor)
               D == Found(walk.query, walk.cursor)
               seen == [i \in EntryIds |-> walk.seen[i] + IF i \in page.items THEN 1 ELSE 0]
               next == page.nextCursor
               to == IF page.nextCursor = NoCursor THEN "over" ELSE "showing"
    <2>1. walk' = [walk EXCEPT !.seen = seen, !.cursor = next, !.pc = to]
      BY <1>4 DEF ShowPage
    <2>2. walk.query.limit >= 1
      BY <1>2, <1>4 DEF InvalidQuery
    <2>3. /\ page.items \subseteq D
          /\ \/ next = NoCursor /\ page.items = D
             \/ \E last \in page.items :
                   /\ next = EncodeCursor(last)
                   /\ \A j \in page.items \ {last} : Newer(j, last)
                   /\ \A j \in D \ page.items : Newer(last, j)
      BY <1>1, <1>2, <2>2, PageShows
    <2>4. \A i : i \in D <=> /\ i \in EntryIds /\ Matches(i, walk.query)
                             /\ Behind(i, walk.cursor)
      BY DEF Found
    <2>5. D \subseteq Shelved
      BY <2>4 DEF Matches
    <2>6. next \in Links
      BY <1>1, <2>3, <2>5, CursorsOfEntries
    <2>7. /\ seen \in [EntryIds -> Nat]
          /\ \A i \in EntryIds : seen[i] = IF i \in page.items THEN walk.seen[i] + 1
                                           ELSE walk.seen[i]
      BY <1>2
    <2>8. to \in {"over", "showing"} /\ (to = "over" <=> next = NoCursor)
      OBVIOUS
    <2> HIDE DEF page, D, seen, next, to
    <2>9. /\ walk' \in Walks /\ walk'.pc = to /\ walk'.seen = seen /\ walk'.cursor = next
          /\ walk'.steady = walk.steady /\ walk'.query = walk.query
      <3>1. to \in {"asking", "showing", "refused", "over"}
        BY <2>8
      <3>2. QED
        BY <1>1, <2>1, <2>6, <2>7, <3>1 DEF Walks
    <2>10. \A i \in EntryIds :
              /\ walk.seen[i] <= 1
              /\ walk.seen[i] = 1 => i \in Shelved /\ ~Behind(i, walk.cursor)
      BY <1>1 DEF ListingInv, CursorParts
    <2>11. \A i \in walk.steady : /\ Matches(i, walk.query)
                                  /\ walk.seen[i] = 1 \/ Behind(i, walk.cursor)
      BY <1>1 DEF ListingInv, CursorParts
    <2>12. \A i \in EntryIds : i \in page.items => walk.seen[i] = 0 /\ seen[i] = 1
      BY <1>2, <2>3, <2>4, <2>7, <2>10
    <2>13. \A i \in EntryIds : seen[i] <= 1
      BY <2>7, <2>10, <2>12
    <2>14. \A i \in walk.steady : i \in D \/ walk.seen[i] = 1
      BY <1>2, <2>4, <2>11
    <2>15. CASE next = NoCursor /\ page.items = D
      <3>1. \A i \in walk.steady : seen[i] = 1
        BY <1>2, <2>4, <2>7, <2>10, <2>12, <2>14, <2>15
      <3>2. to = "over"
        BY <2>8, <2>15
      <3>3. QED
        BY <1>1, <2>9, <2>13, <3>1, <3>2 DEF ListingInv, ListingType, CursorParts
    <2>16. ASSUME NEW last \in page.items, next = EncodeCursor(last),
                  \A j \in page.items \ {last} : Newer(j, last),
                  \A j \in D \ page.items : Newer(last, j)
           PROVE  ListingInv'
      <3>1. last \in Shelved /\ next # NoCursor /\ Behind(last, walk.cursor)
        BY <1>1, <2>3, <2>4, <2>5, <2>16, CursorsOfEntries
      <3>2. to = "showing"
        BY <2>8, <3>1
      <3>3. \A j \in Shelved : Behind(j, next) <=> Newer(last, j)
        BY <1>1, <2>16, <3>1, CursorsOfEntries
      <3>4. ASSUME NEW i \in EntryIds, seen[i] = 1 PROVE i \in Shelved /\ ~Behind(i, next)
        <4>1. CASE i \in page.items
          <5>1. i \in Shelved /\ (i = last \/ Newer(i, last))
            BY <2>3, <2>5, <2>16, <4>1
          <5>2. ~Newer(last, i)
            BY <1>1, <3>1, <5>1, NewerOrders
          <5>3. QED
            BY <3>3, <5>1, <5>2
        <4>2. CASE i \notin page.items
          <5>1. i \in Shelved /\ ~Behind(i, walk.cursor)
            BY <2>7, <2>10, <3>4, <4>2
          <5>2. walk.cursor.kind = "cursor"
            BY <5>1 DEF Behind
          <5>3. /\ walk.cursor.at \in Nat /\ walk.cursor.id \in Nat /\ i \in Nat /\ last \in Nat
                /\ shelf[i].at \in Nat /\ shelf[last].at \in Nat
            BY <1>1, <1>2, <3>1, <5>1, <5>2, EntryTypes, CursorNumbers
          <5>4. ~Newer(last, i)
            BY <3>1, <5>1, <5>2, <5>3 DEF Behind, Newer
          <5>5. QED
            BY <3>3, <5>1, <5>4
        <4>3. QED
          BY <4>1, <4>2
      <3>5. ASSUME NEW i \in walk.steady
            PROVE  Matches(i, walk.query) /\ (seen[i] = 1 \/ Behind(i, next))
        <4>1. Matches(i, walk.query) /\ i \in Shelved /\ i \in EntryIds
          BY <1>2, <2>11 DEF Matches
        <4>2. CASE walk.seen[i] = 1
          BY <2>7, <2>12, <4>1, <4>2
        <4>3. CASE i \in D
          BY <2>12, <2>16, <3>3, <4>1, <4>3
        <4>4. QED
          BY <2>14, <4>1, <4>2, <4>3
      <3>6. /\ Shelved' = Shelved /\ \A i \in EntryIds : Behind(i, next)' = Behind(i, next)'
            /\ \A i, q : Matches(i, q)' = Matches(i, q)
            /\ \A i, c : Behind(i, c)' = Behind(i, c)
        BY <1>1 DEF Shelved, Matches, Behind
      <3>7. ListingType'
        BY <1>1, <2>9 DEF ListingType
      <3>8. /\ \A i \in EntryIds : walk'.seen[i] <= 1
            /\ \A i \in EntryIds : walk'.seen[i] = 1 => i \in Shelved /\ ~Behind(i, walk'.cursor)
            /\ \A i \in walk'.steady : /\ Matches(i, walk'.query)
                                       /\ walk'.seen[i] = 1 \/ Behind(i, walk'.cursor)
        BY <2>9, <2>13, <3>4, <3>5
      <3>9. CursorParts'
        BY <1>1, <2>9, <3>2, <3>8 DEF CursorParts, Shelved, Matches, Behind
      <3>10. QED
        BY <3>7, <3>9 DEF ListingInv
    <2>17. QED
      BY <2>3, <2>15, <2>16
  <1>5. QED
    BY <1>3, <1>4

\* What a walk may ask for.
LEMMA QueriesTyped ==
  ASSUME NEW query \in ListQueries
  PROVE  query \in [labels : SUBSET (Marks \cup Statuses), limit : Int]
  <1>1. DefaultLimit \in Int /\ PageSizes \cup {DefaultLimit} \subseteq Int
    <2>1. DefaultLimit \in Nat
      BY ListingAssumption
    <2>2. PageSizes \subseteq Int
      BY ListingAssumption
    <2>3. QED
      BY <2>1, <2>2
  <1>2. CASE query \in [labels : SUBSET Marks, limit : PageSizes \cup {DefaultLimit}]
    BY <1>1, <1>2
  <1>3. CASE query = PublicArticlesPath
    BY <1>1, <1>3 DEF PublicArticlesPath, Statuses
  <1>4. ASSUME NEW raw \in Statuses, query = QueueArticlesPath(ParseQueueStatus(raw))
        PROVE  query \in [labels : SUBSET (Marks \cup Statuses), limit : Int]
    <2>1. ParseQueueStatus(raw) \in Statuses
      BY DEF ParseQueueStatus, Statuses
    <2>2. QED
      BY <1>1, <1>4, <2>1 DEF QueueArticlesPath
  <1>5. QED
    BY <1>2, <1>3, <1>4 DEF ListQueries

\* A walk begins with nothing seen, and all that answers the query lies before it.
LEMMA OpenKeeps ==
  ASSUME ListingInv, OpenList
  PROVE  ListingInv'
  <1>1. PICK query \in ListQueries, cursor \in Links :
           walk' = [pc |-> "asking", query |-> query, cursor |-> cursor,
                    seen |-> [i \in EntryIds |-> 0], steady |-> Found(query, cursor)]
    BY DEF OpenList
  <1>2. UNCHANGED <<collection, shelf>>
    BY DEF OpenList
  <1>3. \A i : i \in Found(query, cursor) <=>
                   i \in EntryIds /\ Matches(i, query) /\ Behind(i, cursor)
    BY DEF Found
  <1> DEFINE steady == Found(query, cursor)
             seen == [i \in EntryIds |-> 0]
  <1>4. seen \in [EntryIds -> Nat] /\ \A i \in EntryIds : seen[i] = 0
    OBVIOUS
  <1>5. steady \in SUBSET EntryIds
    BY <1>3
  <1>6. walk' = [pc |-> "asking", query |-> query, cursor |-> cursor, seen |-> seen,
                 steady |-> steady]
    BY <1>1
  <1> HIDE DEF steady, seen
  <1>7. /\ walk' \in Walks /\ walk'.pc = "asking" /\ walk'.query = query
        /\ walk'.cursor = cursor /\ walk'.seen = seen /\ walk'.steady = steady
    BY <1>4, <1>5, <1>6, QueriesTyped DEF Walks
  <1>8. ListingType'
    BY <1>2, <1>7 DEF ListingInv, ListingType
  <1>9. /\ \A i \in EntryIds : ~(walk'.seen[i] = 1) /\ walk'.seen[i] <= 1
        /\ \A i \in walk'.steady : Matches(i, walk'.query) /\ Behind(i, walk'.cursor)
    BY <1>3, <1>4, <1>7 DEF steady
  <1>10. CursorParts'
    BY <1>2, <1>7, <1>9 DEF CursorParts, Shelved, Matches, Behind
  <1>11. QED
    BY <1>8, <1>10 DEF ListingInv

\* An entry that is new was not shown yet and did not answer before; one that
\* changes keeps its place, and stays steady only if it still answers the query.
LEMMA ChangeKeeps ==
  ASSUME ListingInv, NEW id \in EntryIds, NEW entry \in Entries, Change(id, entry),
         id \in Shelved => entry.at = shelf[id].at
  PROVE  ListingInv'
  <1>1. shelf' = [shelf EXCEPT ![id] = entry] /\ collection' = collection
    BY DEF Change
  <1>2. shelf \in [EntryIds -> {NoEntry} \cup Entries] /\ NoEntry \notin Entries
    BY EntryTypes DEF ListingInv, ListingType
  <1>3. /\ shelf' \in [EntryIds -> {NoEntry} \cup Entries]
        /\ \A i \in EntryIds : shelf'[i] = IF i = id THEN entry ELSE shelf[i]
    BY <1>1, <1>2
  <1>4. Shelved' = Shelved \cup {id}
    BY <1>2, <1>3 DEF Shelved
  <1>5. \A i \in Shelved : shelf'[i].at = shelf[i].at
    BY <1>3 DEF Shelved
  <1>6. CASE walk.pc = "off"
    <2>1. walk' = walk
      BY <1>6 DEF Change
    <2>2. QED
      BY <1>1, <1>3, <1>6, <2>1 DEF ListingInv, ListingType, CursorParts
  <1>7. CASE walk.pc # "off"
    <2>1. walk \in Walks /\ walk.steady \subseteq EntryIds
      BY <1>7 DEF ListingInv, ListingType, Walks
    <2>2. entry # NoEntry
      BY <1>2
    <2>3. /\ walk' \in Walks /\ walk'.pc = walk.pc /\ walk'.query = walk.query
          /\ walk'.cursor = walk.cursor /\ walk'.seen = walk.seen
          /\ walk'.steady \subseteq walk.steady
          /\ id \in walk'.steady => walk.query.labels \subseteq entry.labels
      <3>1. CASE walk.query.labels \subseteq entry.labels
        <4>1. walk' = walk
          BY <2>2, <3>1 DEF Change
        <4>2. QED
          BY <2>1, <3>1, <4>1
      <3>2. CASE ~(walk.query.labels \subseteq entry.labels)
        <4>1. walk' = [walk EXCEPT !.steady = walk.steady \ {id}]
          BY <1>7, <3>2 DEF Change
        <4>2. QED
          BY <2>1, <4>1 DEF Walks
      <3>3. QED
        BY <3>1, <3>2
    <2>4. ListingType'
      BY <1>1, <1>3, <2>3 DEF ListingInv, ListingType
    <2>5. \A i \in EntryIds : walk.seen[i] <= 1
      BY <1>7 DEF ListingInv, CursorParts
    <2>6. CASE walk.pc \in {"asking", "showing"}
      <3>1. /\ \A i \in EntryIds : walk.seen[i] = 1 => i \in Shelved /\ ~Behind(i, walk.cursor)
            /\ \A i \in walk.steady : /\ Matches(i, walk.query)
                                      /\ walk.seen[i] = 1 \/ Behind(i, walk.cursor)
        BY <2>6 DEF ListingInv, CursorParts
      <3>2. \A i \in Shelved : Behind(i, walk.cursor)' <=> Behind(i, walk.cursor)
        BY <1>5, <2>3 DEF Behind
      <3>3. \A i \in EntryIds :
                walk'.seen[i] = 1 => i \in Shelved' /\ ~Behind(i, walk.cursor)'
        BY <1>4, <2>3, <3>1, <3>2
      <3>4. ASSUME NEW i \in walk'.steady
            PROVE  Matches(i, walk.query)' /\ (walk'.seen[i] = 1 \/ Behind(i, walk.cursor)')
        <4>1. i \in walk.steady /\ i \in EntryIds /\ i \in Shelved
          BY <2>1, <2>3, <3>1 DEF Matches
        <4>2. walk.query.labels \subseteq shelf'[i].labels
          <5>1. CASE i = id
            BY <1>3, <2>3, <4>1, <5>1
          <5>2. CASE i # id
            BY <1>3, <3>1, <4>1, <5>2 DEF Matches
          <5>3. QED
            BY <5>1, <5>2
        <4>3. QED
          BY <1>4, <2>3, <3>1, <3>2, <4>1, <4>2 DEF Matches
      <3>5. CursorParts'
        BY <2>3, <2>5, <2>6, <3>3, <3>4 DEF CursorParts
      <3>6. QED
        BY <2>4, <3>5 DEF ListingInv
    <2>7. CASE walk.pc \notin {"asking", "showing"}
      BY <2>3, <2>4, <2>5, <2>7 DEF ListingInv, CursorParts
    <2>8. QED
      BY <2>6, <2>7
  <1>8. QED
    BY <1>6, <1>7

LEMMA ListingStep ==
  ListingInv /\ [ListingNext]_listingVars => ListingInv'
  <1> SUFFICES ASSUME ListingInv, [ListingNext]_listingVars PROVE ListingInv'
    OBVIOUS
  <1>1. CASE OpenList
    BY <1>1, OpenKeeps
  <1>2. CASE ShowPage
    BY <1>2, PageKeeps
  <1>3. ASSUME UNCHANGED <<collection, shelf>>,
               NEW pc \in {"asking", "showing"}, walk.pc \in {"asking", "showing"},
               walk' = [walk EXCEPT !.pc = pc]
        PROVE  ListingInv'
    <2>1. walk \in Walks
      BY <1>3 DEF ListingInv, ListingType
    <2>2. /\ walk' \in Walks /\ walk'.pc = pc /\ walk'.query = walk.query
          /\ walk'.cursor = walk.cursor /\ walk'.seen = walk.seen /\ walk'.steady = walk.steady
      BY <1>3, <2>1 DEF Walks
    <2>3. QED
      BY <1>3, <2>2 DEF ListingInv, ListingType, CursorParts, Shelved, Matches, Behind
  <1>4. CASE LosePage
    BY <1>3, <1>4 DEF LosePage
  <1>5. CASE FollowLink
    BY <1>3, <1>5 DEF FollowLink
  <1>6. \A labels \in Labellings : labels \in SUBSET (Marks \cup Statuses)
    BY DEF Labellings
  <1>7. CASE AddEntry
    <2>1. PICK id \in EntryIds \ Shelved, at \in Times, labels \in Labellings :
             Change(id, [at |-> at, labels |-> labels])
      BY <1>7 DEF AddEntry
    <2>2. [at |-> at, labels |-> labels] \in Entries
      BY <1>6 DEF Entries
    <2>3. QED
      BY <2>1, <2>2, ChangeKeeps
  <1>8. CASE ChangeEntry
    <2>1. PICK id \in Shelved, labels \in Labellings :
             Change(id, [shelf[id] EXCEPT !.labels = labels])
      BY <1>8 DEF ChangeEntry
    <2>2. shelf[id] \in Entries /\ id \in EntryIds
      BY EntryTypes DEF ListingInv
    <2>3. /\ [shelf[id] EXCEPT !.labels = labels] \in Entries
          /\ [shelf[id] EXCEPT !.labels = labels].at = shelf[id].at
      BY <1>6, <2>2 DEF Entries
    <2>4. QED
      BY <2>1, <2>2, <2>3, ChangeKeeps
  <1>9. CASE UNCHANGED listingVars
    BY <1>9 DEF listingVars, ListingInv, ListingType, CursorParts, Shelved, Matches, Behind
  <1>10. QED
    BY <1>1, <1>2, <1>4, <1>5, <1>7, <1>8, <1>9 DEF ListingNext

\* cursor.ts: a walk through a list shows no entry twice, and at its end has
\* shown every entry that answered the query all the while, however many share a
\* millisecond and whatever was added or changed between its pages.
THEOREM WalksMissNothing == ListingSpec => []PagesMissNothing
  <1>1. ListingInit => ListingInv
    <2> SUFFICES ASSUME ListingInit PROVE ListingInv
      OBVIOUS
    <2>1. walk.pc = "off" /\ collection \in {"records", "articles"}
      BY DEF ListingInit
    <2>2. shelf \in [EntryIds -> {NoEntry} \cup [at : Times, labels : Labellings]]
      BY DEF ListingInit
    <2>3. \A e \in [at : Times, labels : Labellings] : e \in Entries
      <3>1. Labellings \subseteq SUBSET (Marks \cup Statuses)
        BY DEF Labellings
      <3>2. QED
        BY <3>1 DEF Entries
    <2>4. shelf \in [EntryIds -> {NoEntry} \cup Entries]
      BY <2>2, <2>3
    <2>5. QED
      BY <2>1, <2>4 DEF ListingInv, ListingType, CursorParts
  <1>2. ListingInv => PagesMissNothing
    BY DEF ListingInv, CursorParts, PagesMissNothing
  <1>3. QED
    BY <1>1, <1>2, ListingStep, PTL DEF ListingSpec

-----------------------------------------------------------------------------
(* The articles.                                                           *)

USE FeedbackAssumption, ArticlesAssumption

\* The triggers only propose sets of known records under known labels.
LEMMA TriggersTyped ==
    ASSUME NEW m \in SUBSET Records, NEW now \in 0 .. MaxWeek
    PROVE  EvaluateArticleTriggers(m, now) \subseteq Proposals
<1>1. CaseCandidates(m) \subseteq Proposals
  BY DEF CaseCandidates, Proposal, Proposals, Kinds, Labels
<1>2. PatternCandidates(m) \subseteq Proposals
  <2> SUFFICES ASSUME NEW t \in UNION {Tags[r] : r \in m}
               PROVE  Proposal("pattern", t, Bucket(m, Tags, t)) \in Proposals
    BY DEF PatternCandidates
  <2>1. PICK r \in m : t \in Tags[r]
    OBVIOUS
  <2>2. Tags[r] \cup Axes[r] \in {Tags[s] \cup Axes[s] : s \in Records}
    OBVIOUS
  <2>3. t \in Labels
    BY <2>1, <2>2 DEF Labels
  <2>4. Bucket(m, Tags, t) \in SUBSET Records
    BY DEF Bucket
  <2> QED
    BY <2>3, <2>4 DEF Proposal, Proposals, Kinds
<1>3. DivergenceCandidates(m) \subseteq Proposals
  <2> SUFFICES ASSUME NEW x \in UNION {Axes[r] : r \in m}
               PROVE  Proposal("divergence-report", x, Bucket(m, Axes, x)) \in Proposals
    BY DEF DivergenceCandidates
  <2>1. PICK r \in m : x \in Axes[r]
    OBVIOUS
  <2>2. Tags[r] \cup Axes[r] \in {Tags[s] \cup Axes[s] : s \in Records}
    OBVIOUS
  <2>3. x \in Labels
    BY <2>1, <2>2 DEF Labels
  <2>4. Bucket(m, Axes, x) \in SUBSET Records
    BY DEF Bucket
  <2> QED
    BY <2>3, <2>4 DEF Proposal, Proposals, Kinds
<1>4. DigestCandidates(m, now) \subseteq Proposals
  <2> DEFINE inWindow == {r \in m : Week[r] + 1 = now}
  <2>1. CASE inWindow = {}
    <3>1. Cardinality(inWindow) = 0
      BY <2>1, FS_EmptySet
    <3>2. 0 < DigestNewRecords
      BY DigestNewRecords \in Nat \ {0}
    <3> QED
      BY <3>1, <3>2 DEF DigestCandidates
  <2>2. CASE inWindow # {}
    <3>1. PICK r \in m : Week[r] + 1 = now
      BY <2>2
    <3>2. now - 1 \in 1 .. MaxWeek
      BY <3>1
    <3>3. now - 1 \in Labels
      BY <3>2 DEF Labels
    <3>4. inWindow \in SUBSET Records
      OBVIOUS
    <3>5. Proposal("digest", now - 1, inWindow) \in Proposals
      BY <3>3, <3>4 DEF Proposal, Proposals, Kinds
    <3> QED
      BY <3>5 DEF DigestCandidates
  <2> QED
    BY <2>1, <2>2
<1> QED
  BY <1>1, <1>2, <1>3, <1>4 DEF EvaluateArticleTriggers

LEMMA NoEditTyped == NoEdit \in EditorStates
<1>1. [kind |-> "case", sources |-> {}] \in Ids
  BY DEF Ids, Kinds
<1>2. (CHOOSE a \in Ids : TRUE) \in Ids
  BY <1>1
<1> QED
  BY <1>2 DEF NoEdit, EditorStates

LEMMA NoFeedbackTyped ==
    NoFeedback \in [pc : {"idle", "check", "offer", "insert"},
                    rec : Records, query : Queries]
BY DEF NoFeedback

\* Feedback requests keep their types, and leave the records alone.
LEMMA FeedbackTyped ==
    ASSUME FeedbackTypeOK, FeedbackNext
    PROVE  FeedbackTypeOK' /\ UNCHANGED existing
<1> USE NoFeedbackTyped DEF FeedbackTypeOK
<1>1. ASSUME NEW c \in Clients, NEW p \in Projects, NEW r \in Records,
             NEW q \in Queries, NEW helped \in BOOLEAN,
             UpsertFeedback(c, p, r, q, helped)
      PROVE  FeedbackTypeOK' /\ UNCHANGED existing
  BY <1>1 DEF UpsertFeedback
<1>2. ASSUME NEW c \in Clients, CheckRecord(c)
      PROVE  FeedbackTypeOK' /\ UNCHANGED existing
  BY <1>2 DEF CheckRecord
<1>3. ASSUME NEW c \in Clients, OfferToCandidate(c)
      PROVE  FeedbackTypeOK' /\ UNCHANGED existing
  <2>1. fb[c] \in [pc : {"idle", "check", "offer", "insert"}, rec : Records, query : Queries]
    OBVIOUS
  <2>2. evalCases[fb[c].query] \in [state : {"none", "candidate", "approved"},
                                    expected : SUBSET Records]
    BY <2>1
  <2>3. evalCases' \in [Queries -> [state : {"none", "candidate", "approved"},
                                    expected : SUBSET Records]]
    BY <1>3, <2>1, <2>2 DEF OfferToCandidate
  <2> QED
    BY <1>3, <2>3 DEF OfferToCandidate
<1>4. ASSUME NEW c \in Clients, OfferNew(c)
      PROVE  FeedbackTypeOK' /\ UNCHANGED existing
  BY <1>4 DEF OfferNew
<1>5. ASSUME NEW c \in Clients, InsertCandidate(c)
      PROVE  FeedbackTypeOK' /\ UNCHANGED existing
  BY <1>5 DEF InsertCandidate
<1>6. ASSUME NEW q \in Queries, ApproveCase(q)
      PROVE  FeedbackTypeOK' /\ UNCHANGED existing
  BY <1>6 DEF ApproveCase
<1>7. ASSUME NEW c \in Clients, FeedbackStep(c)
      PROVE  FeedbackTypeOK' /\ UNCHANGED existing
  <2>1. CASE \E p \in Projects, r \in Records, q \in Queries, helped \in BOOLEAN :
                UpsertFeedback(c, p, r, q, helped)
    BY <1>1, <2>1
  <2> QED
    BY <1>2, <1>3, <1>4, <1>5, <1>7, <2>1 DEF FeedbackStep
<1> QED
  BY <1>6, <1>7, Zenon DEF FeedbackNext

-----------------------------------------------------------------------------
(* Types.                                                                  *)

LEMMA Bounds == /\ MaxRuns \in Nat /\ MaxEdits \in Nat
                /\ MaxWeek \in Nat \ {0}
OBVIOUS

\* Steps of the records keep the types.
LEMMA CorpusTyped ==
    ASSUME ArticlesTypeOK, Corpus
    PROVE  ArticlesTypeOK'
<1> USE DEF ArticlesTypeOK, FeedbackTypeOK
<1>1. ASSUME NEW r \in Records, NEW s \in {"draft", "published"},
             NEW flagged \in BOOLEAN, CreateRecord(r, s, flagged)
      PROVE  ArticlesTypeOK'
  BY <1>1 DEF CreateRecord, feedbackVars, batchVars
<1>2. ASSUME NEW r \in Records, PublishRecord(r)
      PROVE  ArticlesTypeOK'
  BY <1>2 DEF PublishRecord, feedbackVars, batchVars
<1>3. ASSUME NEW r \in Records, WithdrawRecord(r)
      PROVE  ArticlesTypeOK'
  BY <1>3 DEF WithdrawRecord, feedbackVars, batchVars
<1>4. ASSUME NEW r \in Records, FlagRecord(r)
      PROVE  ArticlesTypeOK'
  BY <1>4 DEF FlagRecord, feedbackVars, batchVars
<1>5. CASE WeekPasses
  BY <1>5, Bounds DEF WeekPasses, feedbackVars, batchVars
<1> QED
  BY <1>1, <1>2, <1>3, <1>4, <1>5 DEF Corpus

\* What a batch files is an article, and what was there is still the same.
LEMMA FilingTyped ==
    ASSUME ArticlesTypeOK, NEW b \in Batches, NEW p \in Proposals,
           batch[b].pc = "filing"
    PROVE  /\ ArticleId(p) \in Ids
           /\ DOMAIN WithCandidate(b, p) \subseteq Ids
           /\ \A a \in DOMAIN WithCandidate(b, p) : WithCandidate(b, p)[a] \in Docs
           /\ \A a \in DOMAIN articles : /\ a \in DOMAIN WithCandidate(b, p)
                                         /\ WithCandidate(b, p)[a] = articles[a]
<1>1. ArticleId(p) \in Ids
  BY DEF ArticleId, Proposals, Ids
<1>2. batch[b].run \in 1 .. runs /\ runs \in 0 .. MaxRuns
  BY Bounds DEF ArticlesTypeOK, BatchStates
<1>3. runs \in 1 .. MaxRuns
  BY <1>2, Bounds DEF ArticlesTypeOK
<1>4. Candidate(b, p) \in Docs
  BY <1>2, <1>3, Bounds DEF Candidate, Docs, Open, Proposals
<1> QED
  BY <1>1, <1>4 DEF WithCandidate, ArticlesTypeOK

\* Every step of a batch keeps the types.
LEMMA BatchTyped ==
    ASSUME ArticlesTypeOK, NEW b \in Batches, Batch(b)
    PROVE  ArticlesTypeOK'
<1> USE Bounds
<1>a. /\ FeedbackTypeOK
      /\ batch \in [Batches -> BatchStates]
      /\ runs \in 0 .. MaxRuns
      /\ OpenIds \subseteq Ids
  BY DEF ArticlesTypeOK, OpenIds
<1>b. ASSUME UNCHANGED <<feedbackVars, recordVars, editor>>,
             DOMAIN articles' \subseteq Ids,
             \A a \in DOMAIN articles' : articles'[a] \in Docs,
             runs' \in 0 .. MaxRuns, runs <= runs',
             batch' \in [Batches -> BatchStates],
             \A x \in Batches \ {b} : batch'[x] = batch[x],
             batch'[b].pc # "idle" => batch'[b].run \in 1 .. runs'
      PROVE  ArticlesTypeOK'
  <2>1. FeedbackTypeOK'
    BY <1>a, <1>b DEF FeedbackTypeOK, feedbackVars, recordVars
  <2>2. \A x \in Batches : batch'[x].pc # "idle" => batch'[x].run \in 1 .. runs'
    BY <1>b DEF ArticlesTypeOK
  <2> QED
    BY <1>b, <2>1, <2>2 DEF ArticlesTypeOK, recordVars
<1>1. CASE LoadMaterial(b)
  <2>1. Material \subseteq Records
    BY DEF Material
  <2>2. week \in 0 .. MaxWeek
    BY DEF ArticlesTypeOK
  <2>3. runs' \in 1 .. MaxRuns /\ runs <= runs'
    BY <1>1, <1>a DEF LoadMaterial
  <2>4. [NoBatch EXCEPT !.pc = "counting", !.run = runs', !.material = Material,
                        !.week = week] \in BatchStates
    <3>1. NoBatch \in BatchStates
      BY DEF NoBatch, BatchStates
    <3>2. ASSUME NEW n \in 0 .. MaxRuns, NEW m \in SUBSET Records, NEW w \in 0 .. MaxWeek
          PROVE  [NoBatch EXCEPT !.pc = "counting", !.run = n, !.material = m,
                                 !.week = w] \in BatchStates
      BY <3>1 DEF BatchStates
    <3>3. runs' \in 0 .. MaxRuns
      BY <2>3
    <3> QED
      BY <2>1, <2>2, <3>2, <3>3
  <2> QED
    BY <1>1, <1>a, <1>b, <2>3, <2>4 DEF LoadMaterial, ArticlesTypeOK, NoBatch
<1>2. CASE JudgeTriggers(b)
  <2>1. EvaluateArticleTriggers(batch[b].material, batch[b].week) \subseteq Proposals
    BY <1>a, TriggersTyped DEF BatchStates
  <2>2. batch'[b] \in BatchStates /\ batch'[b].run = batch[b].run
    BY ZenonT(40), <1>2, <1>a, <2>1 DEF JudgeTriggers, BatchStates
  <2> QED
    BY <1>2, <1>a, <1>b, <2>2 DEF JudgeTriggers, ArticlesTypeOK
<1>3. CASE LoadOpen(b)
  <2>1. batch'[b] \in BatchStates /\ batch'[b].run = batch[b].run
    BY <1>3, <1>a DEF LoadOpen, BatchStates
  <2> QED
    BY <1>3, <1>a, <1>b, <2>1 DEF LoadOpen, ArticlesTypeOK
<1>4. CASE FileProposal(b)
  <2>1. PICK p \in Ordered(batch[b].todo) :
           LET skip == SupersededBy(p, batch[b].open \cup batch[b].filed)
               rest == batch[b].todo \ {p}
           IN  /\ articles' = IF skip THEN articles ELSE WithCandidate(b, p)
               /\ batch' = [batch EXCEPT ![b].todo = rest,
                     ![b].pc = IF rest = {} THEN "done" ELSE "filing",
                     ![b].filed = @ \cup (DOMAIN articles' \ DOMAIN articles)]
    BY <1>4 DEF FileProposal
  <2>2. p \in Proposals
    BY <1>a DEF Ordered, BatchStates
  <2>3. DOMAIN articles' \subseteq Ids /\ \A a \in DOMAIN articles' : articles'[a] \in Docs
    BY <1>4, <2>1, <2>2, FilingTyped DEF FileProposal, ArticlesTypeOK
  <2>4. batch'[b] \in BatchStates /\ batch'[b].run = batch[b].run
    BY ZenonT(40), <1>a, <2>1, <2>3 DEF BatchStates
  <2>5. batch'[b].run \in 1 .. runs' /\ runs' = runs
    BY <1>4, <2>4 DEF FileProposal, ArticlesTypeOK
  <2>6. UNCHANGED <<feedbackVars, recordVars, editor>>
    BY <1>4 DEF FileProposal
  <2>7. batch' \in [Batches -> BatchStates] /\ \A x \in Batches \ {b} : batch'[x] = batch[x]
    BY <1>a, <2>1, <2>4
  <2> QED
    BY <1>a, <1>b, <2>3, <2>5, <2>6, <2>7
<1>5. CASE BatchDies(b)
  <2>1. NoBatch \in BatchStates
    BY DEF NoBatch, BatchStates
  <2> QED
    BY <1>5, <1>a, <1>b, <2>1 DEF BatchDies, ArticlesTypeOK, NoBatch
<1> QED
  BY <1>1, <1>2, <1>3, <1>4, <1>5 DEF Batch

\* So does every step of an article request.
LEMMA EditorTyped ==
    ASSUME ArticlesTypeOK, NEW e \in Editors, Editor(e)
    PROVE  ArticlesTypeOK'
<1> USE Bounds, NoEditTyped
<1>b. ASSUME UNCHANGED <<feedbackVars, recordVars, batchVars>>,
             DOMAIN articles' = DOMAIN articles,
             \A a \in DOMAIN articles' : articles'[a] \in Docs,
             editor' \in [Editors -> EditorStates]
      PROVE  ArticlesTypeOK'
  BY <1>b DEF ArticlesTypeOK, FeedbackTypeOK, feedbackVars, recordVars, batchVars
<1>1. ASSUME NEW a \in DOMAIN articles, NEW patch \in Patches, ReadForPatch(e, a, patch)
      PROVE  ArticlesTypeOK'
  <2>1. [NoEdit EXCEPT !.pc = "patching", !.id = a, !.patch = patch] \in EditorStates
    BY DEF EditorStates, ArticlesTypeOK
  <2> QED
    BY <1>1, <1>b, <2>1 DEF ReadForPatch, ArticlesTypeOK
<1>2. ASSUME NEW a \in DOMAIN articles, ReadForPublish(e, a)
      PROVE  ArticlesTypeOK'
  <2>1. [NoEdit EXCEPT !.pc = "publishing", !.id = a, !.at = week] \in EditorStates
    <3>1. week \in 0 .. MaxWeek /\ a \in Ids
      BY DEF ArticlesTypeOK
    <3> QED
      BY <3>1 DEF EditorStates
  <2> QED
    BY <1>2, <1>b, <2>1 DEF ReadForPublish, ArticlesTypeOK
<1>3. CASE WritePatch(e)
  <2> DEFINE a == editor[e].id  p == editor[e].patch
  <2>1. p \in [body : BOOLEAN, status : {"keep", "draft", "rejected"}]
    <3>1. editor[e] \in EditorStates
      BY DEF ArticlesTypeOK
    <3>2. p \in Patches \cup {NoPatch}
      BY <3>1 DEF EditorStates
    <3>3. Patches \subseteq [body : BOOLEAN, status : {"keep", "draft", "rejected"}]
      OBVIOUS
    <3>4. NoPatch \in [body : BOOLEAN, status : {"keep", "draft", "rejected"}]
      BY DEF NoPatch
    <3> QED
      BY <3>2, <3>3, <3>4
  <2>2. ASSUME a \in DOMAIN articles
        PROVE  Patched(articles[a], p) \in Docs
    <3>1. articles[a] \in Docs /\ articles[a].editHistory < MaxEdits
      BY <1>3, <2>2 DEF WritePatch, ArticlesTypeOK
    <3>2. /\ (articles[a].body \/ p.body) \in BOOLEAN
          /\ (IF p.status = "keep" THEN articles[a].status ELSE p.status)
                \in Open \cup {"published", "rejected"}
          /\ articles[a].editHistory + 1 \in 0 .. MaxEdits
      BY <2>1, <3>1 DEF Docs, Open
    <3> QED
      BY <3>1, <3>2 DEF Patched, Docs
  <2>3. /\ DOMAIN articles' = DOMAIN articles
        /\ \A x \in DOMAIN articles' : articles'[x] \in Docs
    BY <1>3, <2>2 DEF WritePatch, ArticlesTypeOK
  <2> QED
    BY <1>3, <1>b, <2>3 DEF WritePatch, ArticlesTypeOK
<1>4. CASE WritePublish(e)
  <2> DEFINE a == editor[e].id
  <2>1. editor[e].at \in 0 .. MaxWeek
    BY DEF ArticlesTypeOK, EditorStates
  <2>2. /\ DOMAIN articles' = DOMAIN articles
        /\ \A x \in DOMAIN articles' : articles'[x] \in Docs
    BY <1>4, <2>1 DEF WritePublish, ArticlesTypeOK, Docs
  <2> QED
    BY <1>4, <1>b, <2>2 DEF WritePublish, ArticlesTypeOK
<1> QED
  BY <1>1, <1>2, <1>3, <1>4 DEF Editor

-----------------------------------------------------------------------------
(* Safety.  A request that is about to write has read an article that is   *)
(* there; one that is about to publish has seen its text, which no other   *)
(* step takes away.  That makes PublishedIsWritten inductive.              *)

\* What a request under way knows of its article.
EditorsHoldArticles ==
    \A e \in Editors :
        /\ editor[e].pc # "idle" => editor[e].id \in DOMAIN articles
        /\ editor[e].pc = "publishing" =>
              articles[editor[e].id].body /\ editor[e].at > 0

IInv == ArticlesTypeOK /\ PublishedIsWritten /\ EditorsHoldArticles

\* Every step keeps the types.
LEMMA StepTyped ==
    ASSUME ArticlesTypeOK, [ArticlesNext]_articleVars
    PROVE  ArticlesTypeOK'
<1>1. CASE Corpus
  BY <1>1, CorpusTyped
<1>2. CASE GiveFeedback
  <2>1. FeedbackTypeOK' /\ UNCHANGED existing
    BY <1>2, FeedbackTyped DEF GiveFeedback, ArticlesTypeOK
  <2> QED
    BY <1>2, <2>1 DEF GiveFeedback, ArticlesTypeOK, batchVars
<1>3. ASSUME NEW b \in Batches, Batch(b)
      PROVE  ArticlesTypeOK'
  BY <1>3, BatchTyped
<1>4. ASSUME NEW e \in Editors, Editor(e)
      PROVE  ArticlesTypeOK'
  BY <1>4, EditorTyped
<1>5. CASE UNCHANGED articleVars
  BY <1>5 DEF articleVars, feedbackVars, recordVars, batchVars, ArticlesTypeOK, FeedbackTypeOK
<1> QED
  BY <1>1, <1>2, <1>3, <1>4, <1>5 DEF ArticlesNext

LEMMA InitHolds == ArticlesInit => IInv
<1> SUFFICES ASSUME ArticlesInit
             PROVE  IInv
  OBVIOUS
<1>1. FeedbackTypeOK
  BY NoFeedbackTyped DEF ArticlesInit, FeedbackInit, FeedbackTypeOK
<1>2. NoBatch \in BatchStates /\ NoBatch.pc = "idle"
  BY Bounds DEF NoBatch, BatchStates
<1>3. NoEdit \in EditorStates /\ NoEdit.pc = "idle"
  BY NoEditTyped DEF NoEdit
<1>4. DOMAIN articles = {}
  BY DEF ArticlesInit
<1>5. ArticlesTypeOK
  BY <1>1, <1>2, <1>3, <1>4, Bounds DEF ArticlesInit, ArticlesTypeOK
<1>6. EditorsHoldArticles
  BY <1>3 DEF ArticlesInit, EditorsHoldArticles
<1> QED
  BY <1>4, <1>5, <1>6 DEF IInv, PublishedIsWritten

\* Batches leave every article alone that is there.
LEMMA BatchKeepsArticles ==
    ASSUME ArticlesTypeOK, NEW b \in Batches, Batch(b)
    PROVE  /\ UNCHANGED editor
           /\ \A a \in DOMAIN articles : a \in DOMAIN articles' /\ articles'[a] = articles[a]
           /\ \A a \in DOMAIN articles' \ DOMAIN articles : articles'[a].status = "candidate"
<1>1. CASE FileProposal(b)
  <2>1. PICK p \in Ordered(batch[b].todo) :
           articles' = articles \/ articles' = WithCandidate(b, p)
    BY <1>1 DEF FileProposal
  <2>2. UNCHANGED editor
    BY <1>1 DEF FileProposal
  <2> QED
    BY <2>1, <2>2 DEF WithCandidate, Candidate
<1>2. CASE LoadMaterial(b) \/ JudgeTriggers(b) \/ LoadOpen(b) \/ BatchDies(b)
  BY <1>2 DEF LoadMaterial, JudgeTriggers, LoadOpen, BatchDies
<1> QED
  BY <1>1, <1>2 DEF Batch

\* A step of an article request changes at most the article of the request,
\* and only when it is open; it publishes nothing without a text, and takes
\* no text away.
LEMMA EditorKeepsArticles ==
    ASSUME IInv, NEW e \in Editors, Editor(e)
    PROVE  /\ DOMAIN articles' = DOMAIN articles
           /\ \A a \in DOMAIN articles :
                 /\ articles[a].status \notin Open => articles'[a] = articles[a]
                 /\ articles[a].body => articles'[a].body
                 /\ articles'[a].status = "published" =>
                       articles'[a].body /\ articles'[a].publishedAt > 0
<1> USE DEF IInv
<1>0. /\ \A a \in DOMAIN articles : articles[a] \in Docs
      /\ editor[e] \in EditorStates
  BY DEF ArticlesTypeOK
<1>1. CASE UNCHANGED articles
  BY <1>1, <1>0 DEF PublishedIsWritten, Docs
<1>2. CASE WritePatch(e)
  <2> DEFINE a == editor[e].id  p == editor[e].patch
  <2>1. a \in DOMAIN articles
    BY <1>2 DEF WritePatch, EditorsHoldArticles
  <2>2. p.status # "published"
    <3>1. p \in Patches \cup {NoPatch}
      BY <1>0 DEF EditorStates
    <3>2. Patches \subseteq [body : BOOLEAN, status : {"keep", "draft", "rejected"}]
      OBVIOUS
    <3> QED
      BY <3>1, <3>2 DEF NoPatch
  <2>3. CASE Editable(a)
    <3>1. articles' = [articles EXCEPT ![a] = Patched(articles[a], p)]
      BY <1>2, <2>3 DEF WritePatch
    <3>2. articles[a].status \in Open
      BY <2>3 DEF Editable
    <3>3. /\ articles[a].body => Patched(articles[a], p).body
          /\ Patched(articles[a], p).status # "published"
      BY <1>0, <2>1, <2>2, <3>2 DEF Patched, Docs, Open
    <3> QED
      BY <2>1, <3>1, <3>2, <3>3 DEF PublishedIsWritten
  <2>4. CASE ~Editable(a)
    BY <1>1, <1>2, <2>4 DEF WritePatch
  <2> QED
    BY <2>3, <2>4
<1>3. CASE WritePublish(e)
  <2> DEFINE a == editor[e].id
  <2>1. a \in DOMAIN articles /\ articles[a].body /\ editor[e].at > 0
    BY <1>3 DEF WritePublish, EditorsHoldArticles
  <2>2. CASE articles[a].status = "draft"
    <3>1. articles' = [articles EXCEPT ![a].status = "published",
                                       ![a].publishedAt = editor[e].at]
      BY <1>3, <2>2 DEF WritePublish
    <3>2. /\ articles'[a].body
          /\ articles'[a].publishedAt > 0
          /\ articles[a].status \in Open
      BY <1>0, <2>1, <2>2, <3>1 DEF Docs, Open
    <3> QED
      BY <2>1, <3>1, <3>2 DEF PublishedIsWritten
  <2>3. CASE articles[a].status # "draft"
    BY <1>1, <1>3, <2>3 DEF WritePublish
  <2> QED
    BY <2>2, <2>3
<1>4. ASSUME NEW a \in DOMAIN articles, NEW patch \in Patches,
             ReadForPatch(e, a, patch) \/ ReadForPublish(e, a)
      PROVE  UNCHANGED articles
  BY <1>4 DEF ReadForPatch, ReadForPublish
<1>5. ASSUME NEW a \in DOMAIN articles, ReadForPublish(e, a)
      PROVE  UNCHANGED articles
  BY <1>5 DEF ReadForPublish
<1> QED
  BY <1>1, <1>2, <1>3, <1>4, <1>5 DEF Editor

\* A request that starts has its article before it.
LEMMA RequestHoldsArticle ==
    ASSUME IInv, NEW e \in Editors, Editor(e)
    PROVE  /\ \A x \in Editors \ {e} : editor'[x] = editor[x]
           /\ editor'[e].pc # "idle" => editor'[e].id \in DOMAIN articles
           /\ editor'[e].pc = "publishing" =>
                 articles[editor'[e].id].body /\ editor'[e].at > 0
<1> USE DEF IInv, ArticlesTypeOK
<1>1. ASSUME NEW a \in DOMAIN articles, NEW patch \in Patches, ReadForPatch(e, a, patch)
      PROVE  /\ \A x \in Editors \ {e} : editor'[x] = editor[x]
             /\ editor'[e].id = a /\ editor'[e].pc = "patching"
  BY <1>1 DEF ReadForPatch, NoEdit
<1>2. ASSUME NEW a \in DOMAIN articles, ReadForPublish(e, a)
      PROVE  /\ \A x \in Editors \ {e} : editor'[x] = editor[x]
             /\ editor'[e].id = a /\ editor'[e].at > 0 /\ articles[a].body
  BY <1>2 DEF ReadForPublish, NoEdit, Publishable
<1>3. CASE WritePatch(e) \/ WritePublish(e)
  BY <1>3 DEF WritePatch, WritePublish, NoEdit
<1> QED
  BY <1>1, <1>2, <1>3 DEF Editor

LEMMA StepHolds ==
    ASSUME IInv, [ArticlesNext]_articleVars
    PROVE  IInv'
<1>1. ArticlesTypeOK'
  BY StepTyped DEF IInv
<1>2. CASE UNCHANGED <<articles, editor>>
  BY <1>1, <1>2 DEF IInv, PublishedIsWritten, EditorsHoldArticles
<1>3. ASSUME NEW b \in Batches, Batch(b)
      PROVE  PublishedIsWritten' /\ EditorsHoldArticles'
  BY <1>3, BatchKeepsArticles DEF IInv, PublishedIsWritten, EditorsHoldArticles
<1>4. ASSUME NEW e \in Editors, Editor(e)
      PROVE  PublishedIsWritten' /\ EditorsHoldArticles'
  <2>1. PublishedIsWritten'
    BY <1>4, EditorKeepsArticles DEF PublishedIsWritten
  <2>2. ASSUME NEW x \in Editors
        PROVE  /\ editor'[x].pc # "idle" => editor'[x].id \in DOMAIN articles
               /\ editor'[x].pc = "publishing" =>
                     articles[editor'[x].id].body /\ editor'[x].at > 0
    BY <1>4, RequestHoldsArticle DEF IInv, EditorsHoldArticles
  <2>3. EditorsHoldArticles'
    BY <1>4, <2>2, EditorKeepsArticles DEF EditorsHoldArticles
  <2> QED
    BY <2>1, <2>3
<1>5. CASE Corpus
  <2>1. UNCHANGED <<articles, editor>>
    BY <1>5 DEF Corpus, CreateRecord, PublishRecord, WithdrawRecord, FlagRecord, WeekPasses
  <2> QED
    BY <1>2, <2>1
<1>6. CASE GiveFeedback
  BY <1>2, <1>6 DEF GiveFeedback
<1>7. CASE UNCHANGED articleVars
  BY <1>2, <1>7 DEF articleVars
<1> QED
  BY <1>1, <1>3, <1>4, <1>5, <1>6, <1>7 DEF ArticlesNext, IInv

\* Articles, batches and requests keep their types in every state.
THEOREM ArticlesTypeCorrect == ArticlesSpec => []ArticlesTypeOK
<1>1. IInv => ArticlesTypeOK
  BY DEF IInv
<1> QED
  BY InitHolds, StepHolds, <1>1, PTL DEF ArticlesSpec

\* contracts/article.ts:96-113: nothing is published that nobody has written,
\* or without the time of its publication.
THEOREM OnlyWrittenIsPublished == ArticlesSpec => []PublishedIsWritten
<1>1. IInv => PublishedIsWritten
  BY DEF IInv
<1> QED
  BY InitHolds, StepHolds, <1>1, PTL DEF ArticlesSpec

\* What is published or rejected stays as it is, whatever requests were on
\* their way and however many batches overlap.
THEOREM DecisionsStand == ArticlesSpec => DecidedArticlesStay
<1>1. ASSUME IInv, [ArticlesNext]_articleVars,
             NEW a \in DOMAIN articles, articles[a].status \notin Open
      PROVE  a \in DOMAIN articles' /\ articles'[a] = articles[a]
  <2>1. ASSUME NEW b \in Batches, Batch(b)
        PROVE  a \in DOMAIN articles' /\ articles'[a] = articles[a]
    BY <1>1, <2>1, BatchKeepsArticles DEF IInv
  <2>2. ASSUME NEW e \in Editors, Editor(e)
        PROVE  a \in DOMAIN articles' /\ articles'[a] = articles[a]
    BY <1>1, <2>2, EditorKeepsArticles
  <2>3. CASE Corpus \/ GiveFeedback \/ UNCHANGED articleVars
    BY <1>1, <2>3 DEF Corpus, CreateRecord, PublishRecord, WithdrawRecord, FlagRecord,
                      WeekPasses, GiveFeedback, articleVars
  <2> QED
    BY <1>1, <2>1, <2>2, <2>3 DEF ArticlesNext
<1>2. IInv /\ [ArticlesNext]_articleVars =>
         [\A a \in DOMAIN articles : articles[a].status \notin Open =>
             a \in DOMAIN articles' /\ articles'[a] = articles[a]]_articleVars
  BY <1>1
<1> QED
  BY InitHolds, StepHolds, <1>2, PTL DEF ArticlesSpec, DecidedArticlesStay

-----------------------------------------------------------------------------
(* The candidate queue.  A run that has read the open articles knows every *)
(* one that was filed before the run began and is still open: articles are *)
(* never opened again.                                                     *)

AgesKnown ==
    \A a \in DOMAIN articles : articles[a].createdAt <= runs /\ articles[a].filedAt <= runs

OpenSeen ==
    \A b \in Batches : batch[b].pc = "filing" =>
        \A a \in OpenIds : articles[a].filedAt < batch[b].run => a \in batch[b].open

QueueInv == IInv /\ AgesKnown /\ OpenSeen /\ NoPileUp

\* Requests open no article and do not change its ages.
LEMMA EditorKeepsAges ==
    ASSUME IInv, NEW e \in Editors, Editor(e)
    PROVE  /\ UNCHANGED <<batch, runs>>
           /\ DOMAIN articles' = DOMAIN articles
           /\ \A a \in DOMAIN articles : /\ articles'[a].createdAt = articles[a].createdAt
                                         /\ articles'[a].filedAt = articles[a].filedAt
           /\ OpenIds' \subseteq OpenIds
<1>0. /\ \A a \in DOMAIN articles : articles[a] \in Docs
      /\ DOMAIN articles' = DOMAIN articles
  BY EditorKeepsArticles DEF IInv, ArticlesTypeOK
<1>1. OpenIds' \subseteq OpenIds
  BY <1>0, EditorKeepsArticles DEF OpenIds
<1>2. CASE WritePatch(e)
  BY <1>0, <1>1, <1>2 DEF WritePatch, Patched, Docs, batchVars
<1>3. CASE WritePublish(e)
  BY <1>0, <1>1, <1>3 DEF WritePublish, Docs, batchVars
<1>4. ASSUME NEW a \in DOMAIN articles, NEW patch \in Patches, ReadForPatch(e, a, patch)
      PROVE  UNCHANGED <<articles, batch, runs>>
  BY <1>4 DEF ReadForPatch, batchVars
<1>5. ASSUME NEW a \in DOMAIN articles, ReadForPublish(e, a)
      PROVE  UNCHANGED <<articles, batch, runs>>
  BY <1>5 DEF ReadForPublish, batchVars
<1> QED
  BY <1>0, <1>1, <1>2, <1>3, <1>4, <1>5 DEF Editor

\* A filed proposal is no wider than an article the run has seen open.
LEMMA FilingKeepsQueue ==
    ASSUME QueueInv, NEW b \in Batches, FileProposal(b)
    PROVE  AgesKnown' /\ OpenSeen' /\ NoPileUp'
<1> USE DEF QueueInv, IInv
<1>0. /\ batch \in [Batches -> BatchStates]
      /\ runs \in 0 .. MaxRuns
      /\ \A x \in Batches : batch[x].pc # "idle" => batch[x].run \in 1 .. runs
      /\ \A a \in DOMAIN articles : articles[a] \in Docs
      /\ batch[b].pc = "filing"
  BY DEF ArticlesTypeOK, FileProposal
<1>1. PICK p \in Ordered(batch[b].todo) :
         LET skip == SupersededBy(p, batch[b].open \cup batch[b].filed)
             rest == batch[b].todo \ {p}
         IN  /\ articles' = IF skip THEN articles ELSE WithCandidate(b, p)
             /\ batch' = [batch EXCEPT ![b].todo = rest,
                   ![b].pc = IF rest = {} THEN "done" ELSE "filing",
                   ![b].filed = @ \cup (DOMAIN articles' \ DOMAIN articles)]
  BY DEF FileProposal
<1>2. /\ runs' = runs
      /\ \A x \in Batches : /\ batch'[x].run = batch[x].run
                            /\ batch'[x].open = batch[x].open
                            /\ batch'[x].pc = "filing" => batch[x].pc = "filing"
  <2>1. runs' = runs
    BY DEF FileProposal
  <2>2. ASSUME NEW x \in Batches
        PROVE  /\ batch'[x].run = batch[x].run
               /\ batch'[x].open = batch[x].open
               /\ batch'[x].pc = "filing" => batch[x].pc = "filing"
    <3>1. batch[x] \in BatchStates
      BY <1>0
    <3>2. CASE x = b
      BY <1>0, <1>1, <3>1, <3>2 DEF BatchStates
    <3>3. CASE x # b
      BY <1>0, <1>1, <3>3
    <3> QED
      BY <3>2, <3>3
  <2> QED
    BY <2>1, <2>2
<1>3. CASE articles' = articles
  BY <1>2, <1>3 DEF AgesKnown, OpenSeen, NoPileUp, OpenIds
<1>4. CASE /\ ~SupersededBy(p, batch[b].open \cup batch[b].filed)
           /\ articles' = WithCandidate(b, p)
           /\ ArticleId(p) \notin DOMAIN articles
  <2> DEFINE new == ArticleId(p)
  <2>1. /\ DOMAIN articles' = DOMAIN articles \cup {new}
        /\ \A a \in DOMAIN articles : articles'[a] = articles[a]
        /\ articles'[new] = Candidate(b, p)
    BY <1>4 DEF WithCandidate
  <2>2. /\ articles'[new].createdAt = batch[b].run
        /\ articles'[new].filedAt = runs
        /\ batch[b].run <= runs
    BY <1>0, <2>1 DEF Candidate
  <2>3. AgesKnown'
    BY <1>2, <2>1, <2>2, <1>0 DEF AgesKnown
  <2>4. OpenIds' \subseteq OpenIds \cup {new}
    BY <2>1 DEF OpenIds
  <2>5. OpenSeen'
    BY <1>0, <1>2, <2>1, <2>2, <2>4 DEF OpenSeen, OpenIds
  <2>6. ASSUME NEW a \in OpenIds, a.kind = new.kind, a # new, a.sources \subseteq new.sources
        PROVE  batch[b].run <= articles[a].filedAt
    <3>1. a \notin batch[b].open
      BY <1>4, <2>6 DEF SupersededBy, ArticleId
    <3>2. ~(articles[a].filedAt < batch[b].run)
      BY <1>0, <3>1 DEF OpenSeen
    <3>3. articles[a] \in Docs
      BY <1>0 DEF OpenIds
    <3> QED
      BY <1>0, <3>2, <3>3 DEF Docs
  <2>7. NoPileUp'
    <3> SUFFICES ASSUME NEW a \in OpenIds', NEW c \in OpenIds',
                        a.kind = c.kind, a # c, a.sources \subseteq c.sources
                 PROVE  articles'[c].createdAt <= articles'[a].filedAt
      BY DEF NoPileUp
    <3>1. CASE a # new /\ c # new
      BY <2>1, <2>4, <3>1 DEF NoPileUp, OpenIds
    <3>2. CASE c = new
      BY <2>1, <2>2, <2>4, <2>6, <3>2 DEF OpenIds
    <3>3. CASE a = new
      BY <2>1, <2>2, <2>4, <3>3 DEF AgesKnown, OpenIds
    <3> QED
      BY <3>1, <3>2, <3>3
  <2> QED
    BY <2>3, <2>5, <2>7
<1>5. CASE articles' = WithCandidate(b, p) /\ ArticleId(p) \in DOMAIN articles
  <2>1. DOMAIN articles' = DOMAIN articles /\ \A a \in DOMAIN articles : articles'[a] = articles[a]
    BY <1>5 DEF WithCandidate
  <2> QED
    BY <1>2, <2>1 DEF AgesKnown, OpenSeen, NoPileUp, OpenIds
<1> QED
  BY <1>1, <1>3, <1>4, <1>5

LEMMA StepKeepsQueue ==
    ASSUME QueueInv, [ArticlesNext]_articleVars
    PROVE  QueueInv'
<1>1. IInv'
  BY StepHolds DEF QueueInv
<1>2. CASE UNCHANGED <<articles, batch, runs>>
  BY <1>1, <1>2 DEF QueueInv, AgesKnown, OpenSeen, NoPileUp, OpenIds
<1>3. ASSUME NEW b \in Batches, Batch(b)
      PROVE  AgesKnown' /\ OpenSeen' /\ NoPileUp'
  <2>0. /\ batch \in [Batches -> BatchStates]
        /\ runs \in 0 .. MaxRuns
        /\ \A a \in DOMAIN articles : articles[a] \in Docs
    BY DEF QueueInv, IInv, ArticlesTypeOK
  <2>1. CASE FileProposal(b)
    BY <2>1, FilingKeepsQueue
  <2>2. CASE LoadMaterial(b)
    <3>1. /\ UNCHANGED articles
          /\ runs' = runs + 1
          /\ batch'[b].pc # "filing"
          /\ \A x \in Batches \ {b} : batch'[x] = batch[x]
      BY <2>0, <2>2 DEF LoadMaterial, NoBatch
    <3> QED
      BY <2>0, <3>1 DEF QueueInv, AgesKnown, OpenSeen, NoPileUp, OpenIds, Docs
  <2>3. CASE LoadOpen(b)
    <3>1. /\ UNCHANGED <<articles, runs>>
          /\ batch'[b].open = OpenIds
          /\ \A x \in Batches \ {b} : batch'[x] = batch[x]
      BY <2>0, <2>3 DEF LoadOpen, BatchStates
    <3> QED
      BY <3>1 DEF QueueInv, AgesKnown, OpenSeen, NoPileUp, OpenIds
  <2>4. CASE JudgeTriggers(b) \/ BatchDies(b)
    <3>1. /\ UNCHANGED <<articles, runs>>
          /\ batch'[b].pc # "filing"
          /\ \A x \in Batches \ {b} : batch'[x] = batch[x]
      BY <2>0, <2>4 DEF JudgeTriggers, BatchDies, NoBatch, BatchStates
    <3> QED
      BY <3>1 DEF QueueInv, AgesKnown, OpenSeen, NoPileUp, OpenIds
  <2> QED
    BY <1>3, <2>1, <2>2, <2>3, <2>4 DEF Batch
<1>4. ASSUME NEW e \in Editors, Editor(e)
      PROVE  AgesKnown' /\ OpenSeen' /\ NoPileUp'
  BY <1>4, EditorKeepsAges DEF QueueInv, AgesKnown, OpenSeen, NoPileUp, OpenIds
<1>5. CASE Corpus
  <2>1. UNCHANGED <<articles, batch, runs>>
    BY <1>5 DEF Corpus, CreateRecord, PublishRecord, WithdrawRecord, FlagRecord, WeekPasses,
                batchVars
  <2> QED
    BY <1>2, <2>1
<1>6. CASE GiveFeedback
  BY <1>2, <1>6 DEF GiveFeedback, batchVars
<1>7. CASE UNCHANGED articleVars
  BY <1>2, <1>7 DEF articleVars, batchVars
<1> QED
  BY <1>1, <1>3, <1>4, <1>5, <1>6, <1>7 DEF ArticlesNext, QueueInv

\* article-batch.ts:222-227: however many batches overlap and however records
\* come and go, a run never files a wider article beside a narrower one of its
\* kind that was filed before the run began and is still open.
THEOREM QueueDoesNotPileUp == ArticlesSpec => []NoPileUp
<1>1. ArticlesInit => QueueInv
  <2>1. ArticlesInit => DOMAIN articles = {} /\ \A b \in Batches : batch[b].pc # "filing"
    BY DEF ArticlesInit, NoBatch
  <2> QED
    BY <2>1, InitHolds DEF QueueInv, AgesKnown, OpenSeen, NoPileUp, OpenIds
<1>2. QueueInv => NoPileUp
  BY DEF QueueInv
<1> QED
  BY StepKeepsQueue, <1>1, <1>2, PTL DEF ArticlesSpec

-----------------------------------------------------------------------------
(* One run.  The widest proposals go first, so what a run has filed is     *)
(* never narrower than what it has still to file.                          *)

\* A run answers for proposal p: there is an article of that id, or one that
\* was open before the run makes it superfluous.
Answered(b, p) == ArticleId(p) \in DOMAIN articles \/ SupersededBy(p, batch[b].open)

WidestFirst(b) ==
    /\ batch[b].pc \in {"counting", "judging"} => batch[b].filed = {}
    /\ batch[b].pc = "judging" => batch[b].proposed = batch[b].todo
    /\ batch[b].pc = "done" => batch[b].todo = {}
    /\ batch[b].pc \in {"filing", "done"} =>
          /\ \A p \in batch[b].proposed \ batch[b].todo : Answered(b, p)
          /\ \A a \in batch[b].filed, q \in batch[b].todo :
                Cardinality(q.sources) <= Cardinality(a.sources)

RunsInv == IInv /\ \A b \in Batches : WidestFirst(b)

\* Of two proposals of one kind the one filed first supersedes the other only
\* when they are the same article.
LEMMA WiderNeverSupersedes ==
    ASSUME IsFiniteSet(Records), NEW a \in Ids, NEW p \in Proposals,
           a.kind = p.kind, a.sources \subseteq p.sources,
           Cardinality(p.sources) <= Cardinality(a.sources)
    PROVE  a = ArticleId(p)
<1>1. p.sources \in SUBSET Records /\ a = [kind |-> a.kind, sources |-> a.sources]
  BY DEF Proposals, Ids
<1>2. IsFiniteSet(p.sources)
  BY <1>1, FS_Subset
<1>3. /\ IsFiniteSet(a.sources) /\ Cardinality(a.sources) <= Cardinality(p.sources)
      /\ Cardinality(p.sources) = Cardinality(a.sources) => p.sources = a.sources
  BY <1>2, FS_Subset
<1>4. Cardinality(p.sources) \in Nat /\ Cardinality(a.sources) \in Nat
  BY <1>2, <1>3, FS_CardinalityType
<1>5. p.sources = a.sources
  BY <1>3, <1>4
<1> QED
  BY <1>1, <1>5 DEF ArticleId

LEMMA FilingKeepsRuns ==
    ASSUME IsFiniteSet(Records), RunsInv, NEW b \in Batches, FileProposal(b),
           NEW x \in Batches
    PROVE  WidestFirst(x)'
<1> USE DEF RunsInv, IInv
<1>0. /\ batch \in [Batches -> BatchStates]
      /\ batch[b].pc = "filing"
      /\ batch[b].todo \subseteq Proposals /\ batch[b].filed \subseteq Ids
  BY DEF ArticlesTypeOK, FileProposal, BatchStates
<1>1. PICK p \in Ordered(batch[b].todo) :
         LET skip == SupersededBy(p, batch[b].open \cup batch[b].filed)
             rest == batch[b].todo \ {p}
         IN  /\ articles' = IF skip THEN articles ELSE WithCandidate(b, p)
             /\ batch' = [batch EXCEPT ![b].todo = rest,
                   ![b].pc = IF rest = {} THEN "done" ELSE "filing",
                   ![b].filed = @ \cup (DOMAIN articles' \ DOMAIN articles)]
  BY DEF FileProposal
<1>2. p \in batch[b].todo /\ p \in Proposals
      /\ \A q \in batch[b].todo : Cardinality(q.sources) <= Cardinality(p.sources)
  BY <1>0, <1>1 DEF Ordered
<1>3. DOMAIN articles \subseteq DOMAIN articles'
      /\ DOMAIN articles' \subseteq DOMAIN articles \cup {ArticleId(p)}
  BY <1>1 DEF WithCandidate
<1>4. CASE x # b
  BY <1>0, <1>1, <1>3, <1>4 DEF WidestFirst, Answered
<1>5. CASE x = b
  <2>1. /\ batch'[b].todo = batch[b].todo \ {p} /\ batch'[b].proposed = batch[b].proposed
        /\ batch'[b].open = batch[b].open
        /\ batch'[b].filed \subseteq batch[b].filed \cup {ArticleId(p)}
        /\ batch'[b].pc = IF batch[b].todo \ {p} = {} THEN "done" ELSE "filing"
    BY <1>0, <1>1, <1>3 DEF BatchStates
  <2>2. Answered(b, p)'
    <3>1. CASE ~SupersededBy(p, batch[b].open \cup batch[b].filed)
      BY <1>1, <3>1 DEF WithCandidate, Answered
    <3>2. CASE SupersededBy(p, batch[b].open \cup batch[b].filed)
      <4>1. PICK a \in batch[b].open \cup batch[b].filed :
               a.kind = p.kind /\ a # ArticleId(p) /\ a.sources \subseteq p.sources
        BY <3>2 DEF SupersededBy
      <4>2. a \notin batch[b].filed
        <5> SUFFICES ASSUME a \in batch[b].filed PROVE FALSE
          OBVIOUS
        <5>1. Cardinality(p.sources) <= Cardinality(a.sources)
          BY <1>0, <1>2 DEF WidestFirst
        <5> QED
          BY <1>0, <1>2, <4>1, <5>1, WiderNeverSupersedes
      <4> QED
        BY <2>1, <4>1, <4>2 DEF Answered, SupersededBy
    <3> QED
      BY <3>1, <3>2
  <2>3. ASSUME NEW q \in batch[b].proposed \ batch[b].todo PROVE Answered(b, q)'
    BY <1>0, <1>3, <2>1, <2>3 DEF WidestFirst, Answered
  <2>4. ASSUME NEW a \in batch'[b].filed, NEW q \in batch'[b].todo
        PROVE  Cardinality(q.sources) <= Cardinality(a.sources)
    <3>1. q \in batch[b].todo
      BY <2>1
    <3>2. CASE a = ArticleId(p)
      BY <1>2, <3>1, <3>2 DEF ArticleId
    <3>3. CASE a \in batch[b].filed
      BY <1>0, <3>1, <3>3 DEF WidestFirst
    <3> QED
      BY <2>1, <3>2, <3>3
  <2>5. \A q \in batch'[b].proposed \ batch'[b].todo : Answered(b, q)'
    BY <2>1, <2>2, <2>3
  <2> QED
    BY <1>5, <2>1, <2>4, <2>5 DEF WidestFirst, Answered
<1> QED
  BY <1>4, <1>5

LEMMA StepKeepsRuns ==
    ASSUME IsFiniteSet(Records), RunsInv, [ArticlesNext]_articleVars
    PROVE  RunsInv'
<1>1. IInv'
  BY StepHolds DEF RunsInv
<1>2. ASSUME DOMAIN articles' = DOMAIN articles, UNCHANGED batch,
             NEW x \in Batches
      PROVE  WidestFirst(x)'
  BY <1>2 DEF RunsInv, WidestFirst, Answered
<1>3. ASSUME NEW b \in Batches, Batch(b), NEW x \in Batches
      PROVE  WidestFirst(x)'
  <2>0. batch \in [Batches -> BatchStates]
    BY DEF RunsInv, IInv, ArticlesTypeOK
  <2>1. CASE FileProposal(b)
    BY <2>1, FilingKeepsRuns
  <2>2. ASSUME UNCHANGED articles, \A y \in Batches \ {b} : batch'[y] = batch[y],
               x = b => WidestFirst(x)'
        PROVE  WidestFirst(x)'
    BY <2>2 DEF RunsInv, WidestFirst, Answered
  <2>3. CASE LoadMaterial(b)
    BY <2>0, <2>2, <2>3 DEF LoadMaterial, NoBatch, WidestFirst
  <2>4. CASE JudgeTriggers(b)
    BY <2>0, <2>2, <2>4 DEF JudgeTriggers, BatchStates, RunsInv, WidestFirst
  <2>5. CASE LoadOpen(b)
    BY <2>0, <2>2, <2>5 DEF LoadOpen, BatchStates, RunsInv, WidestFirst
  <2>6. CASE BatchDies(b)
    BY <2>0, <2>2, <2>6 DEF BatchDies, NoBatch, WidestFirst
  <2> QED
    BY <1>3, <2>1, <2>3, <2>4, <2>5, <2>6 DEF Batch
<1>4. ASSUME NEW e \in Editors, Editor(e), NEW x \in Batches
      PROVE  WidestFirst(x)'
  BY <1>2, <1>4, EditorKeepsAges DEF RunsInv
<1>5. ASSUME Corpus \/ GiveFeedback \/ UNCHANGED articleVars
      PROVE  UNCHANGED <<articles, batch>>
  BY <1>5 DEF Corpus, CreateRecord, PublishRecord, WithdrawRecord, FlagRecord, WeekPasses,
              GiveFeedback, articleVars, batchVars
<1> QED
  BY <1>1, <1>2, <1>3, <1>4, <1>5 DEF ArticlesNext, RunsInv

\* article-batch.ts:66-72: a run that has ended has filed every proposal it
\* made, or passed it over for an article that was open before the run; it
\* never passes one over for an article it filed itself, since the widest go
\* first.  The corpus is finite; nothing else is assumed of it.
THEOREM RunsAnswerProposals ==
    ASSUME IsFiniteSet(Records) PROVE ArticlesSpec => []WideReportsSurvive
<1>1. ArticlesInit => RunsInv
  <2>1. ArticlesInit => \A b \in Batches : WidestFirst(b)
    BY DEF ArticlesInit, NoBatch, WidestFirst
  <2> QED
    BY <2>1, InitHolds DEF RunsInv
<1>2. RunsInv => WideReportsSurvive
  BY DEF RunsInv, WidestFirst, WideReportsSurvive, Answered
<1> QED
  BY StepKeepsRuns, <1>1, <1>2, PTL DEF ArticlesSpec

-----------------------------------------------------------------------------
(* Feedback.                                                               *)

LEMMA ApprovedStay ==
    ASSUME FeedbackTypeOK, FeedbackNext, NEW q \in Queries, evalCases[q].state = "approved"
    PROVE  evalCases'[q] = evalCases[q]
<1> USE DEF FeedbackTypeOK
<1>1. ASSUME NEW c \in Clients, OfferToCandidate(c)
      PROVE  evalCases'[q] = evalCases[q]
  BY <1>1 DEF OfferToCandidate, Mergeable
<1>2. ASSUME NEW c \in Clients, InsertCandidate(c)
      PROVE  evalCases'[q] = evalCases[q]
  BY <1>2 DEF InsertCandidate
<1>3. ASSUME NEW p \in Queries, ApproveCase(p)
      PROVE  evalCases'[q] = evalCases[q]
  BY <1>3 DEF ApproveCase
<1>4. CASE UNCHANGED evalCases
  BY <1>4
<1> QED
  BY <1>1, <1>2, <1>3, <1>4
  DEF FeedbackNext, FeedbackStep, UpsertFeedback, CheckRecord, OfferNew

\* feedback.ts:156-160: however many judgements on one query are under way
\* between the lookup of its case and the write, none touches an approved case.
THEOREM ApprovalsStand == ArticlesSpec => ApprovedCasesStay
<1>1. IInv /\ [ArticlesNext]_articleVars =>
         [\A q \in Queries : evalCases[q].state = "approved" =>
             evalCases'[q] = evalCases[q]]_<<existing, feedbackVars>>
  <2> SUFFICES ASSUME IInv, [ArticlesNext]_articleVars, NEW q \in Queries,
                      evalCases[q].state = "approved"
               PROVE  evalCases'[q] = evalCases[q]
    OBVIOUS
  <2>1. CASE GiveFeedback
    BY <2>1, ApprovedStay DEF GiveFeedback, IInv, ArticlesTypeOK
  <2>2. CASE UNCHANGED feedbackVars
    BY <2>2 DEF feedbackVars
  <2>3. CASE Corpus
    BY <2>2, <2>3 DEF Corpus, CreateRecord, PublishRecord, WithdrawRecord, FlagRecord, WeekPasses
  <2>4. ASSUME NEW b \in Batches, Batch(b) PROVE UNCHANGED feedbackVars
    BY <2>4 DEF Batch, LoadMaterial, JudgeTriggers, LoadOpen, FileProposal, BatchDies
  <2>5. ASSUME NEW e \in Editors, Editor(e) PROVE UNCHANGED feedbackVars
    BY <2>5 DEF Editor, ReadForPatch, ReadForPublish, WritePatch, WritePublish
  <2>6. CASE UNCHANGED articleVars
    BY <2>2, <2>6 DEF articleVars
  <2> QED
    BY <2>1, <2>2, <2>3, <2>4, <2>5, <2>6 DEF ArticlesNext
<1> QED
  BY InitHolds, StepHolds, <1>1, PTL DEF ArticlesSpec, ApprovedCasesStay
=============================================================================
