-------------------------- MODULE SnapshotsProofs --------------------------
(***************************************************************************)
(* What holds of the database under its reports (DiscoveryReportsProofs)   *)
(* holds while participants are added and removed and snapshots are taken, *)
(* and a snapshot shows it.                                                *)
(***************************************************************************)
EXTENDS Snapshots, DiscoveryReportsProofs, SnapshotCompareProofs

\* The process reports in order: addServer and the like, removeParticipant and
\* takeSnapshot are reports, or none, to the database.
THEOREM SnapshotsReportInOrder == SnapshotsSpec => InOrderSpec
<1>1. SnapshotsInit => Init
  BY DEF SnapshotsInit
<1>2. [Running \/ Validated]_allVars => [InOrderNext]_vars
  <2> SUFFICES ASSUME [Running \/ Validated]_allVars PROVE [InOrderNext]_vars
    OBVIOUS
  <2>1. ASSUME NEW p \in Reporter, Add(p) PROVE UNCHANGED vars
    BY <2>1 DEF Add, vars
  <2>2. ASSUME NEW p \in Reporter, RemoveManaged(p) PROVE InOrderNext
    BY <2>2 DEF RemoveManaged, InOrderNext, OtherReport
  <2>3. ASSUME NEW s \in Reporter, Report(s) PROVE InOrderNext
    <3>1. ASSUME NEW p \in Participant,
                 \/ ParticipantDiscovered(s, p, p \in Server)
                 \/ ParticipantLost(s, p)
          PROVE  InOrderNext
      <4>1. (p \in Server) \in BOOLEAN
        OBVIOUS
      <4>2. ParticipantReport(s)
        BY <3>1, <4>1 DEF ParticipantReport
      <4> QED BY <4>2 DEF InOrderNext, OtherReport
    <3>2. ASSUME NEW e \in Endpoint,
                 \/ Introduced(s, e) /\ EndpointDiscovered(s, e)
                 \/ EndpointLost(s, e)
          PROVE  InOrderNext
      BY <3>2 DEF InOrderNext, OtherReport
    <3> QED BY <2>3, <3>1, <3>2 DEF Report
  <2>4. ASSUME NEW someone \in BOOLEAN, takeSnapshot(someone) PROVE UNCHANGED vars
    BY <2>4 DEF takeSnapshot, vars
  <2>5. CASE UNCHANGED allVars \/ Validated
    BY <2>5 DEF Validated, allVars, vars
  <2> QED BY <2>1, <2>2, <2>3, <2>4, <2>5 DEF Running
<1> QED BY <1>1, <1>2, PTL DEF SnapshotsSpec, InOrderSpec

-----------------------------------------------------------------------------
\* The snapshots taken are a sequence, of what does not matter here.
SnapshotsInSequence == \E Shots : snapshots \in Seq(Shots)

\* push_back: the snapshot taken is the last one.
LEMMA TakenIsLast ==
    ASSUME SnapshotsInSequence, NEW someone, takeSnapshot(someone)
    PROVE  /\ SnapshotsInSequence'
           /\ LastShot = [databases |-> Completed(managed), if_someone |-> someone]
<1> DEFINE shot == [databases |-> Completed(managed), if_someone |-> someone]
<1>1. PICK Shots : snapshots \in Seq(Shots)
  BY DEF SnapshotsInSequence
<1>2. snapshots \in Seq(Shots \cup {shot})
  <2> HIDE DEF shot
  <2> QED BY <1>1
<1>3. snapshots' = Append(snapshots, shot)
  BY DEF takeSnapshot
<1>4. snapshots' \in Seq(Shots \cup {shot}) /\ snapshots'[Len(snapshots')] = shot
  <2> HIDE DEF shot
  <2> QED BY <1>2, <1>3
<1> QED BY <1>4 DEF SnapshotsInSequence, LastShot

\* Nothing but takeSnapshot touches the snapshots.
LEMMA OnlyTakeSnapshot ==
    ASSUME [Running \/ Validated]_allVars, snapshots' # snapshots
    PROVE  \E someone \in BOOLEAN : takeSnapshot(someone)
BY DEF Running, Validated, Add, RemoveManaged, Report, allVars

\* The snapshots are a sequence.
LEMMA SnapshotsStaySequence == SnapshotsSpec => []SnapshotsInSequence
<1>1. SnapshotsInit => SnapshotsInSequence
  <2>1. <<>> \in Seq({})
    OBVIOUS
  <2> QED BY <2>1 DEF SnapshotsInit, SnapshotsInSequence
<1>2. SnapshotsInSequence /\ [Running \/ Validated]_allVars => SnapshotsInSequence'
  <2> SUFFICES ASSUME SnapshotsInSequence, [Running \/ Validated]_allVars
               PROVE  SnapshotsInSequence'
    OBVIOUS
  <2>1. CASE snapshots' # snapshots
    BY <2>1, OnlyTakeSnapshot, TakenIsLast
  <2>2. CASE snapshots' = snapshots
    BY <2>2 DEF SnapshotsInSequence
  <2> QED BY <2>1, <2>2
<1> QED BY <1>1, <1>2, PTL DEF SnapshotsSpec

\* A participant without a database is shown with an empty one: it reported
\* nothing that it has not taken back.
LEMMA DatabaseTellsReports ==
    ASSUME AliveExactlyWhenReported, EndpointsExactlyAsReported, TypeOK, NEW s \in Reporter
    PROVE  /\ Living(DatabaseOf(s)) \ {s} = ParticipantsKnownTo(s) \ {s}
           /\ EndpointsListed(DatabaseOf(s)) = EndpointsKnownTo(s)
<1>1. CASE s \in DOMAIN image
  <2>1. DatabaseOf(s) = image[s] /\ DOMAIN image[s] \subseteq Participant
    BY <1>1 DEF DatabaseOf, TypeOK, IsDatabase
  <2>2. \A p \in Participant : p # s =>
            (p \in Living(image[s]) <=> p \in ParticipantsKnownTo(s))
    BY <1>1 DEF AliveExactlyWhenReported, HasEntry, Living, ParticipantsKnownTo
  <2>3. Living(image[s]) \subseteq Participant /\ ParticipantsKnownTo(s) \subseteq Participant
    BY <2>1 DEF Living, ParticipantsKnownTo
  <2>4. \A e \in Endpoint : e \in EndpointsListed(image[s]) <=> e \in EndpointsKnownTo(s)
    BY <1>1 DEF EndpointsExactlyAsReported, Holds, EndpointsListed, EndpointsKnownTo
  <2> QED BY <2>1, <2>2, <2>3, <2>4 DEF EndpointsListed, EndpointsKnownTo
<1>2. CASE s \notin DOMAIN image
  <2>1. Living(DatabaseOf(s)) = {} /\ EndpointsListed(DatabaseOf(s)) = {}
    BY <1>2, EmptyDatabaseInv DEF DatabaseOf, EmptyDatabase, Living, EndpointsListed
  <2>2. ParticipantsKnownTo(s) \ {s} = {}
    BY <1>2 DEF AliveExactlyWhenReported, HasEntry, ParticipantsKnownTo
  <2>3. EndpointsKnownTo(s) = {}
    BY <1>2 DEF EndpointsExactlyAsReported, Holds, EndpointsKnownTo
  <2> QED BY <2>1, <2>2, <2>3
<1> QED BY <1>1, <1>2

\* For every set of participants, endpoints and reporters: a snapshot shows of a
\* participant exactly what that participant reported and did not take back.
THEOREM SnapshotsAreTrue == SnapshotsSpec => SnapshotsTellWhatWasReported
<1> DEFINE Told == AliveExactlyWhenReported /\ EndpointsExactlyAsReported /\ TypeOK
<1>1. SnapshotsSpec => []Told
  BY SnapshotsReportInOrder, InOrderIsAnyOrder, TypeCorrectness, LivingAreTheReported,
     EndpointsAreTheReported, PTL
<1>2. Told /\ SnapshotsInSequence /\ [Running \/ Validated]_allVars =>
        [snapshots' # snapshots =>
            \A s \in Shown \cap Reporter :
                /\ Living(LastShot.databases[s]) \ {s} = ParticipantsKnownTo(s) \ {s}
                /\ EndpointsListed(LastShot.databases[s]) = EndpointsKnownTo(s)]_allVars
  <2> SUFFICES ASSUME Told, SnapshotsInSequence, [Running \/ Validated]_allVars,
                      snapshots' # snapshots, NEW s \in Shown \cap Reporter
               PROVE  /\ Living(LastShot.databases[s]) \ {s} = ParticipantsKnownTo(s) \ {s}
                      /\ EndpointsListed(LastShot.databases[s]) = EndpointsKnownTo(s)
    OBVIOUS
  <2>1. PICK someone \in BOOLEAN : takeSnapshot(someone)
    BY OnlyTakeSnapshot
  <2>2. LastShot.databases = Completed(managed)
    BY <2>1, TakenIsLast
  <2>3. LastShot.databases[s] = DatabaseOf(s)
    BY <2>2 DEF Shown, Completed
  <2> QED BY <2>3, DatabaseTellsReports
<1> QED BY <1>1, <1>2, SnapshotsStaySequence, PTL DEF SnapshotsSpec, SnapshotsTellWhatWasReported

-----------------------------------------------------------------------------
(* What the snapshots are made of.                                         *)

\* Snapshots are of participants of the process, and of well-formed databases.
IsShot(shot) == /\ DOMAIN shot.databases \subseteq Reporter
                /\ \A p \in DOMAIN shot.databases : IsDatabase(shot.databases[p])

ShotsInv == /\ managed \subseteq Reporter
            /\ \A i \in DOMAIN snapshots : IsShot(snapshots[i])

\* The participants a snapshot lists, from what takeSnapshot walks.
LEMMA CompletedProps ==
    ASSUME TypeOK, managed \subseteq Reporter
    PROVE  /\ DOMAIN Completed(managed) = managed \cup DOMAIN image
           /\ \A p \in managed \cup DOMAIN image : Completed(managed)[p] = DatabaseOf(p)
           /\ managed \cup DOMAIN image \subseteq Reporter
           /\ \A p \in managed \cup DOMAIN image : IsDatabase(DatabaseOf(p))
<1>1. managed \in SUBSET Participant /\ DOMAIN image \in SUBSET Participant
  BY ReporterAssumption DEF TypeOK
<1>2. Listed(managed, DOMAIN image) = managed \cup DOMAIN image
  BY <1>1, ListedIsUnion
<1>3. \A p : IsDatabase(DatabaseOf(p))
  BY EmptyDatabaseInv DEF TypeOK, DatabaseOf, DatabaseInv
<1> QED BY <1>2, <1>3 DEF Completed, TypeOK

\* A snapshot once taken is not touched, and the one taken is of what is there.
LEMMA ShotsInvHolds == SnapshotsSpec => []ShotsInv
<1>1. SnapshotsInit => ShotsInv
  BY DEF SnapshotsInit, ShotsInv
<1>2. ShotsInv /\ TypeOK /\ SnapshotsInSequence /\ [Running \/ Validated]_allVars => ShotsInv'
  <2> SUFFICES ASSUME ShotsInv, TypeOK, SnapshotsInSequence, [Running \/ Validated]_allVars
               PROVE  ShotsInv'
    OBVIOUS
  <2>1. managed' \subseteq Reporter
    BY DEF ShotsInv, Running, Validated, Add, RemoveManaged, Report, takeSnapshot, allVars
  <2>2. CASE snapshots' = snapshots
    BY <2>1, <2>2 DEF ShotsInv
  <2>3. CASE snapshots' # snapshots
    <3>1. PICK someone \in BOOLEAN : takeSnapshot(someone)
      BY <2>3, OnlyTakeSnapshot
    <3> DEFINE shot == [databases |-> Completed(managed), if_someone |-> someone]
    <3>2. IsShot(shot)
      <4>1. shot.databases = Completed(managed)
        OBVIOUS
      <4> HIDE DEF shot
      <4> QED BY <4>1, CompletedProps DEF IsShot, ShotsInv
    <3>3. snapshots' = Append(snapshots, shot)
      BY <3>1 DEF takeSnapshot
    <3>4. PICK Shots : snapshots \in Seq(Shots)
      BY DEF SnapshotsInSequence
    <3> HIDE DEF shot
    <3>5. ASSUME NEW i \in DOMAIN snapshots' PROVE IsShot(snapshots'[i])
      <4>1. snapshots \in Seq(Shots \cup {shot}) /\ shot \in Shots \cup {shot}
        BY <3>4
      <4>2. /\ i \in DOMAIN snapshots => snapshots'[i] = snapshots[i]
            /\ i \notin DOMAIN snapshots => snapshots'[i] = shot
        BY <3>3, <3>5, <4>1
      <4> QED BY <3>2, <4>2 DEF ShotsInv
    <3> QED BY <2>1, <3>5 DEF ShotsInv
  <2> QED BY <2>2, <2>3
<1>3. SnapshotsSpec => []TypeOK
  BY SnapshotsReportInOrder, InOrderIsAnyOrder, TypeCorrectness, PTL
<1> QED BY <1>1, <1>2, <1>3, SnapshotsStaySequence, PTL DEF SnapshotsSpec

\* For every set of participants and whatever their order: a snapshot lists those
\* that are managed and those the database has heard from, and nobody else.
THEOREM SnapshotsShowAll == SnapshotsSpec => SnapshotsShowTheProcess
<1>1. SnapshotsSpec => []TypeOK
  BY SnapshotsReportInOrder, InOrderIsAnyOrder, TypeCorrectness, PTL
<1>2. TypeOK /\ ShotsInv /\ SnapshotsInSequence /\ [Running \/ Validated]_allVars =>
        [snapshots' # snapshots => Shown = managed \cup DOMAIN image]_allVars
  <2> SUFFICES ASSUME TypeOK, ShotsInv, SnapshotsInSequence, [Running \/ Validated]_allVars,
                      snapshots' # snapshots
               PROVE  Shown = managed \cup DOMAIN image
    OBVIOUS
  <2>1. PICK someone \in BOOLEAN : takeSnapshot(someone)
    BY OnlyTakeSnapshot
  <2>2. LastShot.databases = Completed(managed)
    BY <2>1, TakenIsLast
  <2> QED BY <2>2, CompletedProps DEF Shown, ShotsInv
<1> QED BY <1>1, <1>2, ShotsInvHolds, SnapshotsStaySequence, PTL
        DEF SnapshotsSpec, SnapshotsShowTheProcess

-----------------------------------------------------------------------------
(* What a valid snapshot says.                                             *)

\* Neighbours of a snapshot that is valid differ in their own entries only.
LEMMA ValidNeighbours ==
    ASSUME NEW shot, IsShot(shot), allKnowEachOther(shot),
           NEW p \in DOMAIN shot.databases, NEW q \in DOMAIN shot.databases,
           Adjacent(shot.databases, p, q)
    PROVE  DifferInTheirOwn(shot.databases, p, q)
<1> DEFINE databases == shot.databases
<1>1. p \in Nat /\ q \in Nat /\ p < q
  BY ReporterAssumption, ParticipantAssumption DEF IsShot, Adjacent
<1>2. Matches(databases[p], databases[q], p, q)
  BY <1>1 DEF allKnowEachOther, Equal
<1>3. Comparable(databases[p], databases[q])
  BY DEF IsShot, IsDatabase, Comparable, Living
<1>4. /\ \A x \in Living(databases[p]) \cap Living(databases[q]) :
            SameItem(databases[p][x], databases[q][x])
      /\ (Living(databases[p]) \ Living(databases[q])) \cup
            (Living(databases[q]) \ Living(databases[p])) \subseteq {p, q}
  <2> HIDE DEF databases
  <2> QED BY <1>1, <1>2, <1>3, MatchesHidesNothing
<1>5. ASSUME NEW x \in Participant
      PROVE  /\ x \in Living(databases[p]) \cap Living(databases[q]) =>
                    databases[p][x].endpoints = databases[q][x].endpoints
             /\ (x \in Living(databases[p])) # (x \in Living(databases[q])) => x \in {p, q}
  <2> HIDE DEF databases
  <2> QED BY <1>4 DEF SameItem
<1> QED BY <1>5 DEF DifferInTheirOwn

\* For every set of participants, endpoints and reporters: a snapshot that
\* allKnowEachOther accepts hides no difference between neighbours.
THEOREM NeighboursDoAgree == SnapshotsSpec => []NeighboursAgree
<1>1. ShotsInv => NeighboursAgree
  BY ValidNeighbours DEF ShotsInv, NeighboursAgree
<1> QED BY <1>1, ShotsInvHolds, PTL

\* Two databases tell the same of x.
SameOf(x, leftDb, rightDb) ==
    /\ x \in Living(leftDb) <=> x \in Living(rightDb)
    /\ x \in Living(leftDb) => leftDb[x].endpoints = rightDb[x].endpoints

\* The member before q, in the order of the GUIDs.
LEMMA HasPrevious ==
    ASSUME NEW members \in SUBSET Nat, NEW q \in members, NEW f \in members, f < q
    PROVE  \E b \in members : b < q /\ ~ \E between \in members : b < between /\ between < q
<1> DEFINE T == {q - d : d \in {m \in members : m < q}}
<1>1. T \in SUBSET Nat /\ T # {}
  <2>1. ASSUME NEW d \in members, d < q PROVE q - d \in Nat
    <3>1. d \in Nat /\ q \in Nat
      OBVIOUS
    <3> QED BY <2>1, <3>1
  <2>2. q - f \in T
    OBVIOUS
  <2> QED BY <2>1, <2>2
<1>2. PICK n \in T : \A k \in T : n <= k
  BY <1>1, LeastElement
<1>3. PICK b \in members : b < q /\ n = q - b
  OBVIOUS
<1>4. ASSUME NEW between \in members, b < between, between < q PROVE FALSE
  <2>1. q - between \in T
    BY <1>4
  <2>2. q - b <= q - between
    BY <1>2, <1>3, <2>1
  <2> QED BY <1>4, <2>2
<1> QED BY <1>3, <1>4

\* From neighbour to neighbour everybody tells the same of those that are not
\* listed.
LEMMA ValidTellsAlike ==
    ASSUME NEW shot, IsShot(shot), allKnowEachOther(shot),
           NEW x \in Participant \ DOMAIN shot.databases,
           NEW f \in DOMAIN shot.databases, \A p \in DOMAIN shot.databases : f <= p,
           NEW p \in DOMAIN shot.databases
    PROVE  SameOf(x, shot.databases[f], shot.databases[p])
<1> DEFINE databases == shot.databases
           members == DOMAIN databases
           Bad == {q \in members : ~SameOf(x, databases[f], databases[q])}
<1>1. members \in SUBSET Nat
  BY ReporterAssumption, ParticipantAssumption DEF IsShot
<1> SUFFICES ASSUME Bad # {} PROVE FALSE
  OBVIOUS
<1>2. PICK q \in Bad : \A other \in Bad : q <= other
  <2>1. Bad \in SUBSET Nat
    BY <1>1
  <2> HIDE DEF Bad
  <2> QED BY <2>1, LeastElement
<1>3. q \in members /\ ~SameOf(x, databases[f], databases[q])
  OBVIOUS
<1>4. f < q
  <2>1. f # q
    BY <1>3 DEF SameOf
  <2>2. f <= q /\ f \in Nat /\ q \in Nat
    BY <1>1, <1>3
  <2> QED BY <2>1, <2>2
<1>5. PICK b \in members : b < q /\ ~ \E between \in members : b < between /\ between < q
  <2>1. f \in members
    OBVIOUS
  <2> HIDE DEF members
  <2> QED BY <1>1, <1>3, <1>4, <2>1, HasPrevious
<1>6. DifferInTheirOwn(databases, b, q)
  BY <1>3, <1>5, ValidNeighbours DEF Adjacent
<1>7. SameOf(x, databases[b], databases[q])
  <2>1. x \notin {b, q} /\ x \in Participant
    BY <1>3, <1>5
  <2>2. ~((x \in Living(databases[b])) # (x \in Living(databases[q])))
    BY <1>6, <2>1 DEF DifferInTheirOwn
  <2>3. x \in Living(databases[b]) \cap Living(databases[q]) =>
            databases[b][x].endpoints = databases[q][x].endpoints
    BY <1>6, <2>1 DEF DifferInTheirOwn
  <2> HIDE DEF databases
  <2> QED BY <2>2, <2>3 DEF SameOf
<1>8. SameOf(x, databases[f], databases[b])
  <2>1. b \in Nat /\ q \in Nat
    BY <1>1, <1>3
  <2>2. b \notin Bad
    BY <1>2, <1>5, <2>1
  <2> QED BY <1>5, <2>2
<1> QED BY <1>3, <1>7, <1>8 DEF SameOf

\* For every set of participants, endpoints and reporters: that neighbours agree is
\* enough for everybody to know the same participants of other processes.
THEOREM RemotesAreKnownToAll == SnapshotsSpec => []RemotesKnownToAll
<1>1. ASSUME NEW shot, IsShot(shot), allKnowEachOther(shot),
             NEW p \in DOMAIN shot.databases, NEW q \in DOMAIN shot.databases,
             NEW x \in Participant \ DOMAIN shot.databases
      PROVE  SameOf(x, shot.databases[p], shot.databases[q])
  <2>1. DOMAIN shot.databases \in SUBSET Nat
    BY <1>1, ReporterAssumption, ParticipantAssumption DEF IsShot
  <2>2. PICK f \in DOMAIN shot.databases : \A d \in DOMAIN shot.databases : f <= d
    BY <1>1, <2>1, LeastElement
  <2>3. /\ SameOf(x, shot.databases[f], shot.databases[p])
        /\ SameOf(x, shot.databases[f], shot.databases[q])
    BY <1>1, <2>2, ValidTellsAlike
  <2> QED BY <2>3 DEF SameOf
<1>2. ShotsInv => RemotesKnownToAll
  <2> SUFFICES ASSUME ShotsInv, NEW i \in DOMAIN snapshots, allKnowEachOther(snapshots[i]),
                      NEW p \in DOMAIN snapshots[i].databases,
                      NEW q \in DOMAIN snapshots[i].databases,
                      NEW x \in Participant \ DOMAIN snapshots[i].databases
               PROVE  SameOf(x, snapshots[i].databases[p], snapshots[i].databases[q])
    BY DEF RemotesKnownToAll, SameOf
  <2>1. IsShot(snapshots[i])
    BY DEF ShotsInv
  <2> QED BY <1>1, <2>1
<1> QED BY <1>2, ShotsInvHolds, PTL

-----------------------------------------------------------------------------
(* What full discovery comes to.                                           *)

\* What the reports of the process keep true of the database.
Told == /\ TypeOK
        /\ AliveExactlyWhenReported
        /\ EndpointsExactlyAsReported
        /\ FiledUnderOwner

\* What is proved of reports in order holds here.
LEMMA ToldHolds == SnapshotsSpec => []Told
BY SnapshotsReportInOrder, InOrderIsAnyOrder, TypeCorrectness, LivingAreTheReported,
   EndpointsAreTheReported, EndpointsAreFiled, PTL DEF Told

\* Participants that have reported the same endpoints have the same ones in their
\* entries of a participant.
LEMMA SameEndpointsInEntries ==
    ASSUME Told, NEW p \in Reporter, NEW q \in Reporter,
           EndpointsKnownTo(p) = EndpointsKnownTo(q),
           NEW x \in Living(DatabaseOf(p)) \cap Living(DatabaseOf(q))
    PROVE  SameItem(DatabaseOf(p)[x], DatabaseOf(q)[x])
<1>1. /\ p \in DOMAIN image /\ DatabaseOf(p) = image[p] /\ x \in DOMAIN image[p]
      /\ q \in DOMAIN image /\ DatabaseOf(q) = image[q] /\ x \in DOMAIN image[q]
  BY EmptyDatabaseInv DEF DatabaseOf, Living
<1>2. image[p][x].endpoints \subseteq Endpoint /\ image[q][x].endpoints \subseteq Endpoint
  BY <1>1 DEF Told, TypeOK, IsDatabase, ParticipantItem
<1>3. \A e \in Endpoint : /\ e \in image[p][x].endpoints => Owner[e] = x
                          /\ e \in image[q][x].endpoints => Owner[e] = x
  BY <1>1 DEF Told, FiledUnderOwner
<1>4. \A e \in Endpoint : Owner[e] = x =>
            /\ e \in image[p][x].endpoints <=> e \in EndpointsKnownTo(p)
            /\ e \in image[q][x].endpoints <=> e \in EndpointsKnownTo(q)
  BY <1>1 DEF Told, EndpointsExactlyAsReported, Holds, EndpointsKnownTo
<1>5. image[p][x].endpoints = image[q][x].endpoints
  BY <1>2, <1>3, <1>4
<1> QED BY <1>1, <1>5 DEF SameItem

\* Participants that know everyone and the same endpoints have been told alike, in
\* the sense of the walk.
LEMMA FullyDiscoveredAlike ==
    ASSUME Told, NEW everyone \in SUBSET Participant,
           NEW p \in Reporter \cap everyone, NEW q \in Reporter \cap everyone, p < q,
           ParticipantsKnownTo(p) = everyone \ {p}, ParticipantsKnownTo(q) = everyone \ {q},
           EndpointsKnownTo(p) = EndpointsKnownTo(q)
    PROVE  ToldAlike(DatabaseOf(p), DatabaseOf(q), p, q,
                     [left |-> Living(DatabaseOf(p)), right |-> Living(DatabaseOf(q))])
<1> DEFINE L == Living(DatabaseOf(p))
           R == Living(DatabaseOf(q))
           at == [left |-> L, right |-> R]
<1>1. p # q
  BY ReporterAssumption, ParticipantAssumption
<1>2. L \ {p} = everyone \ {p} /\ R \ {q} = everyone \ {q}
  BY DatabaseTellsReports DEF Told
<1>3. \A x \in L \cap R : SameItem(DatabaseOf(p)[x], DatabaseOf(q)[x])
  BY SameEndpointsInEntries
<1>4. p \in R /\ q \in L
  <2> HIDE DEF L, R
  <2> QED BY <1>1, <1>2
<1>5. p \notin L => (Cardinality(L) = Cardinality(R) <=> q \notin R)
  <2> SUFFICES ASSUME p \notin L PROVE Cardinality(L) = Cardinality(R) <=> q \notin R
    OBVIOUS
  <2>1. L = everyone \ {p} /\ R = IF q \in R THEN everyone ELSE everyone \ {q}
    <3> HIDE DEF L, R
    <3> QED BY <1>1, <1>2
  <2>2. IsFiniteSet(everyone) /\ Cardinality(everyone) \in Nat
    BY AdvanceProps
  <2>3. /\ Cardinality(everyone \ {p}) = Cardinality(everyone) - 1
        /\ Cardinality(everyone \ {q}) = Cardinality(everyone) - 1
    BY <2>2, FS_RemoveElement
  <2> HIDE DEF L, R
  <2>4. CASE q \in R
    <3>1. R = everyone
      BY <2>1, <2>4
    <3> QED BY <2>1, <2>2, <2>3, <2>4, <3>1
  <2>5. CASE q \notin R
    <3>1. R = everyone \ {q}
      BY <2>1, <2>5
    <3> QED BY <2>1, <2>3, <2>5, <3>1
  <2> QED BY <2>4, <2>5
<1>6. L \ {p, q} = R \ {p, q}
  <2> HIDE DEF L, R
  <2> QED BY <1>2
<1>7. at.left = L /\ at.right = R
  OBVIOUS
<1>8. SameSize(DatabaseOf(p), DatabaseOf(q)) <=> Cardinality(L) = Cardinality(R)
  BY DEF SameSize
<1>9. ToldAlike(DatabaseOf(p), DatabaseOf(q), p, q, at)
  <2> HIDE DEF L, R, at
  <2> QED BY <1>3, <1>4, <1>5, <1>6, <1>7, <1>8 DEF ToldAlike
<1> QED BY <1>9

\* allKnowEachOther accepts the snapshot of a process in which everybody knows
\* everybody.
LEMMA FullSnapshotIsValid ==
    ASSUME Told, managed \subseteq Reporter, NEW someone \in BOOLEAN,
           FullDiscovery(DOMAIN Completed(managed)),
           someone => \E s \in DOMAIN Completed(managed) : ParticipantsKnownTo(s) # {}
    PROVE  allKnowEachOther([databases |-> Completed(managed), if_someone |-> someone])
<1> DEFINE databases == Completed(managed)
           shown == DOMAIN databases
<1>1. PICK everyone \in SUBSET Participant, endpoints \in SUBSET Endpoint :
        /\ shown \subseteq everyone
        /\ \A s \in shown : /\ ParticipantsKnownTo(s) = everyone \ {s}
                            /\ EndpointsKnownTo(s) = endpoints
  BY DEF FullDiscovery
<1>2. /\ shown \subseteq Reporter /\ shown \subseteq Nat
      /\ \A s \in shown : databases[s] = DatabaseOf(s) /\ IsDatabase(DatabaseOf(s))
  <2>1. TypeOK
    BY DEF Told
  <2> QED BY <2>1, CompletedProps, ReporterAssumption, ParticipantAssumption
<1> HIDE DEF databases
<1>3. ASSUME NEW p \in shown, NEW q \in shown, p < q PROVE Equal(databases, p, q)
  <2>1. ToldAlike(DatabaseOf(p), DatabaseOf(q), p, q,
                  [left |-> Living(DatabaseOf(p)), right |-> Living(DatabaseOf(q))])
    BY <1>1, <1>2, <1>3, FullyDiscoveredAlike
  <2>2. Comparable(DatabaseOf(p), DatabaseOf(q))
    BY <1>2 DEF Comparable, Living, IsDatabase
  <2>3. p \in Nat /\ q \in Nat /\ ~(q < p)
    BY <1>2, <1>3
  <2>4. Matches(DatabaseOf(p), DatabaseOf(q), p, q)
    BY <1>3, <2>1, <2>2, <2>3, ToldAlikeMatches
  <2> QED BY <1>2, <2>3, <2>4 DEF Equal
<1>4. ASSUME someone PROVE SomebodyFound(databases)
  <2>1. PICK s \in shown : ParticipantsKnownTo(s) # {}
    BY <1>4 DEF databases
  <2> DEFINE f == First(shown)
  <2>2. f \in shown
    <3>1. shown \in SUBSET Nat /\ shown # {}
      BY <1>2, <2>1
    <3> HIDE DEF shown
    <3> QED BY <3>1, FirstIsLeast
  <2> HIDE DEF f
  <2>3. everyone \ {f} # {}
    BY <1>1, <2>1, <2>2
  <2>4. Living(DatabaseOf(f)) \ {f} = everyone \ {f}
    BY <1>1, <1>2, <2>2, DatabaseTellsReports DEF Told
  <2>5. DOMAIN databases[f] # {}
    BY <1>2, <2>2, <2>3, <2>4 DEF Living
  <2> QED BY <2>2, <2>5 DEF SomebodyFound, f
<1>5. \A p, q \in shown : Adjacent(databases, p, q) => Equal(databases, p, q)
  BY <1>3 DEF Adjacent
<1>6. allKnowEachOther([databases |-> databases, if_someone |-> someone])
  BY <1>4, <1>5 DEF allKnowEachOther
<1> QED BY <1>6 DEF databases

\* For every set of participants, endpoints and reporters, and whatever the order of
\* their GUIDs: allKnowEachOther raises no false alarm.
THEOREM NoFalseAlarm == SnapshotsSpec => FullDiscoveryIsValid
<1>1. Told /\ ShotsInv /\ SnapshotsInSequence /\ [Running \/ Validated]_allVars =>
        [( /\ snapshots' # snapshots
           /\ FullDiscovery(Shown)
           /\ LastShot.if_someone => \E s \in Shown : ParticipantsKnownTo(s) # {} )
         => allKnowEachOther(LastShot)]_allVars
  <2> SUFFICES ASSUME Told, ShotsInv, SnapshotsInSequence, [Running \/ Validated]_allVars,
                      snapshots' # snapshots, FullDiscovery(Shown),
                      LastShot.if_someone => \E s \in Shown : ParticipantsKnownTo(s) # {}
               PROVE  allKnowEachOther(LastShot)
    OBVIOUS
  <2>1. PICK someone \in BOOLEAN : takeSnapshot(someone)
    BY OnlyTakeSnapshot
  <2>2. LastShot = [databases |-> Completed(managed), if_someone |-> someone]
    BY <2>1, TakenIsLast
  <2>3. Shown = DOMAIN Completed(managed) /\ LastShot.if_someone = someone
    BY <2>2 DEF Shown
  <2>4. managed \subseteq Reporter
    BY DEF ShotsInv
  <2> QED BY <2>2, <2>3, <2>4, FullSnapshotIsValid
<1> QED BY <1>1, ToldHolds, ShotsInvHolds, SnapshotsStaySequence, PTL
        DEF SnapshotsSpec, FullDiscoveryIsValid

=============================================================================
