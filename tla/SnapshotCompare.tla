-------------------------- MODULE SnapshotCompare --------------------------
(***************************************************************************)
(* What is done with a snapshot: the databases of participants that        *)
(* reported nothing are added to it, and it is valid when every database   *)
(* equals the next one but for what the two participants say about         *)
(* themselves.                                                             *)
(*                                                                         *)
(* The code walks ordered sets with iterators.  An iterator is here the    *)
(* set of GUIDs it has not passed yet; end() is the empty set.             *)
(***************************************************************************)
EXTENDS DiscoveryDatabase, FiniteSets

\* A GUID is a number of 16 octets.
ASSUME FiniteAssumption == IsFiniteSet(Participant)

First(guids) == CHOOSE p \in guids : \A q \in guids : p <= q

Advance(guids) == guids \ {First(guids)}

-----------------------------------------------------------------------------
(***************************************************************************)
(* operator== on ParticipantDiscoveryDatabase.  The smart_iterator skips   *)
(* zombies, and real_size counts without them.                             *)
(***************************************************************************)
Living(database) == {p \in DOMAIN database : database[p].alive}

\* Fault: the operator== of the base class, which compares GUIDs.
FaultySameItem(item, other) == TRUE

SameItem(item, other) == item.endpoints = other.endpoints

\* Fault: what follows the owner's entry is not looked at.
FaultyOnlyOwnLeft(guids, own) == guids = {} \/ First(guids) \in own

\* At the end of one database the other may have one of its two owners left.
OnlyOwnLeft(guids, own) ==
    guids = {} \/ (First(guids) \in own /\ Advance(guids) = {})

\* Fault: both owners are skipped whatever the sizes.
FaultySkipsRight(left, right, r, sameSize, leftSkipped) == First(left) = r

\* Whether the entry the smaller participant has of the larger one is skipped.
SkipsRight(left, right, r, sameSize, leftSkipped) ==
    First(left) = r /\ (sameSize \/ ~leftSkipped)

\* One database per participant, l < r: how the walk ends from every position.
Comparison(leftDb, rightDb, l, r) ==
    LET sameSize == Cardinality(Living(leftDb)) = Cardinality(Living(rightDb))
        walk[at \in [left : SUBSET Living(leftDb), right : SUBSET Living(rightDb)]] ==
            IF at.left = {} \/ at.right = {} THEN OnlyOwnLeft(at.left \cup at.right, {l, r})
            ELSE IF First(at.left) = First(at.right)
            THEN /\ SameItem(leftDb[First(at.left)], rightDb[First(at.right)])
                 /\ walk[[left |-> Advance(at.left), right |-> Advance(at.right)]]
            ELSE LET skipLeft == First(at.right) = l
                     skipRight == SkipsRight(at.left, at.right, r, sameSize, skipLeft)
                 IN /\ skipLeft \/ skipRight
                    /\ walk[[left |-> IF skipRight THEN Advance(at.left) ELSE at.left,
                             right |-> IF skipLeft THEN Advance(at.right) ELSE at.right]]
    IN walk

Matches(leftDb, rightDb, l, r) ==
    Comparison(leftDb, rightDb, l, r)[[left |-> Living(leftDb), right |-> Living(rightDb)]]

\* The operands are swapped if need be.
Equal(databases, p, q) == IF q < p THEN Matches(databases[q], databases[p], q, p)
                                   ELSE Matches(databases[p], databases[q], p, q)

-----------------------------------------------------------------------------
(* A snapshot: databases, one per participant, and if_someone, whether a   *)
(* snapshot that discovered nobody is an error.                            *)

Adjacent(databases, p, q) ==
    p < q /\ ~ \E between \in DOMAIN databases : p < between /\ between < q

\* Zombies count as somebody: empty() is that of the set.
SomebodyFound(databases) ==
    DOMAIN databases # {} /\ DOMAIN databases[First(DOMAIN databases)] # {}

allKnowEachOther(shot) ==
    /\ shot.if_someone => SomebodyFound(shot.databases)
    /\ \A p, q \in DOMAIN shot.databases :
            Adjacent(shot.databases, p, q) => Equal(shot.databases, p, q)

-----------------------------------------------------------------------------
(***************************************************************************)
(* takeSnapshot: the GUIDs a snapshot lists, from the participants of the  *)
(* process and the databases of the image.  Both are walked until they     *)
(* differ (std::mismatch); there the participant gets an empty database if *)
(* it has none, and the walk goes on from that database.                   *)
(***************************************************************************)

Walk == [todo : SUBSET Participant, listed : SUBSET Participant, ahead : SUBSET Participant]

\* Where the walk goes on once the participant that is next has a database.
Emplaced(at) == LET now == at.listed \cup {First(at.todo)}
                IN [todo |-> at.todo, listed |-> now,
                    ahead |-> {p \in now : First(at.todo) <= p}]

\* Fault: the walk stops where the image ends.
FaultyListing ==
    LET walk[at \in Walk] ==
            IF at.todo = {} \/ at.ahead = {} THEN at.listed
            ELSE IF First(at.todo) = First(at.ahead)
            THEN walk[[at EXCEPT !.todo = Advance(@), !.ahead = Advance(@)]]
            ELSE walk[Emplaced(at)]
    IN walk

Listing ==
    LET walk[at \in Walk] ==
            IF at.todo = {} THEN at.listed
            ELSE IF at.ahead # {} /\ First(at.todo) = First(at.ahead)
            THEN walk[[at EXCEPT !.todo = Advance(@), !.ahead = Advance(@)]]
            ELSE walk[Emplaced(at)]
    IN walk

Listed(managed, reporting) ==
    Listing[[todo |-> managed, listed |-> reporting, ahead |-> reporting]]

\* The databases of a snapshot: emplace_hint leaves a database that exists alone.
Completed(managed) == [p \in Listed(managed, DOMAIN image) |-> DatabaseOf(p)]

=============================================================================
