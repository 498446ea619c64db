----------------------------- MODULE Snapshots -----------------------------
(***************************************************************************)
(* Snapshots taken while participants report: participants are added to    *)
(* the manager and removed, their reports reach the database, and the      *)
(* event thread takes snapshots, which main validates at the end.          *)
(*                                                                         *)
(* A participant that was removed may go on reporting here, as             *)
(* DiscoveryManager shows it can, so a snapshot may list databases of      *)
(* participants that are no longer managed.                                *)
(***************************************************************************)
EXTENDS DiscoveryReports, SnapshotCompare, Sequences

CONSTANTS
    Server,         \* the participants that are servers of this process
    MaxSnapshots    \* bound: the snapshots taken before the process ends

ASSUME SnapshotsAssumption == Server \subseteq Reporter /\ MaxSnapshots \in Nat

VARIABLES
    managed,        \* servers, clients and simples, as one map
    removed,        \* those that were in it
    snapshots       \* the snapshots taken

allVars == <<image, knownParticipants, knownEndpoints, managed, removed, snapshots>>

-----------------------------------------------------------------------------
SnapshotsInit == /\ Init
                 /\ managed = {}
                 /\ removed = {}
                 /\ snapshots = <<>>

\* addServer, addClient, addSimple: each participant is added once.
Add(p) == /\ p \notin managed \cup removed
          /\ managed' = managed \cup {p}
          /\ UNCHANGED <<image, knownParticipants, knownEndpoints, removed, snapshots>>

\* removeParticipant: out of the maps, and its database with it.
RemoveManaged(p) == /\ p \in managed
                    /\ managed' = managed \ {p}
                    /\ removed' = removed \cup {p}
                    /\ ReporterRemoved(p)
                    /\ UNCHANGED snapshots

\* The callbacks pass whether the participant is a server of this process.  The
\* liveliness of readers is left out: no comparison looks at it.
Report(s) ==
    /\ s \in managed \cup removed
    /\ \/ \E p \in Participant : \/ ParticipantDiscovered(s, p, p \in Server)
                                 \/ ParticipantLost(s, p)
       \/ \E e \in Endpoint : \/ Introduced(s, e) /\ EndpointDiscovered(s, e)
                              \/ EndpointLost(s, e)
    /\ UNCHANGED <<managed, removed, snapshots>>

takeSnapshot(someone) ==
    /\ snapshots' = Append(snapshots, [databases |-> Completed(managed),
                                       if_someone |-> someone])
    /\ UNCHANGED <<image, knownParticipants, knownEndpoints, managed, removed>>

validateAllSnapshots == \A i \in DOMAIN snapshots : allKnowEachOther(snapshots[i])

\* runEvents goes on until the last snapshot; nothing later changes a snapshot.
Running == /\ Len(snapshots) < MaxSnapshots
           /\ \/ \E p \in Reporter : Add(p) \/ RemoveManaged(p) \/ Report(p)
              \/ \E someone \in BOOLEAN : takeSnapshot(someone)

Validated == Len(snapshots) = MaxSnapshots /\ UNCHANGED allVars

SnapshotsSpec == SnapshotsInit /\ [][Running \/ Validated]_allVars

-----------------------------------------------------------------------------
LastShot == snapshots'[Len(snapshots')]

Shown == DOMAIN LastShot.databases

\* Every participant of the process is in the snapshot, those that reported
\* nothing included, and so is everybody the database has heard from; nobody else.
SnapshotsShowTheProcess ==
    [][snapshots' # snapshots => Shown = managed \cup DOMAIN image]_allVars

ParticipantsKnownTo(s) == {p \in Participant : <<s, p>> \in knownParticipants}

EndpointsKnownTo(s) == {e \in Endpoint : <<s, e>> \in knownEndpoints}

EndpointsListed(database) ==
    {e \in Endpoint : Owner[e] \in DOMAIN database /\ e \in database[Owner[e]].endpoints}

\* takeSnapshot and everything that led to it: what a snapshot shows of a
\* participant is what that participant has reported and not taken back until
\* then, its own entry apart.
SnapshotsTellWhatWasReported ==
    [][snapshots' # snapshots =>
        \A s \in Shown \cap Reporter :
            /\ Living(LastShot.databases[s]) \ {s} = ParticipantsKnownTo(s) \ {s}
            /\ EndpointsListed(LastShot.databases[s]) = EndpointsKnownTo(s)]_allVars

\* All those shown know each other, the same others, and the same endpoints.
FullDiscovery(shown) ==
    \E everyone \in SUBSET Participant, endpoints \in SUBSET Endpoint :
        /\ shown \subseteq everyone
        /\ \A s \in shown : /\ ParticipantsKnownTo(s) = everyone \ {s}
                            /\ EndpointsKnownTo(s) = endpoints

\* No false alarm: when everybody has been told the same, and somebody is known
\* if that is required, allKnowEachOther says so, whoever lists itself, whatever
\* zombies there are and whatever the order of the GUIDs.
FullDiscoveryIsValid ==
    [][( /\ snapshots' # snapshots
         /\ FullDiscovery(Shown)
         /\ LastShot.if_someone => \E s \in Shown : ParticipantsKnownTo(s) # {} )
       => allKnowEachOther(LastShot)]_allVars

\* What two participants may differ in: "their own" discovery information.
DifferInTheirOwn(databases, p, q) ==
    \A x \in Participant :
        /\ x \in Living(databases[p]) \cap Living(databases[q]) =>
              databases[p][x].endpoints = databases[q][x].endpoints
        /\ (x \in Living(databases[p])) # (x \in Living(databases[q])) => x \in {p, q}

\* A valid snapshot hides no difference between neighbours by GUID: none is
\* swept over that is not one of the two participants' own.
NeighboursAgree ==
    \A i \in DOMAIN snapshots : allKnowEachOther(snapshots[i]) =>
        LET databases == snapshots[i].databases
        IN \A p, q \in DOMAIN databases :
              Adjacent(databases, p, q) => DifferInTheirOwn(databases, p, q)

\* In a valid snapshot everybody knows the same participants of other processes
\* with the same endpoints, not only neighbours.
RemotesKnownToAll ==
    \A i \in DOMAIN snapshots : allKnowEachOther(snapshots[i]) =>
        LET databases == snapshots[i].databases
        IN \A p, q \in DOMAIN databases, x \in Participant \ DOMAIN databases :
              /\ x \in Living(databases[p]) => x \in Living(databases[q])
              /\ x \in Living(databases[p]) \cap Living(databases[q]) =>
                    databases[p][x].endpoints = databases[q][x].endpoints

\* "traverse snapshot comparing each member with each other": whenever main
\* reports success, every two members of every snapshot compare equal.
SuccessComparesAll ==
    validateAllSnapshots =>
        \A i \in DOMAIN snapshots : \A p, q \in DOMAIN snapshots[i].databases :
            Equal(snapshots[i].databases, p, q)

=============================================================================
