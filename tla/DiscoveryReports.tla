-------------------------- MODULE DiscoveryReports --------------------------
(***************************************************************************)
(* The discovery database under the reports it receives.  Each participant *)
(* of this process (a reporter) has a listener that passes on what Fast    *)
(* DDS discovers: participants found and lost, endpoints found and lost,   *)
(* and changes of a reader's liveliness.                                   *)
(*                                                                         *)
(* The history variables hold what the reporters have said and not taken   *)
(* back.  They are the abstract database: the properties relate image, as  *)
(* the code builds it, to them.                                            *)
(*                                                                         *)
(* AnyOrderSpec lets the reports of a reporter arrive in every order, as   *)
(* AddEndPoint's zombie entries provide for.  In InOrderSpec an endpoint   *)
(* is discovered only while its participant is.  Removals come in any      *)
(* order in both.                                                          *)
(***************************************************************************)
EXTENDS DiscoveryDatabase

CONSTANT Reporter   \* the participants of this process

ASSUME ReporterAssumption == Reporter \subseteq Participant

VARIABLES
    knownParticipants,  \* <<s, p>>: s has reported p, and not its removal
    knownEndpoints      \* <<s, e>>: s has reported e, and not its removal

vars == <<image, knownParticipants, knownEndpoints>>

-----------------------------------------------------------------------------
Init == /\ image = [s \in {} |-> EmptyDatabase]
        /\ knownParticipants = {}
        /\ knownEndpoints = {}

\* Fast DDS never reports a participant to itself.
ParticipantDiscovered(s, p, server) ==
    /\ s # p
    /\ AddParticipant(s, p, server)
    /\ knownParticipants' = knownParticipants \cup {<<s, p>>}
    /\ UNCHANGED knownEndpoints

\* REMOVED_PARTICIPANT and DROPPED_PARTICIPANT.
ParticipantLost(s, p) ==
    /\ s # p
    /\ RemoveParticipant(s, p)
    /\ knownParticipants' = knownParticipants \ {<<s, p>>}
    /\ UNCHANGED knownEndpoints

EndpointDiscovered(s, e) ==
    /\ AddEndPoint(s, e)
    /\ knownEndpoints' = knownEndpoints \cup {<<s, e>>}
    /\ UNCHANGED knownParticipants

EndpointLost(s, e) ==
    /\ RemoveEndPoint(s, e)
    /\ knownEndpoints' = knownEndpoints \ {<<s, e>>}
    /\ UNCHANGED knownParticipants

LivelinessChanged(r, matched) ==
    /\ UpdateSubLiveliness(r, matched)
    /\ UNCHANGED <<knownParticipants, knownEndpoints>>

\* The participant is destroyed, and everything it reported goes with it.
ReporterRemoved(s) ==
    /\ RemoveReporter(s)
    /\ knownParticipants' = {known \in knownParticipants : known[1] # s}
    /\ knownEndpoints' = {known \in knownEndpoints : known[1] # s}

-----------------------------------------------------------------------------
ParticipantReport(s) ==
    \E p \in Participant : \/ \E server \in BOOLEAN : ParticipantDiscovered(s, p, server)
                           \/ ParticipantLost(s, p)

OtherReport(s) ==
    \/ ParticipantReport(s)
    \/ \E e \in Endpoint : EndpointLost(s, e)
    \/ \E r \in Reader, matched \in BOOLEAN : Owner[r] = s /\ LivelinessChanged(r, matched)
    \/ ReporterRemoved(s)

AnyOrderNext == \E s \in Reporter : \/ OtherReport(s)
                                    \/ \E e \in Endpoint : EndpointDiscovered(s, e)

AnyOrderSpec == Init /\ [][AnyOrderNext]_vars

\* Own endpoints need no introduction: no participant is reported to itself.
Introduced(s, e) == Owner[e] = s \/ <<s, Owner[e]>> \in knownParticipants

InOrderNext ==
    \E s \in Reporter : \/ OtherReport(s)
                        \/ \E e \in Endpoint : Introduced(s, e) /\ EndpointDiscovered(s, e)

InOrderSpec == Init /\ [][InOrderNext]_vars

-----------------------------------------------------------------------------
HasEntry(s, p) == s \in DOMAIN image /\ p \in DOMAIN image[s]

IsDatabase(database) == /\ DOMAIN database \subseteq Participant
                        /\ \A p \in DOMAIN database : database[p] \in ParticipantItem

\* Every reporter has at most one database, of well-formed items: in
\* particular the liveliness of a reader goes when the reader does.
TypeOK == /\ DOMAIN image \subseteq Reporter
          /\ \A s \in DOMAIN image : IsDatabase(image[s])
          /\ knownParticipants \subseteq Reporter \X Participant
          /\ knownEndpoints \subseteq Reporter \X Endpoint

\* A zombie is only kept while it has endpoints whose removal is to come:
\* RemoveParticipant, RemoveEndPoint and AddEndPoint never leave an empty one,
\* whatever the order of the reports.
ZombiesHoldEndpoints ==
    \A s \in DOMAIN image : \A p \in DOMAIN image[s] :
        ~image[s][p].alive => image[s][p].endpoints # {}

\* Whatever the order of the reports, a participant is listed alive by exactly
\* the reporters that know it.  An endpoint report, even one that comes first
\* or is filed with another participant, neither revives nor kills anybody.
AliveExactlyWhenReported ==
    \A s \in Reporter, p \in Participant :
        s # p => ( /\ HasEntry(s, p)
                   /\ image[s][p].alive ) <=> <<s, p>> \in knownParticipants

\* A reporter's entry for itself, made by its own endpoints, never is a zombie:
\* no participant report will ever bring it back to life.
OwnEntryIsAlive == \A s \in DOMAIN image : s \in DOMAIN image[s] => image[s][s].alive

\* Every endpoint a reporter knows of is found where RemoveEndPoint and the
\* comparison of databases look for it, under its owner, and nothing else is.
EndpointsExactlyAsReported ==
    \A s \in Reporter, e \in Endpoint :
        Holds(s, Owner[e], e) <=> <<s, e>> \in knownEndpoints

\* No endpoint is filed under a participant that does not own it (AddEndPoint's
\* "participant is no there, add a zombie participant").
FiledUnderOwner ==
    \A s \in DOMAIN image : \A p \in DOMAIN image[s] :
        \A e \in image[s][p].endpoints : Owner[e] = p

=============================================================================
