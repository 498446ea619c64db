------------------------- MODULE DiscoveryDatabase -------------------------
(***************************************************************************)
(* DiscoveryItemDatabase: what every participant of the process has been   *)
(* told about the others, each operation atomic under database_mutex.      *)
(*                                                                         *)
(* A GUID is a natural number, because std::lower_bound searches the       *)
(* ordered sets by GUID and the outcome depends on that order.  The two    *)
(* endpoint sets of an item (datawriters, datareaders) are one set here:   *)
(* AddEndPoint and RemoveEndPoint are one template over both, and an       *)
(* endpoint's GUID says which of the two it is in.  Names, types, topics   *)
(* and timestamps are left out: nothing below branches on them.  A         *)
(* reader's alive_count and not_alive_count are abstracted to whether it   *)
(* matches a live writer.                                                  *)
(***************************************************************************)
EXTENDS Naturals

CONSTANTS
    Participant,    \* GUIDs of the participants
    Endpoint,       \* data readers and data writers
    Reader,         \* the endpoints that are data readers
    Owner           \* Owner[e] is the participant endpoint e belongs to

ASSUME ParticipantAssumption == Participant \subseteq Nat

ASSUME EndpointAssumption == /\ Reader \subseteq Endpoint
                             /\ Owner \in [Endpoint -> Participant]

VARIABLE image      \* the Snapshot: reporting participant -> its database

-----------------------------------------------------------------------------
(* The containers: a std::set ordered by GUID is a function from the GUIDs *)
(* it holds.                                                               *)

Put(set, key, item) ==
    [k \in DOMAIN set \cup {key} |-> IF k = key THEN item ELSE set[k]]

Erase(set, key) == [k \in DOMAIN set \ {key} |-> set[k]]

\* Fault: upper_bound instead of lower_bound.
FaultyNotBefore(set, key) == {k \in DOMAIN set : key < k}

NotBefore(set, key) == {k \in DOMAIN set : key <= k}

\* std::lower_bound: the least GUID that is not before key.  It is end() when
\* NotBefore(set, key) is empty.
LowerBound(set, key) ==
    CHOOSE k \in NotBefore(set, key) : \A other \in NotBefore(set, key) : k <= other

(***************************************************************************)
(* A ParticipantDiscoveryItem.  One that is not alive is a zombie: its     *)
(* death is known and the removal of some of its endpoints is not.  The    *)
(* liveliness counters are fields of a reader's item, so only a reader     *)
(* that is listed has them.                                                *)
(***************************************************************************)
ParticipantItem ==
    {item \in [alive : BOOLEAN, server : BOOLEAN,
               endpoints : SUBSET Endpoint, lively : SUBSET Reader] :
        item.lively \subseteq item.endpoints}

NewItem(server) ==
    [alive |-> TRUE, server |-> server, endpoints |-> {}, lively |-> {}]

Acknowledged(item, alive) == [item EXCEPT !.alive = alive]

ItemWith(item, e) == [item EXCEPT !.endpoints = @ \cup {e}]

ItemWithout(item, e) == [item EXCEPT !.endpoints = @ \ {e}, !.lively = @ \ {e}]

EmptyDatabase == [p \in {} |-> NewItem(FALSE)]

\* Snapshot::access_snapshot and Snapshot::operator[]: both create the
\* database of a participant that has none.
DatabaseOf(spokesman) ==
    IF spokesman \in DOMAIN image THEN image[spokesman] ELSE EmptyDatabase

-----------------------------------------------------------------------------
(***************************************************************************)
(* AddParticipant: a new entry is alive; a zombie comes back to life with  *)
(* the flag of the new report; a live entry is left as it is.              *)
(***************************************************************************)

\* Fault: a zombie is taken for an entry that needs no update.
FaultyWithParticipant(database, p, server) ==
    IF p \in DOMAIN database THEN database ELSE Put(database, p, NewItem(server))

WithParticipant(database, p, server) ==
    IF p \notin DOMAIN database THEN Put(database, p, NewItem(server))
    ELSE IF database[p].alive THEN database
    ELSE Put(database, p, [database[p] EXCEPT !.alive = TRUE, !.server = server])

AddParticipant(spokesman, p, server) ==
    image' = Put(image, spokesman, WithParticipant(DatabaseOf(spokesman), p, server))

(***************************************************************************)
(* RemoveParticipant(deceased): the whole database of a participant of     *)
(* this process goes when the participant does.                            *)
(***************************************************************************)
RemoveReporter(deceased) == image' = Erase(image, deceased)

(***************************************************************************)
(* RemoveParticipant(spokesman, ptid): an entry that still has endpoints   *)
(* becomes a zombie, any other is erased.  operator[] creates the database *)
(* of spokesman even when there is nothing to remove.                      *)
(***************************************************************************)

\* Fault: the entry is erased with the endpoints it still has.
FaultyWithoutParticipant(database, p) == Erase(database, p)

\* Fault: an entry without endpoints is not erased.
FaultyKeptParticipant(database, p) ==
    IF p \in DOMAIN database /\ database[p].endpoints # {}
    THEN Put(database, p, Acknowledged(database[p], FALSE))
    ELSE database

WithoutParticipant(database, p) ==
    IF p \notin DOMAIN database THEN database
    ELSE IF database[p].endpoints = {} THEN Erase(database, p)
    ELSE Put(database, p, Acknowledged(database[p], FALSE))

RemoveParticipant(spokesman, p) ==
    image' = Put(image, spokesman, WithoutParticipant(DatabaseOf(spokesman), p))

(***************************************************************************)
(* AddEndPoint: the entry that receives the endpoint is emplaced when      *)
(* lower_bound is end() or the endpoint is the spokesman's own, and is     *)
(* whatever lower_bound points at otherwise.  emplace_hint leaves an entry *)
(* that exists alone; an emplaced entry is alive only if it is the         *)
(* spokesman's own.                                                        *)
(***************************************************************************)
EmplacesOwner(database, spokesman, p) ==
    NotBefore(database, p) = {} \/ p = spokesman

Receiver(database, spokesman, p) ==
    IF EmplacesOwner(database, spokesman, p) THEN p ELSE LowerBound(database, p)

EntryOrNew(database, p) ==
    IF p \in DOMAIN database THEN database[p] ELSE NewItem(FALSE)

\* Fault: every emplaced entry is a zombie, the spokesman's own included.
FaultyReceiverItem(database, spokesman, p) ==
    IF EmplacesOwner(database, spokesman, p)
    THEN Acknowledged(EntryOrNew(database, p), FALSE)
    ELSE database[LowerBound(database, p)]

ReceiverItem(database, spokesman, p) ==
    IF EmplacesOwner(database, spokesman, p)
    THEN Acknowledged(EntryOrNew(database, p), p = spokesman)
    ELSE database[LowerBound(database, p)]

WithEndpoint(database, spokesman, e) ==
    Put(database, Receiver(database, spokesman, Owner[e]),
        ItemWith(ReceiverItem(database, spokesman, Owner[e]), e))

AddEndPoint(spokesman, e) ==
    image' = Put(image, spokesman, WithEndpoint(DatabaseOf(spokesman), spokesman, e))

(***************************************************************************)
(* RemoveEndPoint: only a known endpoint of a known participant of a known *)
(* spokesman; a zombie goes with its last endpoint.                        *)
(***************************************************************************)
Holds(spokesman, p, e) ==
    /\ spokesman \in DOMAIN image
    /\ p \in DOMAIN image[spokesman]
    /\ e \in image[spokesman][p].endpoints

\* Fault: the last endpoint leaves its zombie behind.
FaultyWithoutEndpoint(database, p, e) ==
    Put(database, p, ItemWithout(database[p], e))

\* Fault: the liveliness counters outlive the reader.
FaultyWithoutReader(database, p, e) ==
    IF database[p].endpoints = {e} /\ ~database[p].alive
    THEN Erase(database, p)
    ELSE Put(database, p, [database[p] EXCEPT !.endpoints = @ \ {e}])

WithoutEndpoint(database, p, e) ==
    IF ItemWithout(database[p], e).endpoints = {} /\ ~database[p].alive
    THEN Erase(database, p)
    ELSE Put(database, p, ItemWithout(database[p], e))

RemoveEndPoint(spokesman, e) ==
    image' = IF Holds(spokesman, Owner[e], e)
             THEN Put(image, spokesman,
                      WithoutEndpoint(image[spokesman], Owner[e], e))
             ELSE image

(***************************************************************************)
(* UpdateSubLiveliness: the reader reports to the participant it belongs   *)
(* to; a report on a reader that participant does not list is dropped.     *)
(***************************************************************************)
WithLiveliness(database, p, r, matched) ==
    Put(database, p,
        [database[p] EXCEPT !.lively = IF matched THEN @ \cup {r} ELSE @ \ {r}])

UpdateSubLiveliness(r, matched) ==
    LET p == Owner[r]
    IN image' = IF Holds(p, p, r)
                THEN Put(image, p, WithLiveliness(image[p], p, r, matched))
                ELSE image

=============================================================================
