-------------------------- MODULE DiscoveryManager --------------------------
(***************************************************************************)
(* DiscoveryServerManager: the thread that runs the events creates and     *)
(* destroys the participants of this process, while Fast DDS calls the     *)
(* manager back, one call at a time per participant, with what each of     *)
(* them discovers.  The threads meet in management_mutex (the maps) and in *)
(* database_mutex (the discovery database, DiscoveryDatabase).             *)
(*                                                                         *)
(* A block that runs under management_mutex is one step, except the one    *)
(* that calls FindParticipant and goes on to use what it returned after    *)
(* database_mutex was unlocked: locked is TRUE in between.                 *)
(*                                                                         *)
(* Fast DDS is modelled by what the code relies on: a participant calls    *)
(* back from its creation on, even before the manager registers it; it     *)
(* reports everybody but itself, a participant before its endpoints; no    *)
(* callback starts once set_listener(nullptr) was called; and              *)
(* delete_participant waits for the callbacks of the participant.  A lease *)
(* may run out, so anybody may be reported lost at any time, and be        *)
(* discovered again.  A participant of this process is created once.       *)
(***************************************************************************)
EXTENDS DiscoveryDatabase

CONSTANTS Server, Client, Simple    \* the participants of this process

Managed == Server \cup Client \cup Simple

ASSUME ManagedAssumption == /\ Managed \subseteq Participant
                            /\ Server \cap Client = {}
                            /\ Server \cap Simple = {}
                            /\ Client \cap Simple = {}

VARIABLES
    existing,       \* the participants that exist, remote ones included
    listening,      \* those whose listener is the manager
    seen,           \* seen[s]: what Fast DDS has reported to s and not taken back
    pending,        \* participants whose DelayedParticipantCreation is to come
    members,        \* keys of servers, clients and simples
    entityMap,      \* keys of entity_map
    noCallbacks,    \* no_callbacks: onTerminate has begun
    locked,         \* management_mutex is held between two steps
    main,           \* what the event thread is doing, and to whom
    callback,       \* callback[s]: the callback of s that is running
    told,           \* history: what s has told the database and not taken back
    ignored         \* history: the participants a callback of which was ignored

world == <<existing, listening, seen>>
registry == <<pending, members, entityMap, noCallbacks>>
history == <<told, ignored>>
vars == <<image, world, registry, locked, main, callback, history>>

-----------------------------------------------------------------------------
Idle == [stage |-> "idle"]

NothingSeen == [participants |-> {}, endpoints |-> {}]

\* What s has heard of once a report says that who was found or lost.
Heard(known, report) ==
    LET with(set) == IF report.found THEN set \cup {report.who} ELSE set \ {report.who}
    IN IF report.about = "participant"
       THEN [known EXCEPT !.participants = with(@)]
       ELSE [known EXCEPT !.endpoints = with(@)]

Init == /\ image = [s \in {} |-> EmptyDatabase]
        /\ existing = Participant \ Managed
        /\ listening = {}
        /\ seen = [s \in Managed |-> NothingSeen]
        /\ pending = Managed
        /\ members = {}
        /\ entityMap = {}
        /\ noCallbacks = FALSE
        /\ locked = FALSE
        /\ main = Idle
        /\ callback = [s \in Managed |-> Idle]
        /\ told = [s \in Managed |-> NothingSeen]
        /\ ignored = {}

-----------------------------------------------------------------------------
(* The event thread: DelayedParticipantCreation and                        *)
(* DelayedParticipantDestruction.                                          *)

At(step) == main.stage = step

GoTo(step, p) == main' = [stage |-> step, who |-> p]

\* create_participant, with the manager as listener.
CreateParticipant(p) ==
    /\ At("idle") /\ ~noCallbacks
    /\ p \in pending
    /\ pending' = pending \ {p}
    /\ existing' = existing \cup {p}
    /\ listening' = listening \cup {p}
    /\ GoTo("register", p)
    /\ UNCHANGED <<image, seen, members, entityMap, noCallbacks, locked, callback, history>>

\* addServer, addClient or addSimple.
RegisterParticipant ==
    /\ At("register") /\ ~locked
    /\ members' = members \cup {main.who}
    /\ GoTo("inform", main.who)
    /\ UNCHANGED <<image, world, pending, entityMap, noCallbacks, locked, callback, history>>

SetParticipantInfo ==
    /\ At("inform") /\ ~locked
    /\ entityMap' = entityMap \cup {main.who}
    /\ main' = Idle
    /\ UNCHANGED <<image, world, pending, members, noCallbacks, locked, callback, history>>

\* removeParticipant: entity_map keeps the participant.
UnregisterParticipant(p) ==
    /\ At("idle") /\ ~noCallbacks /\ ~locked
    /\ p \in members
    /\ RemoveReporter(p)
    /\ members' = members \ {p}
    /\ told' = [told EXCEPT ![p] = NothingSeen]
    /\ GoTo("detach", p)
    /\ UNCHANGED <<world, pending, entityMap, noCallbacks, locked, callback, ignored>>

\* Fault: deleteParticipant keeps the lock until delete_participant returns.
FaultyDetachParticipant ==
    /\ At("detach") /\ ~locked
    /\ listening' = listening \ {main.who}
    /\ entityMap' = entityMap \ {main.who}
    /\ locked' = TRUE
    /\ GoTo("delete", main.who)
    /\ UNCHANGED <<image, existing, seen, pending, members, noCallbacks, callback, history>>

\* The locked block of deleteParticipant.
DetachParticipant ==
    /\ At("detach") /\ ~locked
    /\ listening' = listening \ {main.who}
    /\ entityMap' = entityMap \ {main.who}
    /\ GoTo("delete", main.who)
    /\ UNCHANGED <<image, existing, seen, pending, members, noCallbacks, locked, callback, history>>

\* delete_participant, outside the lock.
DeleteParticipant ==
    /\ At("delete")
    /\ callback[main.who] = Idle
    /\ existing' = existing \ {main.who}
    /\ main' = Idle
    /\ UNCHANGED <<image, listening, seen, registry, locked, callback, history>>

-----------------------------------------------------------------------------
(***************************************************************************)
(* onTerminate, after the last event.  The maps keep the participants that *)
(* are destroyed here, and nothing is locked meanwhile: no_callbacks keeps *)
(* the callbacks away from the maps.                                       *)
(***************************************************************************)
Remaining == members \cap existing

\* Clients go first, then simples, then servers.
NextToGo == IF Remaining \cap Client # {} THEN Remaining \cap Client
            ELSE IF Remaining \cap Simple # {} THEN Remaining \cap Simple
            ELSE Remaining

StartTermination ==
    /\ At("idle") /\ ~noCallbacks /\ ~locked
    /\ pending = {}
    /\ noCallbacks' = TRUE
    /\ main' = [stage |-> "terminate"]
    /\ UNCHANGED <<image, world, pending, members, entityMap, locked, callback, history>>

\* set_listener(nullptr) and delete_contained_entities, without lock.
TerminateDetach(p) ==
    /\ At("terminate")
    /\ p \in NextToGo
    /\ listening' = listening \ {p}
    /\ GoTo("destroy", p)
    /\ UNCHANGED <<image, existing, seen, registry, locked, callback, history>>

TerminateDelete ==
    /\ At("destroy")
    /\ callback[main.who] = Idle
    /\ existing' = existing \ {main.who}
    /\ main' = [stage |-> "terminate"]
    /\ UNCHANGED <<image, listening, seen, registry, locked, callback, history>>

FinishTermination ==
    /\ At("terminate")
    /\ Remaining = {}
    /\ entityMap' = {}
    /\ main' = [stage |-> "done"]
    /\ UNCHANGED <<image, world, pending, members, noCallbacks, locked, callback, history>>

-----------------------------------------------------------------------------
(* The callbacks.                                                          *)

Report(about, who, found) ==
    [stage |-> "origin", about |-> about, who |-> who, found |-> found,
     server |-> FALSE, items |-> {}]

\* Fast DDS starts a callback of s.
Deliver(s, report) ==
    /\ s \in listening
    /\ callback[s] = Idle
    /\ seen' = [seen EXCEPT ![s] = Heard(@, report)]
    /\ callback' = [callback EXCEPT ![s] = report]
    /\ UNCHANGED <<image, existing, listening, registry, locked, main, history>>

DeliverParticipant(s, p) ==
    \/ /\ p \in existing \ (seen[s].participants \cup {s})
       /\ Deliver(s, Report("participant", p, TRUE))
    \/ /\ p \in seen[s].participants
       /\ Deliver(s, Report("participant", p, FALSE))

DeliverEndpoint(s, e) ==
    \/ /\ e \notin seen[s].endpoints
       /\ Owner[e] \in seen[s].participants \cup {s}
       /\ Deliver(s, Report("endpoint", e, TRUE))
    \/ /\ e \in seen[s].endpoints
       /\ Deliver(s, Report("endpoint", e, FALSE))

\* Fault: the callbacks of every participant are served.
FaultyIsKnown(s) == TRUE

\* getParticipant.
IsKnown(s) == s \in entityMap \cup members

CheckOrigin(s) ==
    /\ callback[s].stage = "origin" /\ ~locked
    /\ IF IsKnown(s)
       THEN /\ callback' = [callback EXCEPT ![s].stage = "update"]
            /\ UNCHANGED ignored
       ELSE /\ callback' = [callback EXCEPT ![s] = Idle]
            /\ ignored' = ignored \cup {s}
    /\ UNCHANGED <<image, world, registry, locked, main, told>>

\* Fault: the maps are searched even after onTerminate has begun.
FaultySearched(keys) == keys

\* "DiscoveryServerManager info still valid".
Searched(keys) == IF noCallbacks THEN {} ELSE keys

\* The participants whose name on_data_reader_discovery and
\* on_data_writer_discovery read through the maps.
Dereferenced(report) ==
    IF report.about = "endpoint" THEN Searched(members) \cap {Owner[report.who]} ELSE {}

\* The block under management_mutex.  An endpoint callback reads the maps, or,
\* once no_callbacks is set, asks the database: the items it gets are those of
\* the databases that list the owner.
UpdateUnderLock(s) ==
    /\ callback[s].stage = "update" /\ ~locked
    /\ \/ /\ callback[s].about = "participant"
          /\ callback' = [callback EXCEPT ![s].stage = "apply",
                              ![s].server = callback[s].who \in Searched(members \cap Server)]
          /\ UNCHANGED locked
       \/ /\ callback[s].about = "endpoint" /\ ~noCallbacks
          /\ callback' = [callback EXCEPT ![s].stage = "apply"]
          /\ UNCHANGED locked
       \/ /\ callback[s].about = "endpoint" /\ noCallbacks
          /\ callback' = [callback EXCEPT ![s].stage = "names",
                              ![s].items = {t \in DOMAIN image :
                                              Owner[callback[s].who] \in DOMAIN image[t]}]
          /\ locked' = TRUE
    /\ UNCHANGED <<image, world, registry, main, history>>

\* Fault: the lock is not released after the names were read.
FaultyReadNames(s) ==
    /\ callback[s].stage = "names"
    /\ callback' = [callback EXCEPT ![s].stage = "apply", ![s].items = {}]
    /\ UNCHANGED <<image, world, registry, locked, main, history>>

\* The loop over the items FindParticipant returned, database_mutex unlocked.
ReadNames(s) ==
    /\ callback[s].stage = "names"
    /\ callback' = [callback EXCEPT ![s].stage = "apply", ![s].items = {}]
    /\ locked' = FALSE
    /\ UNCHANGED <<image, world, registry, main, history>>

\* Fault: a lost participant falls into the default branch of the switch.
FaultyUpdateDatabase(s, report) ==
    CASE report.about = "participant" /\ report.found ->
            AddParticipant(s, report.who, report.server)
      [] report.about = "participant" /\ ~report.found -> UNCHANGED image
      [] report.about = "endpoint" /\ report.found -> AddEndPoint(s, report.who)
      [] OTHER -> RemoveEndPoint(s, report.who)

\* The call of the database, with no lock but its own.
UpdateDatabase(s, report) ==
    CASE report.about = "participant" /\ report.found ->
            AddParticipant(s, report.who, report.server)
      [] report.about = "participant" /\ ~report.found ->
            RemoveParticipant(s, report.who)
      [] report.about = "endpoint" /\ report.found -> AddEndPoint(s, report.who)
      [] OTHER -> RemoveEndPoint(s, report.who)

ApplyReport(s) ==
    /\ callback[s].stage = "apply"
    /\ UpdateDatabase(s, callback[s])
    /\ told' = [told EXCEPT ![s] = Heard(@, callback[s])]
    /\ callback' = [callback EXCEPT ![s] = Idle]
    /\ UNCHANGED <<world, registry, locked, main, ignored>>

\* on_liveliness_changed takes no lock but the database's, and asks nobody
\* whether the participant is known.
LivelinessChanged(r, matched) ==
    /\ Owner[r] \in listening
    /\ UpdateSubLiveliness(r, matched)
    /\ UNCHANGED <<world, registry, locked, main, callback, history>>

-----------------------------------------------------------------------------
EventStep == RegisterParticipant \/ SetParticipantInfo \/ DetachParticipant \/ DeleteParticipant

TerminationStep == \/ \E p \in Managed : TerminateDetach(p)
                   \/ TerminateDelete
                   \/ FinishTermination

CallbackStep(s) == CheckOrigin(s) \/ UpdateUnderLock(s) \/ ReadNames(s) \/ ApplyReport(s)

\* The process goes on to validate, save and exit.
Done == At("done") /\ UNCHANGED vars

Next == \/ \E p \in Managed : CreateParticipant(p) \/ UnregisterParticipant(p)
        \/ EventStep
        \/ StartTermination
        \/ TerminationStep
        \/ \E s \in Managed : \/ \E p \in Participant : DeliverParticipant(s, p)
                              \/ \E e \in Endpoint : DeliverEndpoint(s, e)
                              \/ CallbackStep(s)
        \/ \E r \in Reader, matched \in BOOLEAN : LivelinessChanged(r, matched)
        \/ Done

Spec == Init /\ [][Next]_vars

\* The threads keep running, and one that finds management_mutex free again and
\* again gets it in the end.  Nothing obliges Fast DDS to discover anything, nor
\* an event to be scheduled.
Fairness == /\ WF_vars(EventStep)
            /\ WF_vars(TerminationStep)
            /\ \A s \in Managed : SF_vars(CallbackStep(s))

FairSpec == Spec /\ Fairness

-----------------------------------------------------------------------------
ReportType == [stage : {"origin", "update", "names", "apply"},
               about : {"participant", "endpoint"}, who : Participant \cup Endpoint,
               found : BOOLEAN, server : BOOLEAN, items : SUBSET Managed]

Knowledge == [participants : SUBSET Participant, endpoints : SUBSET Endpoint]

IsDatabase(database) == /\ DOMAIN database \subseteq Participant
                        /\ \A p \in DOMAIN database : database[p] \in ParticipantItem

\* The maps, databases and callbacks are those of participants of this process.
TypeOK ==
    /\ DOMAIN image \subseteq Managed
    /\ \A s \in DOMAIN image : IsDatabase(image[s])
    /\ existing \subseteq Participant
    /\ listening \cup pending \cup members \cup entityMap \cup ignored \subseteq Managed
    /\ noCallbacks \in BOOLEAN /\ locked \in BOOLEAN
    /\ main \in [stage : {"idle", "terminate", "done"}]
                    \cup [stage : {"register", "inform", "detach", "delete", "destroy"},
                          who : Managed]
    /\ callback \in [Managed -> ReportType \cup {Idle}]
    /\ seen \in [Managed -> Knowledge] /\ told \in [Managed -> Knowledge]

Unregistered(s) == s \in pending \/ (At("register") /\ main.who = s)

\* The participants DelayedParticipantDestruction has begun to remove.
Removed(s) == ~Unregistered(s) /\ s \notin members

\* getParticipant keeps the callbacks of a participant that is not registered
\* yet out of the database, whatever they race with.
OnlyRegisteredReport == \A s \in DOMAIN image : ~Unregistered(s)

\* No callback follows a pointer of the maps to a participant that was deleted:
\* removeParticipant takes it out of the maps before it is deleted, and once
\* onTerminate deletes those that stay there, no_callbacks is set.
SafeDereference ==
    \A s \in Managed : callback[s].stage = "update" => Dereferenced(callback[s]) \subseteq existing

\* While no callback of a registered participant runs, and none was ever
\* ignored, its database says what Fast DDS told it: the living participants and,
\* under their owners, the endpoints.  No interleaving of the callbacks with the
\* event thread or with onTerminate loses, repeats or misfiles a report.
SettledDatabasesMatch ==
    \A s \in members \ ignored : callback[s] = Idle =>
        LET database == DatabaseOf(s)
        IN /\ {p \in DOMAIN database \ {s} : database[p].alive} = seen[s].participants
           /\ \A p \in DOMAIN database :
                  database[p].endpoints = {e \in seen[s].endpoints : Owner[e] = p}
           /\ {Owner[e] : e \in seen[s].endpoints} \subseteq DOMAIN database

\* AddParticipant's assert(it->is_server == server): an entry that is alive is
\* never reported again with another flag, even though the flag of a participant
\* changes when it is registered, removed or when onTerminate begins.
AssertedServerFlag ==
    [][\A s \in Managed :
          (ApplyReport(s) /\ callback[s].about = "participant" /\ callback[s].found)
              => image'[s][callback[s].who].server = callback[s].server]_vars

\* The history variables of DiscoveryReports.
knownParticipants == {known \in Managed \X Participant :
                          known[2] \in told[known[1]].participants}
knownEndpoints == {known \in Managed \X Endpoint :
                       known[2] \in told[known[1]].endpoints}

Abstract == INSTANCE DiscoveryReports WITH Reporter <- Managed

\* Seen from the database, the threads of the manager are reports in some order:
\* each callback is one atomic report, and removeParticipant is one too.
ImplementsReports == Abstract!AnyOrderSpec

\* The event thread never waits forever: not for management_mutex, and not for
\* the callbacks of a participant it destroys, which need that mutex.
EventThreadProceeds == ~At("idle") ~> (At("idle") \/ At("done"))

\* No callback waits forever for management_mutex.
CallbacksReturn == \A s \in Managed : callback[s] # Idle ~> callback[s] = Idle

-----------------------------------------------------------------------------
(* What the comments of the code say, and the code does not do.            *)

\* "if the callback origin was removed ignore": a removed participant has no
\* database.  The origin is checked before the database is updated, and in
\* entity_map, where a participant stays while removeParticipant returns.
RemovedHaveNoDatabase == \A s \in DOMAIN image : ~Removed(s)

\* "if the callback origin was removed ignore": the callbacks of a participant
\* that was created and is not registered yet are ignored as well.
IgnoredOnlyIfRemoved == [][\A s \in ignored' \ ignored : Removed(s)]_vars

\* "Lifetime of the return objects is not guaranteed": the items are read only
\* while they are in the database.
ItemsOutliveTheLoop ==
    \A s \in Managed : callback[s].stage = "names" =>
        \A t \in callback[s].items :
            t \in DOMAIN image /\ Owner[callback[s].who] \in DOMAIN image[t]

\* "is_server; // false -> client": a server of this process is listed as one.
\* A server that is discovered before addServer was called, or once no_callbacks
\* is set, is listed as a client.
ServersAreFlagged ==
    \A s \in DOMAIN image : \A p \in DOMAIN image[s] \cap Server :
        image[s][p].alive => image[s][p].server

=============================================================================
