-------------------------- MODULE ScheduledEvents --------------------------
(***************************************************************************)
(* The events of a run (LateJoiner): participants and endpoints created    *)
(* and destroyed, and snapshots taken, at their times, and the maps of the *)
(* manager they read and write.                                            *)
(*                                                                         *)
(* A configuration element is a record: see EndpointElement and            *)
(* ParticipantElement.                                                     *)
(*                                                                         *)
(* The two endpoint maps data_readers and data_writers are one here, and   *)
(* so are the two instances of each endpoint template.  A participant is   *)
(* created and registered in one step: what callbacks do in between is the *)
(* subject of DiscoveryManager.                                            *)
(***************************************************************************)
EXTENDS SnapshotFiles, Sequences

CONSTANTS
    Topic,
    Second          \* ticks of the clock in a second

Unknown == 0        \* GUID_t::unknown()

ASSUME SecondAssumption == Second \in Nat \ {0, 1}

ASSUME UnknownAssumption == Unknown \notin Participant \cup Endpoint

VARIABLES
    events,         \* the event list; links between events are positions in it
    done,           \* those that ran
    now,            \* the time of the last one
    members,        \* servers, clients and simples: GUID -> kind
    entityMap,      \* entity_map: GUID -> [valid, topics]
    listed,         \* data_readers and data_writers
    existing,       \* Fast DDS: its participants, GUID -> [topics, used]
    endpoints,      \* Fast DDS: its endpoints, GUID -> id of the element
    snapshots,      \* the snapshots taken
    heard,          \* when the last discovery callback ran
    clock,          \* what the clocks showed at the startup of the process
    crashed         \* whether a null pointer, an exception or a failed assert has ended
                    \* the process

entities == <<members, entityMap, listed, existing, endpoints>>

-----------------------------------------------------------------------------
(***************************************************************************)
(* What the elements of a configuration say.  A removal, and the creation  *)
(* of a participant, is 0 when its attribute is absent.  guid is the GUID  *)
(* Fast DDS gives the participant, fixed whether its prefix is configured, *)
(* so that guid is known beforehand.  topic is the default topic when the  *)
(* attribute names no known profile.                                       *)
(*    profile     "none" if the element names none; "unknown" if it names  *)
(*                one nobody knows, or if the prefix of a server or the    *)
(*                listening port of a client is not of the right form;     *)
(*                "other" if it is for another discovery protocol          *)
(*    port        whether std::stol can read the listening port of a       *)
(*                client, if there is one: the form has an optional number *)
(***************************************************************************)

\* An attribute that may be absent.
Optional(S) == {given \in SUBSET S : \A a, b \in given : a = b}

EndpointElement ==
    [id : Nat, reader : BOOLEAN, usable : BOOLEAN, creation : Optional(Nat), removal : Nat,
     topic : Optional(Topic)]

ParticipantElement ==
    [kind : {"server", "client", "simple"}, guid : Participant, fixed : BOOLEAN,
     profile : {"none", "unknown", "other", "good"}, port : BOOLEAN, creation : Nat,
     removal : Nat, endpoints : Seq(EndpointElement)]

\* A simple participant needs no profile.
Usable(element) ==
    element.profile = "good" \/ (element.kind = "simple" /\ element.profile = "none")

\* described: whether the snapshot has a text.
SnapshotElement ==
    [time : Optional(Nat), described : BOOLEAN, someone : BOOLEAN, liveliness : BOOLEAN]

-----------------------------------------------------------------------------
(* The maps of the manager.                                                *)

NoInfo == [valid |-> FALSE, topics |-> {}]

\* entity_map[g]: creates an entry of null pointers where there is none.
Indexed(g) == IF g \in DOMAIN entityMap THEN entityMap ELSE Put(entityMap, g, NoInfo)

\* Fault: emplace leaves the entry that is there alone.
FaultyWithInfo(g) ==
    IF g \in DOMAIN entityMap THEN entityMap
    ELSE Put(entityMap, g, [valid |-> TRUE, topics |-> {}])

\* setParticipantInfo
WithInfo(g) == Put(entityMap, g, [valid |-> TRUE, topics |-> {}])

\* getParticipant: an entry of entity_map hides the other maps.
Found(map, g) == IF g \in DOMAIN map THEN map[g].valid ELSE g \in DOMAIN members

\* Fault: topics are created and not recorded.
FaultyWithTopic(map, g, topic) == map

\* setParticipantTopic
WithTopic(map, g, topic) == [map EXCEPT ![g].topics = @ \cup topic]

\* Fault: the endpoints of a removed participant stay in the maps.
FaultyListedWithout(g) == listed

ListedWithout(g) == {e \in listed : Owner[e] # g}

\* addDataReader and addDataWriter; removeSubscriber and removePublisher
ListedWith(e) == listed \cup {e}

Unlisted(e) == listed \ {e}

\* deleteDataReader and deleteDataWriter: only through the entry of the participant.
CanDelete(e) == Indexed(Owner[e])[Owner[e]].valid

-----------------------------------------------------------------------------
(* The events, and what they tell each other.                              *)

CreateParticipantEvent(time, element, removal) ==
    [what |-> "create", time |-> time, element |-> element, removal |-> removal,
     guid |-> Unknown]

DestroyParticipantEvent(time, g) == [what |-> "destroy", time |-> time, guid |-> g]

CreateEndpointEvent(time, element, g, removal, owner) ==
    [what |-> "createEndpoint", time |-> time, element |-> element, guid |-> g,
     removal |-> removal, owner |-> owner]

DestroyEndpointEvent(time) ==
    [what |-> "destroyEndpoint", time |-> time, guid |-> Unknown]

SnapshotEvent(time, element) ==
    [what |-> "snapshot", time |-> time, element |-> element]

\* Fault: the removal event is not told which participant was created.
FaultyParticipantTold(list, removal, g) == list

\* DelayedParticipantDestruction::SetGuid
ParticipantTold(list, removal, g) ==
    IF removal = 0 THEN list ELSE [list EXCEPT ![removal].guid = g]

\* Fault: the removal event is not told which endpoint was created.
FaultyEndpointTold(list, removal, e) == list

\* DelayedEndpointDestruction::SetGuid, which takes the first GUID only.
EndpointTold(list, removal, e) ==
    IF removal = 0 \/ list[removal].guid # Unknown THEN list
    ELSE [list EXCEPT ![removal].guid = e]

OwnerGuid(owner) == IF owner = 0 THEN Unknown ELSE events[owner].guid

-----------------------------------------------------------------------------
Crash == crashed' = TRUE /\ UNCHANGED <<entities, events, image, snapshots>>

(***************************************************************************)
(* DelayedParticipantCreation.  A second participant with a GUID that      *)
(* exists ends the process: Fast DDS refuses it, and the null pointer is   *)
(* used before it is tested, or creates it, and the assert of addServer,   *)
(* addClient or addSimple fails.  list is the event list the creation      *)
(* leaves, but for the GUIDs it tells.                                     *)
(***************************************************************************)
CreateParticipant(element, list, removal) ==
    \/ element.guid \in DOMAIN existing /\ Crash
    \/ /\ element.guid \notin DOMAIN existing
       /\ existing' = Put(existing, element.guid, [topics |-> {}, used |-> {}])
       /\ members' = Put(members, element.guid, element.kind)
       /\ entityMap' = WithInfo(element.guid)
       /\ events' = ParticipantTold(list, removal, element.guid)
       /\ UNCHANGED <<listed, endpoints, image, snapshots, crashed>>

\* removeParticipant, whoever it is asked for, and deleteParticipant if there is
\* such a participant.
DestroyParticipant(g) ==
    /\ RemoveReporter(g)
    /\ listed' = ListedWithout(g)
    /\ IF g \in DOMAIN members
       THEN /\ members' = Erase(members, g)
            /\ entityMap' = Erase(entityMap, g)
            /\ existing' = Erase(existing, g)
            /\ endpoints' = [e \in {e \in DOMAIN endpoints : Owner[e] # g} |-> endpoints[e]]
       ELSE UNCHANGED <<members, entityMap, existing, endpoints>>
    /\ UNCHANGED <<events, snapshots, crashed>>

\* The GUIDs Fast DDS may give the next endpoint: it numbers those of a
\* participant, readers and writers apart.
Fresh(g, element) ==
    {e \in Endpoint : /\ Owner[e] = g
                      /\ e \in Reader <=> element.reader
                      /\ e \notin existing[g].used}

(***************************************************************************)
(* DelayedEndpointCreation.  The participant is looked up under the GUID   *)
(* of the event, then under that of the participant its owner event made;  *)
(* publisher and subscriber only under the former.                         *)
(***************************************************************************)
NoParticipant(g, owner) == ~Found(entityMap, g) /\ ~Found(Indexed(g), OwnerGuid(owner))

\* create_topic returns null for a topic that exists.
HasTopic(g, topic) ==
    topic \subseteq entityMap[g].topics \/ topic \cap existing[g].topics = {}

\* LateJoinerDataTraits::createEndpoint returns null when Fast DDS does.
EndpointMade(g, element) == HasTopic(g, element.topic) /\ element.usable

CreateEndpoint(element, g, owner, list, removal) ==
    \/ /\ NoParticipant(g, owner)
       /\ entityMap' = Indexed(g)
       /\ events' = list
       /\ UNCHANGED <<members, listed, existing, endpoints, image, snapshots, crashed>>
    \/ ~NoParticipant(g, owner) /\ ~Indexed(g)[g].valid /\ Crash
    \/ /\ ~NoParticipant(g, owner) /\ Indexed(g)[g].valid
       /\ entityMap' = IF HasTopic(g, element.topic) THEN WithTopic(entityMap, g, element.topic)
                                                     ELSE entityMap
       /\ IF EndpointMade(g, element)
          THEN \E e \in Fresh(g, element) :
                  /\ existing' = [existing EXCEPT ![g].topics = @ \cup element.topic,
                                                  ![g].used = @ \cup {e}]
                  /\ endpoints' = Put(endpoints, e, element.id)
                  /\ listed' = ListedWith(e)
                  /\ events' = EndpointTold(list, removal, e)
          ELSE /\ existing' = IF HasTopic(g, element.topic)
                              THEN [existing EXCEPT ![g].topics = @ \cup element.topic]
                              ELSE existing
               /\ events' = list
               /\ UNCHANGED <<endpoints, listed>>
       /\ UNCHANGED <<members, image, snapshots, crashed>>

\* DelayedEndpointDestruction: only an endpoint the maps list is deleted, by its
\* participant's publisher or subscriber.
DestroyEndpoint(e) ==
    /\ IF e \in listed
       THEN /\ listed' = Unlisted(e)
            /\ entityMap' = Indexed(Owner[e])
            /\ endpoints' = IF CanDelete(e) THEN Erase(endpoints, e) ELSE endpoints
       ELSE UNCHANGED <<listed, entityMap, endpoints>>
    /\ UNCHANGED <<members, existing, events, image, snapshots, crashed>>

(***************************************************************************)
(* DelayedSnapshot, at the time the event is due.  The database keeps no   *)
(* discovery times, so that of every entry is the startup of the process.  *)
(* Callbacks name the databases they fill; those takeSnapshot adds have no *)
(* name.                                                                   *)
(***************************************************************************)
Recorded(item) ==
    [alive |-> item.alive, server |-> item.server, endpoints |-> item.endpoints,
     discovered |-> clock.steady,
     counts |-> [r \in item.endpoints \cap Reader |->
                    [NotCounted EXCEPT !.alive = IF r \in item.lively THEN 1 ELSE 0]]]

TakeSnapshot(time, element) ==
    /\ snapshots' = Append(snapshots,
           [time |-> clock.steady + time, startup |-> clock.steady, callback |-> heard,
            if_someone |-> element.someone, show_liveliness |-> element.liveliness,
            named |-> DOMAIN image,
            databases |-> [p \in DOMAIN Completed(DOMAIN members) |->
                              [q \in DOMAIN DatabaseOf(p) |-> Recorded(DatabaseOf(p)[q])]]])
    /\ UNCHANGED <<entities, events, image, crashed>>

-----------------------------------------------------------------------------
Pending == DOMAIN events \ done

\* Fault: an event that is due at the time of the last one has been missed.
FaultyDue(i) == /\ \A j \in Pending : events[i].time <= events[j].time
                /\ events[i].time > now

\* The next event: std::sort leaves those of one time in any order.
Due(i) == \A j \in Pending : events[i].time <= events[j].time

Execute(i, event) ==
    \/ /\ event.what = "create"
       /\ CreateParticipant(event.element, [events EXCEPT ![i].guid = event.element.guid],
                            event.removal)
    \/ event.what = "destroy" /\ DestroyParticipant(event.guid)
    \/ /\ event.what = "createEndpoint"
       /\ CreateEndpoint(event.element, event.guid, event.owner, events, event.removal)
    \/ event.what = "destroyEndpoint" /\ DestroyEndpoint(event.guid)
    \/ event.what = "snapshot" /\ TakeSnapshot(event.time, event.element)

RunEvent(i) == /\ Due(i)
               /\ Execute(i, events[i])
               /\ done' = done \cup {i}
               /\ now' = events[i].time
               /\ UNCHANGED <<heard, clock>>

=============================================================================
