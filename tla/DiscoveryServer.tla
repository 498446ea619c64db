-------------------------- MODULE DiscoveryServer --------------------------
(***************************************************************************)
(* The tool: main and the manager it creates.  The manager reads a         *)
(* configuration, creating participants and endpoints or scheduling their  *)
(* events; runs the events; validates the snapshots; terminates; and saves *)
(* the snapshots.  A file saved may be given to a second process, which    *)
(* validates it.                                                           *)
(*                                                                         *)
(* Left out: locators, transports and ports, which decide who can reach    *)
(* whom; the changes of the environment file, which Fast DDS reads; the    *)
(* discovery of endpoints (see DiscoveryManager).                          *)
(***************************************************************************)
EXTENDS ScheduledEvents

CONSTANTS
    Configurations,     \* the configurations the tool is started with
    Shots,              \* sequences of snapshots a file may come from
    Clocks,             \* what the clocks may show at startup
    MaxProcesses        \* bound: processes started one after the other

(***************************************************************************)
(* A configuration, its elements in the order they are loaded.             *)
(*    root        "snapshots" for a snapshot file                          *)
(*    auto        whether the process ends by itself (no user_shutdown)    *)
(*    validation  prefix_validation                                        *)
(*    file        whether the snapshots element names an output file       *)
(*    option      whether the command line does                            *)
(*    unset       an environment element, and no FASTDDS_ENVIRONMENT_FILE  *)
(*    textless    an environment change with a time and a key, and no text *)
(***************************************************************************)
Configuration ==
    [root : {"config", "snapshots", "other"}, auto : BOOLEAN, validation : BOOLEAN,
     participants : Seq(ParticipantElement), snapshots : Seq(SnapshotElement),
     file : BOOLEAN, option : BOOLEAN, unset : BOOLEAN, textless : BOOLEAN]

ASSUME ConfigurationsAssumption == Configurations \subseteq Configuration

\* The id of an endpoint element stands for its place in the configuration.
ASSUME IdsAssumption ==
    \A c \in Configurations : \A i, j \in DOMAIN c.participants :
        \A k \in DOMAIN c.participants[i].endpoints, l \in DOMAIN c.participants[j].endpoints :
            c.participants[i].endpoints[k].id = c.participants[j].endpoints[l].id => i = j /\ k = l

ASSUME ShotsAssumption == \A shots \in Shots : \A i \in DOMAIN shots : IsShot(shots[i])

ASSUME ClocksAssumption == Clocks \subseteq [steady : Int, system : Int]

VARIABLES
    config,             \* the configuration read
    phase,              \* how far main is
    todo,               \* the elements the constructor has not loaded
    created,            \* correctly_created_
    validate,           \* validate_
    code,               \* the exit code
    file,               \* the snapshot file on disk
    saved,              \* history: the snapshots it was saved from
    processes           \* how many processes have been started

mainVars == <<config, phase, todo, created, validate, code, file, saved, processes>>

serverVars == <<entities, events, done, now, image, snapshots, heard, clock, crashed, mainVars>>

-----------------------------------------------------------------------------
FileConfiguration(option) ==
    [root |-> "snapshots", auto |-> TRUE, validation |-> TRUE, participants |-> <<>>,
     snapshots |-> <<>>, file |-> FALSE, option |-> option, unset |-> FALSE,
     textless |-> FALSE]

Init == /\ \/ config \in Configurations /\ saved = <<>> /\ file = <<>>
           \/ \E writer \in Clocks, option \in BOOLEAN :
                 /\ config = FileConfiguration(option)
                 /\ saved \in Shots
                 /\ file = saveSnapshots(saved, writer)
        /\ clock \in Clocks
        /\ heard = clock.steady
        /\ phase = "start" /\ todo = <<>> /\ created = FALSE /\ validate = FALSE
        /\ code = 0 /\ processes = 1 /\ crashed = FALSE
        /\ events = <<>> /\ done = {} /\ now = 0 /\ snapshots = <<>>
        /\ members = [g \in {} |-> "server"] /\ entityMap = [g \in {} |-> NoInfo]
        /\ listed = {} /\ endpoints = [e \in {} |-> 0]
        /\ existing = [g \in {} |-> [topics |-> {}, used |-> {}]]
        /\ image = [p \in {} |-> EmptyDatabase]

Steps(what, elements) ==
    [i \in DOMAIN elements |-> [what |-> what, element |-> elements[i]]]

HasServers == \E i \in DOMAIN config.participants : config.participants[i].kind = "server"

\* MapServerInfo, for every server before any is loaded: a string is made of a null
\* profile name.
MapServerInfoFails ==
    \E i \in DOMAIN config.participants :
        config.participants[i].kind = "server" /\ config.participants[i].profile = "none"

\* The constructor up to the elements: it returns early for a snapshot file, for
\* any other file, and when nobody but the user would end a process without servers.
ReadFile ==
    /\ phase = "start"
    /\ IF config.root = "config" /\ (HasServers \/ config.auto)
       THEN /\ phase' = "load"
            /\ todo' = Steps("participant", config.participants)
                          \o Steps("snapshot", config.snapshots)
            /\ crashed' = MapServerInfoFails
       ELSE phase' = "run" /\ UNCHANGED <<todo, crashed>>
    /\ snapshots' = IF config.root = "snapshots" THEN loadSnapshots(file, clock) ELSE snapshots
    /\ validate' = (config.root # "other")
    /\ UNCHANGED <<entities, events, done, now, image, heard, clock,
                   config, created, code, file, saved, processes>>

-----------------------------------------------------------------------------
\* Fault: the prefix of the profile is not looked at.
FaultyConfiguredGuid(element) == Unknown

ConfiguredGuid(element) == IF element.fixed THEN element.guid ELSE Unknown

RemovalEvents(element) ==
    IF element.removal = 0 THEN <<>>
    ELSE <<DestroyParticipantEvent(Second * element.removal, ConfiguredGuid(element))>>

EndpointSteps(element, g, owner) ==
    [i \in DOMAIN element.endpoints |->
        [what |-> "endpoint", element |-> element.endpoints[i], guid |-> g, owner |-> owner]]

Skip == todo' = Tail(todo) /\ UNCHANGED <<entities, events, image, snapshots, crashed>>

Fail == todo' = Tail(todo) /\ Crash

\* Two servers that both join late may share a prefix: only servers that exist
\* are looked at.
SharesPrefix(element) ==
    /\ config.validation
    /\ ConfiguredGuid(element) \in DOMAIN members
    /\ members[ConfiguredGuid(element)] = "server"

(***************************************************************************)
(* loadServer: the profile must be that of a server, which is asserted.    *)
(* The removal is not linked to the creation, and the endpoints get the    *)
(* configured GUID and no creation event.                                  *)
(***************************************************************************)
loadServer(element) ==
    /\ element.kind = "server"
    /\ IF element.profile \in {"none", "unknown"} \/ SharesPrefix(element) THEN Skip
       ELSE IF element.profile = "other" THEN Fail
       ELSE /\ todo' = EndpointSteps(element, ConfiguredGuid(element), 0) \o Tail(todo)
            /\ IF element.creation = 0
               THEN CreateParticipant(element, events \o RemovalEvents(element), 0)
               ELSE /\ events' = events
                          \o <<CreateParticipantEvent(Second * element.creation, element, 0)>>
                          \o RemovalEvents(element)
                    /\ UNCHANGED <<entities, image, snapshots, crashed>>

(***************************************************************************)
(* loadClient and loadSimple: the removal is linked to the creation.  The  *)
(* endpoints get the GUID of a participant that was created, and the       *)
(* configured GUID and the creation event of one that joins late.  An      *)
(* exception ends the process when std::stol cannot read the listening     *)
(* port of a client.                                                       *)
(***************************************************************************)
LoadLinked(element) ==
    LET list == events \o RemovalEvents(element)
        removal == IF element.removal = 0 THEN 0 ELSE Len(list)
    IN IF ~Usable(element) THEN Skip
       ELSE IF element.kind = "client" /\ ~element.port THEN Fail
       ELSE IF element.creation = 0
       THEN /\ CreateParticipant(element, list, removal)
            /\ todo' = EndpointSteps(element, element.guid, 0) \o Tail(todo)
       ELSE /\ events' = Append(list,
                  CreateParticipantEvent(Second * element.creation, element, removal))
            /\ todo' = EndpointSteps(element, ConfiguredGuid(element), Len(list) + 1)
                          \o Tail(todo)
            /\ UNCHANGED <<entities, image, snapshots, crashed>>

loadClient(element) == element.kind = "client" /\ LoadLinked(element)

loadSimple(element) == element.kind = "simple" /\ LoadLinked(element)

\* An endpoint is created right after its participant unless it says otherwise.
EndpointCreation(element, owner) ==
    IF element.creation # {} THEN Second * (CHOOSE t \in element.creation : TRUE)
    ELSE IF owner # 0 THEN events[owner].time + 1
    ELSE 0

\* Without a topic a string is made of null.
LoadEndpoint(step) ==
    LET element == step.element
        list == IF element.removal = 0 THEN events
                ELSE Append(events, DestroyEndpointEvent(Second * element.removal))
        removal == IF element.removal = 0 THEN 0 ELSE Len(list)
        creation == EndpointCreation(element, step.owner)
    IN /\ todo' = Tail(todo)
       /\ \/ element.topic = {} /\ Crash
          \/ /\ element.topic # {} /\ creation = 0
             /\ CreateEndpoint(element, step.guid, step.owner, list, removal)
          \/ /\ element.topic # {} /\ creation # 0
             /\ events' = Append(list,
                   CreateEndpointEvent(creation, element, step.guid, removal, step.owner))
             /\ UNCHANGED <<entities, image, snapshots, crashed>>

loadPublisher(step) == ~step.element.reader /\ LoadEndpoint(step)

loadSubscriber(step) == step.element.reader /\ LoadEndpoint(step)

loadSnapshot(element) ==
    \/ element.time = {} /\ Skip
    \/ element.time # {} /\ ~element.described /\ Fail
    \/ /\ element.time # {} /\ element.described
       /\ todo' = Tail(todo)
       /\ \E t \in element.time : events' = Append(events, SnapshotEvent(Second * t, element))
       /\ UNCHANGED <<entities, image, snapshots, crashed>>

LoadElement ==
    /\ phase = "load" /\ todo # <<>>
    /\ LET step == Head(todo)
       IN \/ /\ step.what = "participant"
             /\ \/ loadServer(step.element)
                \/ loadClient(step.element)
                \/ loadSimple(step.element)
          \/ step.what = "endpoint" /\ (loadPublisher(step) \/ loadSubscriber(step))
          \/ step.what = "snapshot" /\ loadSnapshot(step.element)
    /\ UNCHANGED <<done, now, heard, clock, config, phase, created, validate, code,
                   file, saved, processes>>

\* The end of the constructor: the changes of the environment are read, and a string
\* is made of the text of each.
Loaded ==
    /\ phase = "load" /\ todo = <<>>
    /\ phase' = "run"
    /\ created' = ~config.unset
    /\ validate' = ~config.file
    /\ crashed' = (~config.unset /\ config.textless)
    /\ UNCHANGED <<entities, events, done, now, image, snapshots, heard, clock,
                   config, todo, code, file, saved, processes>>

-----------------------------------------------------------------------------
\* The loop of runEvents.
RunEvents == /\ phase = "run"
             /\ \E i \in Pending : RunEvent(i)
             /\ UNCHANGED mainVars

\* Fault: the loop ends with the events that are due.
FaultyAllRun == phase = "run" /\ \A i \in Pending : events[i].time > now

AllRun == phase = "run" /\ Pending = {}

\* "press any key to quit"
UserShutdown == /\ AllRun /\ ~config.auto
                /\ phase' = "key"
                /\ UNCHANGED <<entities, events, done, now, image, snapshots, heard, clock,
                               crashed, config, todo, created, validate, code, file, saved,
                               processes>>

shouldValidate == validate /\ snapshots # <<>>

validateAllSnapshots == \A i \in DOMAIN snapshots : allKnowEachOther(snapshots[i])

Conclude == /\ phase' = "validated"
            /\ code' = IF shouldValidate /\ ~validateAllSnapshots THEN -1
                       ELSE IF created THEN 0 ELSE 1
            /\ UNCHANGED <<entities, events, done, now, image, snapshots, heard, clock, crashed,
                           config, todo, created, validate, file, saved, processes>>

Validate == AllRun /\ config.auto /\ Conclude

KeyPressed == phase = "key" /\ Conclude

\* Fault: servers are not deleted.
FaultyRemaining == {g \in DOMAIN members : members[g] # "server"}

Remaining == DOMAIN members

\* onTerminate: every participant the maps know is deleted; the maps of
\* participants are not cleared.
Terminate ==
    /\ phase = "validated"
    /\ phase' = "terminated"
    /\ existing' = [g \in DOMAIN existing \ Remaining |-> existing[g]]
    /\ endpoints' = [e \in {e \in DOMAIN endpoints : Owner[e] \notin Remaining} |-> endpoints[e]]
    /\ entityMap' = [g \in {} |-> NoInfo]
    /\ listed' = {} /\ events' = <<>> /\ done' = {}
    /\ UNCHANGED <<members, now, image, snapshots, heard, clock, crashed, config, todo, created,
                   validate, code, file, saved, processes>>

\* The destructor saves the snapshots if there is an output file.
Exit ==
    /\ phase = "terminated"
    /\ phase' = "exited"
    /\ IF config.file \/ config.option
       THEN file' = saveSnapshots(snapshots, clock) /\ saved' = snapshots
       ELSE UNCHANGED <<file, saved>>
    /\ UNCHANGED <<entities, events, done, now, image, snapshots, heard, clock, crashed,
                   config, todo, created, validate, code, processes>>

-----------------------------------------------------------------------------
(***************************************************************************)
(* Callbacks of Fast DDS until the manager terminates, as far as snapshots *)
(* see them: participants that exist are discovered, others lost.          *)
(***************************************************************************)
Knows(s, p) == p \in DOMAIN DatabaseOf(s) /\ DatabaseOf(s)[p].alive

on_participant_discovery(s, p) ==
    /\ phase \in {"load", "run", "key"}
    /\ \/ /\ p \in DOMAIN existing /\ ~Knows(s, p)
          /\ AddParticipant(s, p, members[p] = "server")
       \/ /\ p \notin DOMAIN existing /\ Knows(s, p)
          /\ RemoveParticipant(s, p)
    /\ heard' = clock.steady + now
    /\ UNCHANGED <<entities, events, done, now, snapshots, clock, crashed, mainVars>>

\* The tool is started again, to validate the file that was saved.
StartAgain ==
    /\ phase = "exited" /\ processes < MaxProcesses /\ file # <<>>
    /\ processes' = processes + 1
    /\ \E option \in BOOLEAN : config' = FileConfiguration(option)
    /\ clock' \in Clocks
    /\ heard' = clock'.steady
    /\ phase' = "start" /\ created' = FALSE /\ validate' = FALSE
    /\ code' = 0 /\ now' = 0 /\ snapshots' = <<>>
    /\ members' = [g \in {} |-> "server"]
    /\ existing' = [g \in {} |-> [topics |-> {}, used |-> {}]]
    /\ endpoints' = [e \in {} |-> 0]
    /\ image' = [p \in {} |-> EmptyDatabase]
    /\ UNCHANGED <<entityMap, listed, events, done, crashed, todo, file, saved>>

Main == /\ ~crashed
        /\ \/ ReadFile \/ LoadElement \/ Loaded \/ RunEvents
           \/ UserShutdown \/ Validate \/ Terminate \/ Exit

Next == \/ Main
        \/ ~crashed /\ KeyPressed
        \/ ~crashed /\ \E s \in DOMAIN existing, p \in Participant :
                           s # p /\ on_participant_discovery(s, p)
        \/ StartAgain

Spec == Init /\ [][Next]_serverVars

\* main is not delayed for ever; the user need not press a key.
FairSpec == Spec /\ WF_serverVars(Main)

-----------------------------------------------------------------------------
Live == phase \in {"start", "load", "run", "key", "validated"}

\* The maps of the manager and Fast DDS agree on who exists: getParticipant finds
\* every registered participant whatever entries operator[] has put in entity_map,
\* and nobody else.
RegisteredAreFound ==
    Live => /\ DOMAIN members = DOMAIN existing
            /\ \A g \in Participant \cup {Unknown} : Found(entityMap, g) <=> g \in DOMAIN existing

\* data_readers and data_writers hold the endpoints that exist: a destruction event
\* never follows a pointer to an endpoint that went with its participant, and no
\* endpoint is forgotten.
ListedAreTheEndpoints == Live => listed = DOMAIN endpoints

\* The topics registered for a participant are those it has: create_topic is never
\* asked for one that exists, which would fail and the endpoint with it.
TopicsAreRegistered ==
    Live => \A g \in DOMAIN existing : entityMap[g].topics = existing[g].topics

\* onTerminate leaves nothing of Fast DDS behind.
NothingIsLeft == phase \in {"terminated", "exited"} => DOMAIN existing = {} /\ DOMAIN endpoints = {}

-----------------------------------------------------------------------------
(* The schedule.                                                           *)

Elements == {config.participants[i] : i \in DOMAIN config.participants}

EndpointsOf(element) == {element.endpoints[i] : i \in DOMAIN element.endpoints}

\* Between events, when all that are due have run.
Quiet == phase = "run" /\ ~crashed /\ \A i \in Pending : events[i].time > now

Within(from, to) == Second * from <= now /\ (to = 0 \/ now < Second * to)

\* A participant whose schedule makes sense: nobody else has its prefix, it leaves
\* after it joins, and a server that leaves has a configured prefix.
WellPlanned(element) ==
    /\ Usable(element)
    /\ element.removal = 0 \/ element.creation < element.removal
    /\ element.kind = "server" /\ element.removal # 0 => element.fixed
    /\ \A i, j \in DOMAIN config.participants :
          config.participants[i].guid = element.guid /\ config.participants[j].guid = element.guid
             => i = j

\* runEvents, the creation and destruction events and the link between them: a
\* participant is registered from its creation time to its removal time.
ScheduleIsFollowed ==
    config.root = "config" /\ created /\ Quiet =>
        \A element \in Elements : WellPlanned(element) =>
            (element.guid \in DOMAIN members <=> Within(element.creation, element.removal))

\* Created with its participant or at a later time of its own, and in time.
PlannedEndpoint(element, endpoint) ==
    /\ endpoint.usable
    /\ endpoint.creation # {} \/ element.creation = 0 \/ element.kind # "server"
    /\ \A t \in endpoint.creation :
          /\ element.creation < t \/ element.creation = 0
          /\ element.removal # 0 => t < element.removal
          /\ endpoint.removal # 0 => t < endpoint.removal
    /\ endpoint.removal # 0 => element.creation < endpoint.removal

KnownBeforehand(element) ==
    element.fixed \/ (element.creation = 0 /\ element.kind # "server")

EndpointStarted(element, endpoint) ==
    IF endpoint.creation # {} THEN \A t \in endpoint.creation : Second * t <= now
    ELSE IF element.creation # 0 THEN Second * element.creation < now
    ELSE TRUE

\* The endpoint events, which learn from others which participant and which endpoint
\* they are about: an endpoint of a participant with a configured prefix, or of one
\* that is created at once, exists from its creation until its removal or that of
\* its participant.
EndpointsFollowSchedule ==
    config.root = "config" /\ created /\ Quiet =>
        \A element \in Elements : WellPlanned(element) /\ KnownBeforehand(element) =>
            \A endpoint \in EndpointsOf(element) : PlannedEndpoint(element, endpoint) =>
                ( (\E e \in DOMAIN endpoints : endpoints[e] = endpoint.id)
                  <=> /\ EndpointStarted(element, endpoint)
                      /\ Within(element.creation, element.removal)
                      /\ endpoint.removal = 0 \/ now < Second * endpoint.removal )

\* "Once the participant is created we create the associated endpoints": the event
\* that creates an endpoint after its late participant does so.
LateEndpointsAreCreated ==
    \A i \in done :
        /\ events[i].what = "createEndpoint"
        /\ events[i].element.usable /\ events[i].element.removal = 0
        /\ OwnerGuid(events[i].owner) \in DOMAIN members
        => \E e \in DOMAIN endpoints : endpoints[e] = events[i].element.id

\* The second of two servers with one prefix is noticed, because the first is there
\* when it is loaded.
Noticed(first, second) ==
    /\ config.validation
    /\ first.kind = "server" /\ first.creation = 0
    /\ second.kind = "server" /\ second.fixed

PrefixesApart ==
    \A i, j \in DOMAIN config.participants :
        i < j /\ config.participants[i].guid = config.participants[j].guid =>
            Noticed(config.participants[i], config.participants[j])

\* Servers name a profile that is not for others, listening ports are numbers,
\* endpoints have topics, late participants with endpoints have prefixes, and
\* snapshots and changes of the environment have texts.
WellDescribed ==
    /\ \A element \in Elements :
          /\ element.kind = "server" => element.profile \in {"unknown", "good"}
          /\ element.kind = "client" => element.port
          /\ \A endpoint \in EndpointsOf(element) : endpoint.topic # {}
          /\ element.creation # 0 /\ element.endpoints # <<>> => element.fixed
    /\ \A i \in DOMAIN config.snapshots : config.snapshots[i].described
    /\ config.textless => config.unset

WellFormed == WellDescribed /\ PrefixesApart

\* The constructor and the events: a configuration that is well described, and uses a
\* prefix twice only where loadServer notices, is read and run without a null pointer,
\* an assert or an exception that ends the process, whatever elements are skipped and
\* whatever the order of events.
WellFormedRunsDoNotCrash == WellFormed => ~crashed

-----------------------------------------------------------------------------
(* Success, and snapshot files.                                            *)

\* Exit code 0 is only for a configuration that was read to its end, whose
\* snapshots were all taken and, unless the configuration wants them in a file, are
\* all valid.  A snapshot file never gets it.
SuccessMeansChecked ==
    phase = "exited" /\ code = 0 =>
        /\ config.root = "config" /\ ~config.unset
        /\ Len(snapshots) =
              Cardinality({i \in DOMAIN config.snapshots : config.snapshots[i].time # {}})
        /\ config.file \/ validateAllSnapshots

ReadBack == config.root = "snapshots" /\ phase # "start"

\* Validation after the fact, by another process, says of each snapshot what the
\* process that took it would have said.
SameVerdictFromFile ==
    ReadBack => /\ DOMAIN snapshots = DOMAIN saved
                /\ \A i \in DOMAIN snapshots :
                      allKnowEachOther(snapshots[i]) = allKnowEachOther(saved[i])

Forgotten(entry) ==
    [entry EXCEPT !.counts =
        [r \in DOMAIN entry.counts |-> [entry.counts[r] EXCEPT !.not_alive = 0]]]

\* What is left of the snapshot in a file: no database has a name, and no writer was
\* lost.
Remembered(element) ==
    [element EXCEPT
        !.named = {},
        !.databases = [p \in DOMAIN element.databases |->
            [q \in DOMAIN element.databases[p] |-> Forgotten(element.databases[p][q])]]]

\* from_xml and to_xml: saving what was loaded writes times, entries, endpoints and the
\* counters of living writers as they were, whatever the clocks of the two processes; the
\* names of the databases and the counters of lost writers are gone, and nothing else.
SavedAgainAlike ==
    ReadBack =>
        \A i \in DOMAIN snapshots :
            to_xml(snapshots[i], clock) = Remembered(file[i])

\* "retrieve liveliness values if any": what a file says of the liveliness of a
\* reader is known after loading it.
LivelinessIsRetrieved ==
    ReadBack => \A i \in DOMAIN snapshots :
                    to_xml(snapshots[i], clock).databases = file[i].databases

\* The schedule comes to an end: a process that is not waiting for its user exits.
EveryRunEnds == phase = "start" ~> (crashed \/ phase \in {"key", "exited"})

=============================================================================
