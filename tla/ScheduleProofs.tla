--------------------------- MODULE ScheduleProofs ---------------------------
(***************************************************************************)
(* The schedule, for every configuration: what the event list holds, and   *)
(* what running it comes to.                                               *)
(*                                                                         *)
(* The list only grows while the configuration is loaded, and afterwards   *)
(* only the GUIDs change that events tell each other.  Kept says so of two *)
(* lists, and what follows is told of a list by what it keeps of the one   *)
(* before.                                                                 *)
(***************************************************************************)
EXTENDS DiscoveryServerProofs, SequenceTheorems

-----------------------------------------------------------------------------
(* The event list.                                                         *)

Guid == Participant \cup {Unknown}

Creations == [what : {"create"}, time : Nat, element : ParticipantElement, removal : Nat,
              guid : Guid]

Destructions == [what : {"destroy"}, time : Nat, guid : Guid]

EndpointCreations == [what : {"createEndpoint"}, time : Nat, element : EndpointElement,
                      guid : Guid, removal : Nat, owner : Nat]

EndpointDestructions == [what : {"destroyEndpoint"}, time : Nat,
                         guid : Endpoint \cup {Unknown}]

SnapshotsDue == [what : {"snapshot"}, time : Nat, element : SnapshotElement]

Event == Creations \cup Destructions \cup EndpointCreations \cup EndpointDestructions
            \cup SnapshotsDue

\* The event an event is linked to is in the list, and of the kind it should be.
LinkedIn(list, event) ==
    /\ event.what = "create" /\ event.removal # 0 =>
          event.removal \in DOMAIN list /\ list[event.removal].what = "destroy"
    /\ event.what = "createEndpoint" /\ event.removal # 0 =>
          event.removal \in DOMAIN list /\ list[event.removal].what = "destroyEndpoint"
    /\ event.what = "createEndpoint" /\ event.owner # 0 =>
          event.owner \in DOMAIN list /\ list[event.owner].what = "create"

IsList(list) == list \in Seq(Event) /\ \A i \in DOMAIN list : LinkedIn(list, list[i])

\* Two events that differ in the GUID they have been told, if in anything.
SameEvent(event, later) ==
    /\ later.what = event.what
    /\ later.time = event.time
    /\ event.what \in {"create", "createEndpoint", "snapshot"} => later.element = event.element
    /\ event.what \in {"create", "createEndpoint"} => later.removal = event.removal
    /\ event.what = "createEndpoint" => later.owner = event.owner /\ later.guid = event.guid

Kept(list, later) ==
    /\ IsList(later)
    /\ Len(list) <= Len(later)
    /\ \A i \in DOMAIN list : i \in DOMAIN later /\ SameEvent(list[i], later[i])

\* An event says by its kind what else it says.
LEMMA EventKinds ==
    ASSUME NEW event \in Event
    PROVE  /\ event.time \in Nat
           /\ event.what = "create" => event \in Creations
           /\ event.what = "destroy" => event \in Destructions
           /\ event.what = "createEndpoint" => event \in EndpointCreations
           /\ event.what = "destroyEndpoint" => event \in EndpointDestructions
           /\ event.what = "snapshot" => event \in SnapshotsDue
           /\ event.what \in {"create", "destroy", "createEndpoint", "destroyEndpoint", "snapshot"}
BY DEF Event, Creations, Destructions, EndpointCreations, EndpointDestructions, SnapshotsDue

\* A list keeps itself.
LEMMA KeptSame ==
    ASSUME NEW list, IsList(list)
    PROVE  Kept(list, list)
<1>1. Len(list) \in Nat
  BY DEF IsList
<1> QED BY <1>1 DEF Kept, SameEvent

\* What a list keeps of a list that kept a third is kept of that.
LEMMA KeptTransitive ==
    ASSUME NEW list, NEW between, NEW later, IsList(list), Kept(list, between), Kept(between, later)
    PROVE  Kept(list, later)
<1>1. Len(list) <= Len(later)
  <2>1. Len(list) \in Nat /\ Len(between) \in Nat /\ Len(later) \in Nat
    BY DEF Kept, IsList
  <2> QED BY <2>1 DEF Kept
<1>2. ASSUME NEW i \in DOMAIN list PROVE i \in DOMAIN later /\ SameEvent(list[i], later[i])
  <2>1. i \in DOMAIN between /\ SameEvent(list[i], between[i])
    BY DEF Kept
  <2>2. i \in DOMAIN later /\ SameEvent(between[i], later[i])
    BY <2>1 DEF Kept
  <2> QED BY <2>1, <2>2 DEF SameEvent
<1> QED BY <1>1, <1>2 DEF Kept

\* Links survive whatever keeps the list.
LEMMA LinkedInKept ==
    ASSUME NEW list, NEW later, NEW event, LinkedIn(list, event),
           \A i \in DOMAIN list : i \in DOMAIN later /\ later[i].what = list[i].what
    PROVE  LinkedIn(later, event)
BY DEF LinkedIn

\* push_back of an event that is linked to events of the list.
LEMMA AppendKept ==
    ASSUME NEW list, IsList(list), NEW event \in Event, LinkedIn(list, event)
    PROVE  /\ Kept(list, Append(list, event))
           /\ Len(Append(list, event)) = Len(list) + 1
           /\ Append(list, event)[Len(list) + 1] = event
           /\ \A i \in DOMAIN list : Append(list, event)[i] = list[i]
           /\ DOMAIN Append(list, event) = DOMAIN list \cup {Len(list) + 1}
           /\ Len(list) + 1 \notin DOMAIN list
<1> DEFINE new == Append(list, event)
<1>1. list \in Seq(Event) /\ Len(list) \in Nat /\ DOMAIN list = 1 .. Len(list)
  BY DEF IsList
<1>2. /\ new \in Seq(Event)
      /\ Len(new) = Len(list) + 1
      /\ new[Len(list) + 1] = event
      /\ \A i \in DOMAIN list : new[i] = list[i]
      /\ DOMAIN new = 1 .. Len(list) + 1
  BY <1>1
<1> HIDE DEF new
<1>3. DOMAIN new = DOMAIN list \cup {Len(list) + 1} /\ Len(list) + 1 \notin DOMAIN list
  BY <1>1, <1>2
<1>4. \A i \in DOMAIN list : i \in DOMAIN new /\ SameEvent(list[i], new[i])
  BY <1>2, <1>3 DEF SameEvent
<1>5. ASSUME NEW i \in DOMAIN new PROVE LinkedIn(new, new[i])
  <2>1. LinkedIn(list, new[i])
    BY <1>2, <1>3 DEF IsList
  <2> QED BY <1>4, <2>1, LinkedInKept DEF SameEvent
<1>6. Kept(list, new)
  BY <1>1, <1>2, <1>4, <1>5 DEF Kept, IsList
<1> QED BY <1>2, <1>3, <1>6 DEF new

\* SetGuid, of a kind of event that has it.
LEMMA ToldKept ==
    ASSUME NEW list, IsList(list), NEW i \in DOMAIN list, NEW g,
           \/ list[i].what \in {"create", "destroy"} /\ g \in Guid
           \/ list[i].what = "destroyEndpoint" /\ g \in Endpoint \cup {Unknown}
    PROVE  LET new == [list EXCEPT ![i].guid = g]
           IN /\ Kept(list, new)
              /\ Len(new) = Len(list) /\ DOMAIN new = DOMAIN list
              /\ new[i].guid = g
              /\ \A j \in DOMAIN list : j # i => new[j] = list[j]
<1> DEFINE event == [list[i] EXCEPT !.guid = g]
           new == [list EXCEPT ![i].guid = g]
<1>1. list \in Seq(Event) /\ Len(list) \in Nat /\ DOMAIN list = 1 .. Len(list)
  BY DEF IsList
<1>2. list[i] \in Event
  BY <1>1
<1>3. event \in Event /\ event.guid = g /\ SameEvent(list[i], event)
  <2>1. CASE list[i].what = "create" /\ g \in Guid
    <3>1. list[i] \in Creations
      BY <1>2, <2>1, EventKinds
    <3> QED BY <2>1, <3>1 DEF Creations, Event, SameEvent
  <2>2. CASE list[i].what = "destroy" /\ g \in Guid
    <3>1. list[i] \in Destructions
      BY <1>2, <2>2, EventKinds
    <3> QED BY <2>2, <3>1 DEF Destructions, Event, SameEvent
  <2>3. CASE list[i].what = "destroyEndpoint" /\ g \in Endpoint \cup {Unknown}
    <3>1. list[i] \in EndpointDestructions
      BY <1>2, <2>3, EventKinds
    <3> QED BY <2>3, <3>1 DEF EndpointDestructions, Event, SameEvent
  <2> QED BY <2>1, <2>2, <2>3
<1>4. new = [list EXCEPT ![i] = event]
  OBVIOUS
<1> HIDE DEF event
<1>5. /\ new \in Seq(Event) /\ Len(new) = Len(list) /\ DOMAIN new = DOMAIN list
      /\ new[i] = event /\ \A j \in DOMAIN list : j # i => new[j] = list[j]
  BY <1>1, <1>3, <1>4, ExceptSeq
<1> HIDE DEF new
<1>6. \A j \in DOMAIN list : SameEvent(list[j], new[j])
  BY <1>3, <1>5 DEF SameEvent
<1>7. ASSUME NEW j \in DOMAIN new PROVE LinkedIn(new, new[j])
  <2>1. LinkedIn(list, list[j])
    BY <1>5 DEF IsList
  <2>2. LinkedIn(new, list[j])
    BY <1>5, <1>6, <2>1, LinkedInKept DEF SameEvent
  <2>3. SameEvent(list[j], new[j])
    BY <1>5, <1>6
  <2> QED BY <2>2, <2>3 DEF LinkedIn, SameEvent
<1>8. Kept(list, new)
  BY <1>1, <1>5, <1>6, <1>7 DEF Kept, IsList
<1> QED BY <1>3, <1>5, <1>8 DEF new

-----------------------------------------------------------------------------
(* What is left to load.                                                   *)

ParticipantSteps == [what : {"participant"}, element : ParticipantElement]

EndpointsToLoad == [what : {"endpoint"}, element : EndpointElement, guid : Guid, owner : Nat]

SnapshotSteps == [what : {"snapshot"}, element : SnapshotElement]

Step == ParticipantSteps \cup EndpointsToLoad \cup SnapshotSteps

\* A late participant's endpoints know the event that creates it.
OwnedIn(list, step) ==
    step.what = "endpoint" /\ step.owner # 0 =>
        step.owner \in DOMAIN list /\ list[step.owner].what = "create"

\* A step says by its kind what else it says.
LEMMA StepKinds ==
    ASSUME NEW step \in Step
    PROVE  /\ step.what = "participant" => step \in ParticipantSteps
           /\ step.what = "endpoint" => step \in EndpointsToLoad
           /\ step.what = "snapshot" => step \in SnapshotSteps
           /\ step.what \in {"participant", "endpoint", "snapshot"}
BY DEF Step, ParticipantSteps, EndpointsToLoad, SnapshotSteps

\* The first step is replaced by others, and the rest moves.
Moved(list, first, new) ==
    /\ Len(new) = Len(first) + Len(list) - 1
    /\ \A i \in DOMAIN new :
          \/ i \in DOMAIN first /\ new[i] = first[i]
          \/ i - Len(first) + 1 \in DOMAIN list \ {1} /\ new[i] = list[i - Len(first) + 1]
    /\ \A i \in DOMAIN list \ {1} : /\ i + Len(first) - 1 \in DOMAIN new
                                    /\ new[i + Len(first) - 1] = list[i]

\* A list whose first step is replaced by others.
LEMMA RestFacts ==
    ASSUME NEW S, NEW list \in Seq(S), list # <<>>, NEW first \in Seq(S)
    PROVE  first \o Tail(list) \in Seq(S) /\ Moved(list, first, first \o Tail(list))
<1> DEFINE tail == Tail(list)
           new == first \o tail
<1>1. /\ tail \in Seq(S) /\ Len(tail) = Len(list) - 1 /\ Len(list) \in Nat \ {0}
      /\ \A i \in 1 .. Len(tail) : tail[i] = list[i + 1]
      /\ DOMAIN list = 1 .. Len(list)
  OBVIOUS
<1> HIDE DEF tail
<1>2. /\ new \in Seq(S) /\ Len(new) = Len(first) + Len(tail)
      /\ DOMAIN new = 1 .. Len(new) /\ DOMAIN first = 1 .. Len(first) /\ Len(first) \in Nat
      /\ \A i \in 1 .. Len(new) :
            new[i] = IF i <= Len(first) THEN first[i] ELSE tail[i - Len(first)]
  <2>1. /\ new \in Seq(S) /\ Len(new) = Len(first) + Len(tail)
        /\ \A i \in 1 .. Len(first) + Len(tail) :
              new[i] = IF i <= Len(first) THEN first[i] ELSE tail[i - Len(first)]
    BY <1>1, ConcatProperties, Zenon
  <2> HIDE DEF new
  <2> QED BY <2>1
<1> HIDE DEF new
<1>3. ASSUME NEW i \in DOMAIN new
      PROVE  \/ i \in DOMAIN first /\ new[i] = first[i]
             \/ /\ i - Len(first) + 1 \in DOMAIN list \ {1}
                /\ new[i] = list[i - Len(first) + 1]
  <2>1. i \in Nat /\ i \in 1 .. Len(new)
    BY <1>2
  <2>2. CASE i <= Len(first)
    BY <1>2, <2>1, <2>2
  <2>3. CASE ~(i <= Len(first))
    <3>1. i - Len(first) \in 1 .. Len(tail) /\ i - Len(first) + 1 \in 2 .. Len(list)
      BY <1>1, <1>2, <2>1, <2>3
    <3>2. new[i] = tail[i - Len(first)]
      BY <1>2, <2>1, <2>3
    <3>3. tail[i - Len(first)] = list[i - Len(first) + 1]
      BY <1>1, <3>1
    <3>4. i - Len(first) + 1 \in DOMAIN list \ {1}
      BY <1>1, <3>1
    <3> QED BY <3>2, <3>3, <3>4
  <2> QED BY <2>2, <2>3
<1>4. ASSUME NEW i \in DOMAIN list \ {1}
      PROVE  i + Len(first) - 1 \in DOMAIN new /\ new[i + Len(first) - 1] = list[i]
  <2>1. i \in 2 .. Len(list) /\ i - 1 \in 1 .. Len(tail) /\ i + Len(first) - 1 \in 1 .. Len(new)
    BY <1>1, <1>2
  <2>2. new[i + Len(first) - 1] = tail[(i + Len(first) - 1) - Len(first)]
    BY <1>2, <2>1
  <2>3. (i + Len(first) - 1) - Len(first) = i - 1 /\ (i - 1) + 1 = i
    BY <1>2, <2>1
  <2> QED BY <1>1, <1>2, <2>1, <2>2, <2>3
<1>5. Moved(list, first, new)
  BY <1>1, <1>2, <1>3, <1>4 DEF Moved
<1> QED BY <1>2, <1>5 DEF new, tail

\* The same when nothing takes the place of the first step.
LEMMA TailFacts ==
    ASSUME NEW S, NEW list \in Seq(S), list # <<>>
    PROVE  Tail(list) \in Seq(S) /\ Moved(list, <<>>, Tail(list))
<1>1. Tail(list) \in Seq(S) /\ <<>> \in Seq(S)
  OBVIOUS
<1>2. <<>> \o Tail(list) = Tail(list)
  BY <1>1, ConcatEmptySeq
<1> QED BY <1>1, <1>2, RestFacts

-----------------------------------------------------------------------------
(* How the list changes.                                                   *)

\* DelayedParticipantDestruction::SetGuid changes the linked removal alone.
LEMMA ParticipantToldKept ==
    ASSUME NEW list, IsList(list), NEW removal, NEW g \in Guid,
           removal # 0 => removal \in DOMAIN list /\ list[removal].what = "destroy"
    PROVE  LET new == ParticipantTold(list, removal, g)
           IN /\ Kept(list, new)
              /\ Len(new) = Len(list) /\ DOMAIN new = DOMAIN list
              /\ removal # 0 => new[removal].guid = g
              /\ \A j \in DOMAIN list : j # removal => new[j] = list[j]
<1>1. CASE removal = 0
  BY <1>1, KeptSame DEF ParticipantTold
<1>2. CASE removal # 0
  BY <1>2, ToldKept DEF ParticipantTold
<1> QED BY <1>1, <1>2

\* DelayedEndpointDestruction::SetGuid, once.
LEMMA EndpointToldKept ==
    ASSUME NEW list, IsList(list), NEW removal, NEW e \in Endpoint,
           removal # 0 => removal \in DOMAIN list /\ list[removal].what = "destroyEndpoint"
    PROVE  LET new == EndpointTold(list, removal, e)
           IN /\ Kept(list, new)
              /\ Len(new) = Len(list) /\ DOMAIN new = DOMAIN list
              /\ removal # 0 /\ list[removal].guid = Unknown => new[removal].guid = e
              /\ removal # 0 /\ list[removal].guid # Unknown => new = list
              /\ \A j \in DOMAIN list : j # removal => new[j] = list[j]
<1>1. CASE removal = 0 \/ list[removal].guid # Unknown
  BY <1>1, KeptSame DEF EndpointTold
<1>2. CASE removal # 0 /\ list[removal].guid = Unknown
  BY <1>2, ToldKept DEF EndpointTold
<1> QED BY <1>1, <1>2

\* The removal of a participant is put at the end of the list.
LEMMA RemovalKept ==
    ASSUME NEW list, IsList(list), NEW element \in ParticipantElement
    PROVE  LET new == list \o RemovalEvents(element)
           IN /\ Kept(list, new)
              /\ element.removal = 0 => new = list
              /\ element.removal # 0 =>
                    /\ Len(new) = Len(list) + 1
                    /\ DOMAIN new = DOMAIN list \cup {Len(new)}
                    /\ Len(new) \notin DOMAIN list
                    /\ new[Len(new)] = DestroyParticipantEvent(Second * element.removal,
                                                               ConfiguredGuid(element))
              /\ \A i \in DOMAIN list : new[i] = list[i]
<1> DEFINE event == DestroyParticipantEvent(Second * element.removal, ConfiguredGuid(element))
<1>1. list \in Seq(Event)
  BY DEF IsList
<1>2. CASE element.removal = 0
  <2>1. list \o RemovalEvents(element) = list
    BY <1>1, <1>2, ConcatEmptySeq DEF RemovalEvents
  <2> QED BY <1>2, <2>1, KeptSame
<1>3. CASE element.removal # 0
  <2>1. Second * element.removal \in Nat /\ ConfiguredGuid(element) \in Guid
    <3>1. element.removal \in Nat /\ element.guid \in Participant
      BY DEF ParticipantElement
    <3> QED BY <3>1, SecondAssumption DEF ConfiguredGuid, Guid
  <2>2. event \in Event /\ LinkedIn(list, event)
    BY <2>1 DEF Event, Destructions, DestroyParticipantEvent, LinkedIn
  <2>3. list \o RemovalEvents(element) = Append(list, event)
    BY <1>1, <1>3, <2>2, AppendIsConcat DEF RemovalEvents
  <2> HIDE DEF event
  <2>4. Len(list) + 1 = Len(Append(list, event))
    BY <2>2, AppendKept
  <2> QED BY <1>3, <2>2, <2>3, <2>4, AppendKept DEF event
<1> QED BY <1>2, <1>3

-----------------------------------------------------------------------------
(***************************************************************************)
(* Of what kind the events, the elements left to load and what they are    *)
(* about are, and how far things are in every phase.                       *)
(***************************************************************************)
Typed ==
    /\ config \in Configuration
    /\ IsList(events)
    /\ todo \in Seq(Step)
    /\ \A i \in DOMAIN todo : OwnedIn(events, todo[i])
    /\ done \subseteq DOMAIN events
    /\ now \in Nat
    /\ DOMAIN existing \subseteq Participant

InPhase ==
    /\ phase # "load" => todo = <<>>
    /\ phase \in {"start", "load"} => done = {} /\ now = 0 /\ snapshots = <<>> /\ created = FALSE
    /\ phase = "load" => config.root = "config"
    /\ phase = "start" => DOMAIN existing = {}
    /\ phase = "start" \/ Over \/ config.root # "config" => events = <<>>
    /\ created \in BOOLEAN
    /\ created = TRUE => config.root = "config" /\ ~config.unset
    /\ crashed \in BOOLEAN
    /\ crashed = TRUE => phase \in {"load", "run"}

\* What a participant's element adds to the list: a creation at c if it joins late
\* and a removal at d if it leaves, 0 standing for neither.
Arranged(list, later, element, c, d) ==
    /\ Kept(list, later)
    /\ \A i \in DOMAIN list : later[i] = list[i]
    /\ c = 0 <=> element.creation = 0
    /\ d = 0 <=> element.removal = 0
    /\ c # 0 => /\ c \in DOMAIN later \ DOMAIN list
                /\ later[c] = CreateParticipantEvent(Second * element.creation, element,
                                                     IF element.kind = "server" THEN 0 ELSE d)
    /\ d # 0 => /\ d \in DOMAIN later \ DOMAIN list
                /\ later[d] = DestroyParticipantEvent(Second * element.removal,
                                  IF element.kind # "server" /\ c = 0 THEN element.guid
                                  ELSE ConfiguredGuid(element))
    /\ \A i \in DOMAIN later \ DOMAIN list : i = c \/ i = d

\* The steps that take its place: a client's or simple's endpoints know its GUID if it
\* is created at once and its creation event if it is not.
Followed(element, c, first) ==
    first = EndpointSteps(element,
                          IF element.kind # "server" /\ c = 0 THEN element.guid
                          ELSE ConfiguredGuid(element),
                          IF element.kind = "server" THEN 0 ELSE c)

Joins(element) ==
    /\ element.guid \notin DOMAIN existing
    /\ existing' = Put(existing, element.guid, [topics |-> {}, used |-> {}])
    /\ members' = Put(members, element.guid, element.kind)
    /\ entityMap' = WithInfo(element.guid)
    /\ UNCHANGED <<listed, endpoints, image, snapshots, crashed>>

Arrives(element) == IF element.creation = 0 THEN Joins(element)
                    ELSE UNCHANGED <<entities, image, snapshots, crashed>>

\* What the constructor does with a server, a client or a simple participant.
PassedOver(element) ==
    /\ Skip
    /\ ~Usable(element) \/ (element.kind = "server" /\ SharesPrefix(element))

Unfit(element) == \/ element.kind = "server" /\ element.profile = "other"
                  \/ element.kind = "client" /\ ~element.port

Refused(element) ==
    /\ \/ Unfit(element) /\ todo' = Tail(todo)
       \/ Usable(element) /\ element.creation = 0 /\ element.guid \in DOMAIN existing
    /\ ~(element.kind = "server" /\ SharesPrefix(element))
    /\ crashed' = TRUE /\ UNCHANGED <<entities, events, image, snapshots>>

Accepted(element) ==
    /\ Usable(element) /\ Arrives(element)
    /\ \E c, d \in Nat, first \in Seq(EndpointsToLoad) :
          /\ Arranged(events, events', element, c, d)
          /\ Followed(element, c, first)
          /\ todo' = first \o Tail(todo)

\* The creation event is put at the end of the list.
LEMMA CreationKept ==
    ASSUME NEW list, IsList(list), NEW element \in ParticipantElement, NEW removal \in Nat,
           removal # 0 => removal \in DOMAIN list /\ list[removal].what = "destroy"
    PROVE  LET event == CreateParticipantEvent(Second * element.creation, element, removal)
           IN /\ event \in Event /\ LinkedIn(list, event)
              /\ Append(list, event) = list \o <<event>>
<1> DEFINE event == CreateParticipantEvent(Second * element.creation, element, removal)
<1>1. Second * element.creation \in Nat
  <2>1. element.creation \in Nat
    BY DEF ParticipantElement
  <2> QED BY <2>1, SecondAssumption
<1>2. event \in Event
  BY <1>1 DEF CreateParticipantEvent, Event, Creations, Guid
<1>3. LinkedIn(list, event)
  BY DEF LinkedIn, CreateParticipantEvent
<1> HIDE DEF event
<1>4. Append(list, event) = list \o <<event>>
  BY <1>2, AppendIsConcat DEF IsList
<1> QED BY <1>2, <1>3, <1>4 DEF event

\* The endpoints of a participant, as steps.
LEMMA EndpointStepsTyped ==
    ASSUME NEW element \in ParticipantElement, NEW g \in Guid, NEW owner \in Nat
    PROVE  EndpointSteps(element, g, owner) \in Seq(EndpointsToLoad)
<1> DEFINE n == Len(element.endpoints)
           steps == EndpointSteps(element, g, owner)
<1>1. element.endpoints \in Seq(EndpointElement)
  BY DEF ParticipantElement
<1>2. n \in Nat /\ DOMAIN element.endpoints = 1 .. n
  BY <1>1
<1>3. \A i \in 1 .. n : element.endpoints[i] \in EndpointElement
  BY <1>1
<1> HIDE DEF n
<1>4. steps \in [1 .. n -> EndpointsToLoad]
  BY <1>2, <1>3 DEF EndpointSteps, EndpointsToLoad
<1> HIDE DEF steps
<1>5. steps \in Seq(EndpointsToLoad)
  BY <1>2, <1>4, SeqDef
<1> QED BY <1>5 DEF steps

\* What has to be found for an element to be accepted.
LEMMA Accepts ==
    ASSUME NEW element, NEW c \in Nat, NEW d \in Nat, NEW first \in Seq(EndpointsToLoad),
           Usable(element), Arrives(element), Followed(element, c, first),
           Arranged(events, events', element, c, d), todo' = first \o Tail(todo)
    PROVE  Accepted(element)
BY DEF Accepted

\* loadServer, loadClient and loadSimple have one of three outcomes.
LEMMA LoadParticipant ==
    ASSUME Typed, NEW element \in ParticipantElement,
           loadServer(element) \/ loadClient(element) \/ loadSimple(element)
    PROVE  PassedOver(element) \/ Refused(element) \/ Accepted(element)
<1> DEFINE removed == events \o RemovalEvents(element)
           d == IF element.removal = 0 THEN 0 ELSE Len(removed)
<1>1. /\ element.guid \in Guid /\ ConfiguredGuid(element) \in Guid
      /\ element.kind \in {"server", "client", "simple"}
      /\ element.creation \in Nat /\ element.removal \in Nat
      /\ element.profile \in {"none", "unknown", "other", "good"}
  BY DEF ParticipantElement, Guid, ConfiguredGuid
<1>2. IsList(events) /\ Len(events) \in Nat /\ DOMAIN events = 1 .. Len(events)
  BY DEF Typed, IsList
<1>3. /\ Kept(events, removed)
      /\ element.removal = 0 => removed = events
      /\ element.removal # 0 =>
            /\ d = Len(events) + 1
            /\ DOMAIN removed = DOMAIN events \cup {d} /\ d \notin DOMAIN events
            /\ removed[d] = DestroyParticipantEvent(Second * element.removal,
                                                    ConfiguredGuid(element))
      /\ \A i \in DOMAIN events : removed[i] = events[i]
  BY <1>2, RemovalKept
<1>4. IsList(removed) /\ d \in Nat /\ (d = 0 <=> element.removal = 0)
  <2> HIDE DEF removed
  <2>1. CASE element.removal = 0
    BY <1>3, <2>1 DEF Kept
  <2>2. CASE element.removal # 0
    BY <1>2, <1>3, <2>2 DEF Kept
  <2> QED BY <2>1, <2>2
<1>5. d # 0 => d \in DOMAIN removed /\ removed[d].what = "destroy"
  BY <1>3, <1>4 DEF DestroyParticipantEvent
<1>6. ASSUME element.kind # "server", LoadLinked(element)
      PROVE  PassedOver(element) \/ Refused(element) \/ Accepted(element)
  <2>1. CASE ~Usable(element)
    BY <1>6, <2>1 DEF LoadLinked, PassedOver
  <2>4. CASE Usable(element) /\ Unfit(element)
    <3>1. Fail
      BY <1>6, <2>4 DEF LoadLinked, Unfit
    <3> QED BY <1>6, <2>4, <3>1 DEF Fail, Crash, Refused
  <2>2. CASE Usable(element) /\ ~Unfit(element) /\ element.creation = 0
    <3>1. /\ CreateParticipant(element, removed, d)
          /\ todo' = EndpointSteps(element, element.guid, 0) \o Tail(todo)
      BY <1>6, <2>2 DEF LoadLinked, Unfit
    <3>2. CASE element.guid \in DOMAIN existing
      BY <1>6, <2>2, <3>1, <3>2 DEF CreateParticipant, Crash, Refused
    <3>3. CASE element.guid \notin DOMAIN existing
      <4> DEFINE later == ParticipantTold(removed, d, element.guid)
      <4>1. events' = later /\ Arrives(element)
        BY <2>2, <3>1, <3>3 DEF CreateParticipant, Crash, Arrives, Joins
      <4>2. /\ Kept(removed, later) /\ DOMAIN later = DOMAIN removed
            /\ d # 0 => later[d].guid = element.guid
            /\ \A j \in DOMAIN removed : j # d => later[j] = removed[j]
        <5> HIDE DEF removed, d
        <5> QED BY <1>1, <1>4, <1>5, ParticipantToldKept
      <4>3. Kept(events, later)
        BY <1>2, <1>3, <4>2, KeptTransitive
      <4>4. d # 0 => later[d] = DestroyParticipantEvent(Second * element.removal, element.guid)
        <5> SUFFICES ASSUME d # 0
                     PROVE  later[d] = DestroyParticipantEvent(Second * element.removal, element.guid)
          OBVIOUS
        <5>1. later = [removed EXCEPT ![d].guid = element.guid] /\ d \in DOMAIN removed
          BY <1>5 DEF ParticipantTold
        <5>2. later[d] = [removed[d] EXCEPT !.guid = element.guid]
          BY <5>1
        <5> QED BY <1>3, <1>4, <5>2 DEF DestroyParticipantEvent
      <4> HIDE DEF later, removed, d
      <4>5. Arranged(events, later, element, 0, d)
        BY <1>3, <1>4, <2>2, <4>2, <4>3, <4>4, <1>6 DEF Arranged
      <4>6. Followed(element, 0, EndpointSteps(element, element.guid, 0))
        BY <1>6 DEF Followed
      <4>7. EndpointSteps(element, element.guid, 0) \in Seq(EndpointsToLoad)
        BY <1>1, EndpointStepsTyped
      <4>8. Arranged(events, events', element, 0, d)
        BY <4>1, <4>5
      <4> DEFINE first == EndpointSteps(element, element.guid, 0)
      <4>9. /\ first \in Seq(EndpointsToLoad) /\ Followed(element, 0, first)
            /\ todo' = first \o Tail(todo)
        BY <3>1, <4>6, <4>7
      <4> HIDE DEF first
      <4>10. 0 \in Nat /\ d \in Nat /\ Usable(element) /\ Arrives(element)
        BY <1>4, <2>2, <4>1
      <4> QED BY <4>8, <4>9, <4>10, Accepts
    <3> QED BY <3>2, <3>3
  <2>3. CASE Usable(element) /\ ~Unfit(element) /\ element.creation # 0
    <3> DEFINE event == CreateParticipantEvent(Second * element.creation, element, d)
               later == Append(removed, event)
               c == Len(removed) + 1
    <3>1. /\ events' = later
          /\ todo' = EndpointSteps(element, ConfiguredGuid(element), c) \o Tail(todo)
          /\ UNCHANGED <<entities, image, snapshots, crashed>>
      BY <1>6, <2>3 DEF LoadLinked, Unfit
    <3>2. event \in Event /\ LinkedIn(removed, event)
      BY <1>4, <1>5, CreationKept
    <3>3. /\ Kept(removed, later) /\ later[c] = event
          /\ \A i \in DOMAIN removed : later[i] = removed[i]
          /\ DOMAIN later = DOMAIN removed \cup {c} /\ c \notin DOMAIN removed
      BY <1>4, <3>2, AppendKept
    <3>4. c \in Nat \ {0}
      BY <1>4 DEF IsList
    <3> HIDE DEF event, later, removed, c, d
    <3>5. Kept(events, later)
      BY <1>2, <1>3, <3>3, KeptTransitive
    <3>6. /\ c \in DOMAIN later \ DOMAIN events
          /\ \A i \in DOMAIN events : later[i] = events[i]
          /\ \A i \in DOMAIN later \ DOMAIN events : i = c \/ i = d
          /\ d # 0 => d \in DOMAIN later \ DOMAIN events /\ later[d] = removed[d]
      BY <1>3, <1>4, <3>3
    <3>7. Arranged(events, later, element, c, d)
      BY <1>3, <1>4, <1>6, <2>3, <3>3, <3>4, <3>5, <3>6 DEF Arranged, event
    <3>8. Followed(element, c, EndpointSteps(element, ConfiguredGuid(element), c))
      BY <1>6, <3>4 DEF Followed
    <3>9. EndpointSteps(element, ConfiguredGuid(element), c) \in Seq(EndpointsToLoad)
      BY <1>1, <3>4, EndpointStepsTyped
    <3>10. Arrives(element)
      BY <2>3, <3>1 DEF Arrives
    <3>11. Arranged(events, events', element, c, d)
      BY <3>1, <3>7
    <3> QED BY <1>4, <2>3, <3>1, <3>4, <3>8, <3>9, <3>10, <3>11, Accepts
  <2> QED BY <1>1, <2>1, <2>2, <2>3, <2>4
<1>7. ASSUME loadServer(element)
      PROVE  PassedOver(element) \/ Refused(element) \/ Accepted(element)
  <2>0. element.kind = "server"
    BY <1>7 DEF loadServer
  <2>1. CASE element.profile \in {"none", "unknown"} \/ SharesPrefix(element)
    <3>1. Skip
      BY <1>7, <2>1 DEF loadServer
    <3>2. ~Usable(element) \/ SharesPrefix(element)
      BY <2>0, <2>1 DEF Usable
    <3> QED BY <2>0, <3>1, <3>2 DEF PassedOver
  <2>5. CASE element.profile = "other" /\ ~SharesPrefix(element)
    <3>1. Fail
      BY <1>7, <2>5 DEF loadServer
    <3> QED BY <2>0, <2>5, <3>1 DEF Fail, Crash, Refused, Unfit
  <2>6. element.profile = "good" => Usable(element)
    BY DEF Usable
  <2> DEFINE first == EndpointSteps(element, ConfiguredGuid(element), 0)
  <2>2. first \in Seq(EndpointsToLoad) /\ \A c : Followed(element, c, first)
    <3>1. first \in Seq(EndpointsToLoad)
      BY <1>1, EndpointStepsTyped
    <3> QED BY <2>0, <3>1 DEF Followed
  <2>3. CASE element.profile = "good" /\ ~SharesPrefix(element) /\ element.creation = 0
    <3>1. CreateParticipant(element, removed, 0) /\ todo' = first \o Tail(todo)
      BY <1>7, <2>3 DEF loadServer
    <3>2. CASE element.guid \in DOMAIN existing
      BY <2>3, <2>6, <3>1, <3>2 DEF CreateParticipant, Crash, Refused
    <3>3. CASE element.guid \notin DOMAIN existing
      <4>1. events' = removed /\ Arrives(element)
        BY <2>3, <3>1, <3>3 DEF CreateParticipant, Crash, Arrives, Joins, ParticipantTold
      <4> HIDE DEF removed, d, first
      <4>2. Arranged(events, removed, element, 0, d)
        BY <1>3, <1>4, <2>0, <2>3 DEF Arranged
      <4>3. Arranged(events, events', element, 0, d)
        BY <4>1, <4>2
      <4> QED BY <1>4, <2>2, <2>3, <2>6, <3>1, <4>1, <4>3, Accepts
    <3> QED BY <3>2, <3>3
  <2>4. CASE element.profile = "good" /\ ~SharesPrefix(element) /\ element.creation # 0
    <3> DEFINE event == CreateParticipantEvent(Second * element.creation, element, 0)
               between == Append(events, event)
               later == between \o RemovalEvents(element)
               c == Len(events) + 1
               e == IF element.removal = 0 THEN 0 ELSE Len(later)
    <3>1. event \in Event /\ LinkedIn(events, event) /\ between = events \o <<event>>
      BY <1>2, CreationKept
    <3>2. /\ events' = later
          /\ todo' = first \o Tail(todo)
          /\ UNCHANGED <<entities, image, snapshots, crashed>>
      BY <1>7, <2>4, <3>1 DEF loadServer
    <3>3. /\ Kept(events, between) /\ between[c] = event
          /\ \A i \in DOMAIN events : between[i] = events[i]
          /\ DOMAIN between = DOMAIN events \cup {c} /\ c \notin DOMAIN events
      BY <1>2, <3>1, AppendKept
    <3>4. c \in Nat \ {0}
      BY <1>2
    <3> HIDE DEF event, between, c
    <3>5. IsList(between)
      BY <3>3 DEF Kept
    <3>6. /\ Kept(between, later)
          /\ element.removal = 0 => later = between
          /\ element.removal # 0 =>
                /\ Len(later) = Len(between) + 1
                /\ DOMAIN later = DOMAIN between \cup {Len(later)} /\ Len(later) \notin DOMAIN between
                /\ later[Len(later)] = DestroyParticipantEvent(Second * element.removal,
                                                    ConfiguredGuid(element))
          /\ \A i \in DOMAIN between : later[i] = between[i]
      BY <3>5, RemovalKept
    <3>7. e \in Nat /\ (e = 0 <=> element.removal = 0)
      <4>1. Len(between) \in Nat
        BY <3>5 DEF IsList
      <4> HIDE DEF later
      <4>2. CASE element.removal = 0
        BY <4>2
      <4>3. CASE element.removal # 0
        BY <4>1, <4>3, <3>6
      <4> QED BY <4>2, <4>3
    <3>8. /\ element.removal # 0 =>
                /\ DOMAIN later = DOMAIN between \cup {e} /\ e \notin DOMAIN between
                /\ later[e] = DestroyParticipantEvent(Second * element.removal,
                                                      ConfiguredGuid(element))
      BY <3>6
    <3> HIDE DEF later, e, first
    <3>9. Kept(events, later)
      BY <1>2, <3>3, <3>6, KeptTransitive
    <3>10. /\ c \in DOMAIN later \ DOMAIN events
           /\ \A i \in DOMAIN events : later[i] = events[i]
           /\ \A i \in DOMAIN later \ DOMAIN events : i = c \/ i = e
           /\ e # 0 => e \in DOMAIN later \ DOMAIN events
           /\ later[c] = event
      BY <3>3, <3>6, <3>7, <3>8
    <3>11. Arranged(events, later, element, c, e)
      BY <2>0, <2>4, <3>4, <3>7, <3>8, <3>9, <3>10 DEF Arranged, event
    <3>12. Arrives(element)
      BY <2>4, <3>2 DEF Arrives
    <3>13. Arranged(events, events', element, c, e)
      BY <3>2, <3>11
    <3> QED BY <2>2, <2>4, <2>6, <3>2, <3>4, <3>7, <3>12, <3>13, Accepts
  <2> QED BY <1>1, <2>1, <2>3, <2>4, <2>5
<1> QED BY <1>6, <1>7 DEF loadClient, loadSimple

\* Two lists that differ in events about endpoints only.
OnlyEndpoints(list, later) ==
    /\ Kept(list, later)
    /\ \A i \in DOMAIN list :
          list[i].what \in {"create", "destroy", "snapshot"} => later[i] = list[i]
    /\ \A i \in DOMAIN later \ DOMAIN list :
          later[i].what \in {"createEndpoint", "destroyEndpoint"}

\* A list differs in nothing from itself.
LEMMA OnlyEndpointsSame ==
    ASSUME NEW list, IsList(list)
    PROVE  OnlyEndpoints(list, list)
BY KeptSame DEF OnlyEndpoints

\* Differences in events about endpoints add up to no more.
LEMMA OnlyEndpointsTransitive ==
    ASSUME NEW list, NEW between, NEW later, IsList(list), OnlyEndpoints(list, between),
           OnlyEndpoints(between, later)
    PROVE  OnlyEndpoints(list, later)
<1>1. Kept(list, later)
  BY KeptTransitive DEF OnlyEndpoints
<1>2. ASSUME NEW i \in DOMAIN list, list[i].what \in {"create", "destroy", "snapshot"}
      PROVE  later[i] = list[i]
  BY <1>2 DEF OnlyEndpoints, Kept
<1>3. ASSUME NEW i \in DOMAIN later \ DOMAIN list
      PROVE  later[i].what \in {"createEndpoint", "destroyEndpoint"}
  BY DEF OnlyEndpoints, Kept, SameEvent
<1> QED BY <1>1, <1>2, <1>3 DEF OnlyEndpoints

\* An event about an endpoint is put at the end of the list.
LEMMA EndpointEventKept ==
    ASSUME NEW list, IsList(list), NEW event \in Event, LinkedIn(list, event),
           event.what \in {"createEndpoint", "destroyEndpoint"}
    PROVE  OnlyEndpoints(list, Append(list, event))
<1> DEFINE new == Append(list, event)
<1>1. /\ Kept(list, new)
      /\ new[Len(list) + 1] = event
      /\ \A i \in DOMAIN list : new[i] = list[i]
      /\ DOMAIN new = DOMAIN list \cup {Len(list) + 1}
  BY AppendKept
<1> HIDE DEF new
<1>2. OnlyEndpoints(list, new)
  BY <1>1 DEF OnlyEndpoints
<1> QED BY <1>2 DEF new

\* DelayedEndpointCreation: no participant comes or goes, and no event but the
\* linked removal is told anything.
LEMMA CreateEndpointKeeps ==
    ASSUME NEW element, NEW g, NEW owner, NEW list, IsList(list), NEW removal,
           removal # 0 => removal \in DOMAIN list /\ list[removal].what = "destroyEndpoint",
           CreateEndpoint(element, g, owner, list, removal)
    PROVE  /\ UNCHANGED <<members, image, snapshots>>
           /\ DOMAIN existing' = DOMAIN existing
           /\ \/ /\ crashed' = TRUE /\ events' = events
                 /\ ~NoParticipant(g, owner) /\ ~Indexed(g)[g].valid
              \/ /\ crashed' = crashed
                 /\ OnlyEndpoints(list, events') /\ DOMAIN events' = DOMAIN list
<1>1. CASE /\ events' = list
           /\ UNCHANGED <<members, existing, image, snapshots, crashed>>
  BY <1>1, OnlyEndpointsSame
<1>2. CASE ~NoParticipant(g, owner) /\ ~Indexed(g)[g].valid /\ Crash
  BY <1>2 DEF Crash, entities
<1>3. CASE /\ \E e \in Fresh(g, element) :
                 /\ existing' = [existing EXCEPT ![g].topics = @ \cup element.topic,
                                                 ![g].used = @ \cup {e}]
                 /\ events' = EndpointTold(list, removal, e)
           /\ UNCHANGED <<members, image, snapshots, crashed>>
  <2>1. PICK e \in Endpoint : /\ DOMAIN existing' = DOMAIN existing
                              /\ events' = EndpointTold(list, removal, e)
    BY <1>3 DEF Fresh
  <2>2. /\ Kept(list, events') /\ DOMAIN events' = DOMAIN list
        /\ \A j \in DOMAIN list : j # removal => events'[j] = list[j]
    BY <2>1, EndpointToldKept
  <2>3. ASSUME NEW j \in DOMAIN list, list[j].what \in {"create", "destroy", "snapshot"}
        PROVE  events'[j] = list[j]
    <3>1. CASE removal = 0
      BY <2>1, <3>1 DEF EndpointTold
    <3>2. CASE removal # 0
      BY <2>2, <2>3, <3>2
    <3> QED BY <3>1, <3>2
  <2> QED BY <1>3, <2>1, <2>2, <2>3 DEF OnlyEndpoints
<1>4. CASE /\ existing' = IF HasTopic(g, element.topic)
                          THEN [existing EXCEPT ![g].topics = @ \cup element.topic]
                          ELSE existing
           /\ events' = list
           /\ UNCHANGED <<members, image, snapshots, crashed>>
  BY <1>4, OnlyEndpointsSame
<1> QED BY <1>1, <1>2, <1>3, <1>4 DEF CreateEndpoint

\* The time of an endpoint's creation event.
LEMMA EndpointCreationTyped ==
    ASSUME IsList(events), NEW step \in EndpointsToLoad, OwnedIn(events, step)
    PROVE  EndpointCreation(step.element, step.owner) \in Nat
<1>1. step.element \in EndpointElement /\ step.owner \in Nat
  BY DEF EndpointsToLoad
<1>2. step.element.creation \in Optional(Nat)
  BY <1>1 DEF EndpointElement
<1>3. step.element.creation \subseteq Nat
  BY <1>2 DEF Optional
<1>4. CASE step.element.creation # {}
  <2>1. (CHOOSE t \in step.element.creation : TRUE) \in Nat
    BY <1>3, <1>4
  <2> DEFINE t == CHOOSE t \in step.element.creation : TRUE
  <2> HIDE DEF t
  <2>2. t \in Nat
    BY <2>1 DEF t
  <2>3. Second * t \in Nat
    BY <2>2, SecondAssumption
  <2> QED BY <1>4, <2>3 DEF EndpointCreation, t
<1>5. CASE step.element.creation = {} /\ step.owner # 0
  <2>1. step.owner \in DOMAIN events
    BY <1>5 DEF OwnedIn, EndpointsToLoad
  <2>2. events[step.owner] \in Event
    BY <2>1 DEF IsList
  <2>3. events[step.owner].time \in Nat
    BY <2>2, EventKinds
  <2> QED BY <1>5, <2>3 DEF EndpointCreation
<1>6. CASE step.element.creation = {} /\ step.owner = 0
  BY <1>6 DEF EndpointCreation
<1> QED BY <1>4, <1>5, <1>6

\* The removal of an endpoint is put at the end of the list.
LEMMA EndpointRemovalKept ==
    ASSUME IsList(events), NEW element \in EndpointElement
    PROVE  LET list == IF element.removal = 0 THEN events
                       ELSE Append(events, DestroyEndpointEvent(Second * element.removal))
               removal == IF element.removal = 0 THEN 0 ELSE Len(list)
           IN /\ OnlyEndpoints(events, list)
              /\ removal \in Nat
              /\ removal # 0 => /\ removal \in DOMAIN list
                                /\ list[removal].what = "destroyEndpoint"
              /\ \A i \in DOMAIN list \ DOMAIN events : list[i].what = "destroyEndpoint"
<1> DEFINE event == DestroyEndpointEvent(Second * element.removal)
           list == Append(events, event)
<1>1. element.removal \in Nat
  BY DEF EndpointElement
<1>2. Len(events) \in Nat
  BY DEF IsList
<1>3. CASE element.removal = 0
  BY <1>3, OnlyEndpointsSame
<1>4. CASE element.removal # 0
  <2>1. Second * element.removal \in Nat
    BY <1>1, SecondAssumption
  <2>2. event \in Event /\ LinkedIn(events, event) /\ event.what = "destroyEndpoint"
    BY <2>1 DEF Event, EndpointDestructions, DestroyEndpointEvent, LinkedIn
  <2> HIDE DEF event
  <2>3. /\ Len(list) = Len(events) + 1
        /\ list[Len(events) + 1] = event
        /\ DOMAIN list = DOMAIN events \cup {Len(events) + 1}
    BY <2>2, AppendKept
  <2>4. OnlyEndpoints(events, list)
    BY <2>2, EndpointEventKept
  <2> HIDE DEF list
  <2>5. /\ Len(list) \in Nat /\ Len(list) \in DOMAIN list
        /\ list[Len(list)].what = "destroyEndpoint"
        /\ \A i \in DOMAIN list \ DOMAIN events : list[i].what = "destroyEndpoint"
    BY <1>2, <2>2, <2>3
  <2> QED BY <1>4, <2>4, <2>5 DEF list, event
<1> QED BY <1>3, <1>4

\* loadPublisher and loadSubscriber.
LEMMA LoadsEndpoint ==
    ASSUME Typed, NEW step \in EndpointsToLoad, OwnedIn(events, step), LoadEndpoint(step)
    PROVE  /\ UNCHANGED <<members, image, snapshots>> /\ DOMAIN existing' = DOMAIN existing
           /\ todo' = Tail(todo)
           /\ OnlyEndpoints(events, events')
           /\ \A i \in DOMAIN events' \ DOMAIN events :
                 events'[i].what = "createEndpoint" =>
                    events'[i].guid = step.guid /\ events'[i].owner = step.owner
           /\ \/ crashed' = crashed
              \/ /\ crashed' = TRUE
                 /\ \/ step.element.topic = {}
                    \/ /\ ~NoParticipant(step.guid, step.owner)
                       /\ ~Indexed(step.guid)[step.guid].valid
<1> DEFINE element == step.element
           list == IF element.removal = 0 THEN events
                   ELSE Append(events, DestroyEndpointEvent(Second * element.removal))
           removal == IF element.removal = 0 THEN 0 ELSE Len(list)
           creation == EndpointCreation(element, step.owner)
<1>1. IsList(events) /\ element \in EndpointElement /\ step.owner \in Nat /\ step.guid \in Guid
  BY DEF Typed, EndpointsToLoad
<1>2. /\ OnlyEndpoints(events, list)
      /\ removal \in Nat
      /\ removal # 0 => removal \in DOMAIN list /\ list[removal].what = "destroyEndpoint"
      /\ \A i \in DOMAIN list \ DOMAIN events : list[i].what = "destroyEndpoint"
  BY <1>1, EndpointRemovalKept
<1>3. creation \in Nat
  BY <1>1, EndpointCreationTyped
<1>4. /\ todo' = Tail(todo)
      /\ \/ element.topic = {} /\ Crash
         \/ CreateEndpoint(element, step.guid, step.owner, list, removal)
         \/ /\ events' = Append(list,
                  CreateEndpointEvent(creation, element, step.guid, removal, step.owner))
            /\ UNCHANGED <<entities, image, snapshots, crashed>>
  BY DEF LoadEndpoint
<1> HIDE DEF list, removal, creation
<1>5. IsList(list) /\ Kept(events, list)
  BY <1>2 DEF OnlyEndpoints, Kept
<1>6. CASE element.topic = {} /\ Crash
  BY <1>1, <1>4, <1>6, OnlyEndpointsSame DEF Crash, entities
<1>7. CASE CreateEndpoint(element, step.guid, step.owner, list, removal)
  <2>1. /\ UNCHANGED <<members, image, snapshots>>
        /\ DOMAIN existing' = DOMAIN existing
        /\ \/ /\ crashed' = TRUE /\ events' = events
              /\ ~NoParticipant(step.guid, step.owner) /\ ~Indexed(step.guid)[step.guid].valid
           \/ /\ crashed' = crashed
              /\ OnlyEndpoints(list, events') /\ DOMAIN events' = DOMAIN list
    BY <1>2, <1>5, <1>7, CreateEndpointKeeps
  <2>2. CASE crashed' = TRUE /\ events' = events
    BY <1>1, <1>4, <2>1, <2>2, OnlyEndpointsSame
  <2>3. CASE OnlyEndpoints(list, events') /\ DOMAIN events' = DOMAIN list /\ crashed' = crashed
    <3>1. OnlyEndpoints(events, events')
      BY <1>1, <1>2, <2>3, OnlyEndpointsTransitive
    <3>2. \A i \in DOMAIN events' \ DOMAIN events : events'[i].what = "destroyEndpoint"
      BY <1>2, <2>3 DEF OnlyEndpoints, Kept, SameEvent
    <3> QED BY <1>4, <2>1, <2>3, <3>1, <3>2
  <2> QED BY <2>1, <2>2, <2>3
<1>8. CASE /\ events' = Append(list,
                 CreateEndpointEvent(creation, element, step.guid, removal, step.owner))
           /\ UNCHANGED <<entities, image, snapshots, crashed>>
  <2> DEFINE event == CreateEndpointEvent(creation, element, step.guid, removal, step.owner)
  <2>1. event \in Event
    BY <1>1, <1>2, <1>3 DEF Event, EndpointCreations, CreateEndpointEvent
  <2>2. step.owner # 0 => step.owner \in DOMAIN list /\ list[step.owner].what = "create"
    BY <1>5 DEF OwnedIn, EndpointsToLoad, Kept, SameEvent
  <2>3. LinkedIn(list, event) /\ event.what = "createEndpoint"
    BY <1>2, <2>2 DEF LinkedIn, CreateEndpointEvent
  <2>4. event.guid = step.guid /\ event.owner = step.owner
    BY DEF CreateEndpointEvent
  <2>5. events' = Append(list, event)
    BY <1>8
  <2> HIDE DEF event
  <2>6. OnlyEndpoints(list, events')
    BY <1>5, <2>1, <2>3, <2>5, EndpointEventKept
  <2>7. OnlyEndpoints(events, events')
    BY <1>1, <1>2, <2>6, OnlyEndpointsTransitive
  <2>8. /\ events'[Len(list) + 1] = event
        /\ \A i \in DOMAIN list : events'[i] = list[i]
        /\ DOMAIN events' = DOMAIN list \cup {Len(list) + 1}
    BY <1>5, <2>1, <2>3, <2>5, AppendKept
  <2>9. ASSUME NEW i \in DOMAIN events' \ DOMAIN events, events'[i].what = "createEndpoint"
        PROVE  events'[i].guid = step.guid /\ events'[i].owner = step.owner
    BY <1>2, <2>4, <2>8, <2>9
  <2> QED BY <1>4, <1>8, <2>7, <2>9 DEF entities
<1> QED BY <1>4, <1>6, <1>7, <1>8

\* Loading a snapshot element.
LEMMA LoadsSnapshot ==
    ASSUME Typed, NEW element \in SnapshotElement, loadSnapshot(element)
    PROVE  /\ UNCHANGED <<entities, image, snapshots>>
           /\ todo' = Tail(todo)
           /\ Kept(events, events')
           /\ \/ element.time = {} /\ events' = events /\ crashed' = crashed
              \/ ~element.described /\ events' = events /\ crashed' = TRUE
              \/ /\ element.time # {} /\ crashed' = crashed
                 /\ \A i \in DOMAIN events : events'[i] = events[i]
                 /\ DOMAIN events' = DOMAIN events \cup {Len(events) + 1}
                 /\ Len(events) + 1 \notin DOMAIN events
                 /\ events'[Len(events) + 1].what = "snapshot"
<1>1. IsList(events) /\ element.time \subseteq Nat
  BY DEF Typed, SnapshotElement, Optional
<1>2. CASE element.time = {} /\ Skip
  BY <1>1, <1>2, KeptSame DEF Skip
<1>3. CASE ~element.described /\ todo' = Tail(todo) /\ Crash
  BY <1>1, <1>3, KeptSame DEF Crash
<1>4. CASE /\ element.time # {} /\ todo' = Tail(todo)
           /\ \E t \in element.time : events' = Append(events, SnapshotEvent(Second * t, element))
           /\ UNCHANGED <<entities, image, snapshots, crashed>>
  <2>1. PICK t \in Nat : events' = Append(events, SnapshotEvent(Second * t, element))
    BY <1>1, <1>4
  <2> DEFINE event == SnapshotEvent(Second * t, element)
  <2>2. Second * t \in Nat
    BY SecondAssumption
  <2>3. event \in Event /\ LinkedIn(events, event) /\ event.what = "snapshot"
    BY <2>2 DEF Event, SnapshotsDue, SnapshotEvent, LinkedIn
  <2>4. events' = Append(events, event)
    BY <2>1
  <2> HIDE DEF event
  <2> QED BY <1>1, <1>4, <2>3, <2>4, AppendKept
<1> QED BY <1>2, <1>3, <1>4 DEF loadSnapshot, Fail

\* What a creation tells: itself and its removal.
Announced(i, element, removal) ==
    /\ Kept(events, events') /\ DOMAIN events' = DOMAIN events
    /\ events'[i].guid = element.guid
    /\ removal # 0 => events'[removal].guid = element.guid
    /\ \A j \in DOMAIN events \ {i, removal} : events'[j] = events[j]

\* Running a creation event.
LEMMA RunsCreation ==
    ASSUME Typed, NEW i \in DOMAIN events, events[i].what = "create", Execute(i, events[i])
    PROVE  LET element == events[i].element
           IN /\ element \in ParticipantElement
              /\ events[i].removal # 0 => /\ events[i].removal \in DOMAIN events
                                          /\ events[events[i].removal].what = "destroy"
              /\ UNCHANGED <<image, snapshots>>
              /\ \/ /\ element.guid \in DOMAIN existing
                    /\ crashed' = TRUE /\ UNCHANGED <<entities, events>>
                 \/ Joins(element) /\ Announced(i, element, events[i].removal)
<1> DEFINE element == events[i].element
           removal == events[i].removal
           told == [events EXCEPT ![i].guid = element.guid]
<1>1. IsList(events) /\ events[i] \in Event
  BY DEF Typed, IsList
<1>2. events[i] \in Creations
  BY <1>1, EventKinds
<1>3. element \in ParticipantElement /\ element.guid \in Guid /\ removal \in Nat
  BY <1>2 DEF Creations, ParticipantElement, Guid
<1>4. removal # 0 => removal \in DOMAIN events /\ events[removal].what = "destroy"
  BY <1>1 DEF IsList, LinkedIn
<1>5. /\ Kept(events, told) /\ DOMAIN told = DOMAIN events
      /\ told[i].guid = element.guid
      /\ \A j \in DOMAIN events : j # i => told[j] = events[j]
  BY <1>1, <1>3, ToldKept
<1>6. CreateParticipant(element, told, removal)
  BY DEF Execute
<1> HIDE DEF told, removal, element
<1>7. CASE element.guid \in DOMAIN existing /\ Crash
  BY <1>3, <1>4, <1>7 DEF Crash, element, removal
<1>8. CASE /\ element.guid \notin DOMAIN existing
           /\ existing' = Put(existing, element.guid, [topics |-> {}, used |-> {}])
           /\ members' = Put(members, element.guid, element.kind)
           /\ entityMap' = WithInfo(element.guid)
           /\ events' = ParticipantTold(told, removal, element.guid)
           /\ UNCHANGED <<listed, endpoints, image, snapshots, crashed>>
  <2>1. IsList(told) /\ (removal # 0 => removal \in DOMAIN told /\ told[removal].what = "destroy")
    BY <1>4, <1>5 DEF Kept, SameEvent
  <2>2. /\ Kept(told, events') /\ DOMAIN events' = DOMAIN told
        /\ removal # 0 => events'[removal].guid = element.guid
        /\ \A j \in DOMAIN told : j # removal => events'[j] = told[j]
    BY <1>3, <1>8, <2>1, ParticipantToldKept
  <2>3. Kept(events, events')
    BY <1>1, <1>5, <2>2, KeptTransitive
  <2>4. removal # i
    BY <1>4 DEF Typed, IsList
  <2>5. events'[i].guid = element.guid
    BY <1>5, <2>2, <2>4
  <2>6. Announced(i, element, removal)
    BY <1>5, <2>2, <2>3, <2>5 DEF Announced
  <2>7. Joins(element)
    BY <1>8 DEF Joins
  <2> QED BY <1>3, <1>4, <1>8, <2>6, <2>7 DEF element, removal
<1> QED BY <1>6, <1>7, <1>8 DEF CreateParticipant

\* Running a destruction event.
LEMMA RunsDestruction ==
    ASSUME NEW i, events[i].what = "destroy", Execute(i, events[i]),
           DOMAIN members = DOMAIN existing
    PROVE  /\ UNCHANGED <<events, snapshots, crashed>>
           /\ DOMAIN members' = DOMAIN members \ {events[i].guid}
           /\ DOMAIN existing' = DOMAIN existing \ {events[i].guid}
<1> DEFINE g == events[i].guid
<1>1. DestroyParticipant(g)
  BY DEF Execute
<1>2. CASE g \in DOMAIN members
  BY <1>1, <1>2, EraseFacts DEF DestroyParticipant
<1>3. CASE g \notin DOMAIN members
  BY <1>1, <1>3 DEF DestroyParticipant
<1> QED BY <1>2, <1>3

\* Running an event about an endpoint.
LEMMA RunsEndpointEvent ==
    ASSUME Typed, NEW i \in DOMAIN events, Execute(i, events[i]),
           events[i].what \in {"createEndpoint", "destroyEndpoint"}
    PROVE  /\ UNCHANGED <<members, image, snapshots>>
           /\ DOMAIN existing' = DOMAIN existing
           /\ OnlyEndpoints(events, events') /\ DOMAIN events' = DOMAIN events
           /\ \/ crashed' = crashed
              \/ /\ crashed' = TRUE /\ events[i].what = "createEndpoint"
                 /\ ~NoParticipant(events[i].guid, events[i].owner)
                 /\ ~Indexed(events[i].guid)[events[i].guid].valid
<1>1. IsList(events) /\ events[i] \in Event
  BY DEF Typed, IsList
<1>2. CASE events[i].what = "createEndpoint"
  <2>1. events[i].removal # 0 => /\ events[i].removal \in DOMAIN events
                                 /\ events[events[i].removal].what = "destroyEndpoint"
    BY <1>1, <1>2 DEF IsList, LinkedIn
  <2>2. CreateEndpoint(events[i].element, events[i].guid, events[i].owner, events,
                       events[i].removal)
    BY <1>2 DEF Execute
  <2> QED BY <1>1, <1>2, <2>1, <2>2, CreateEndpointKeeps, OnlyEndpointsSame
<1>3. CASE events[i].what = "destroyEndpoint"
  <2>1. DestroyEndpoint(events[i].guid)
    BY <1>3 DEF Execute
  <2> QED BY <1>1, <2>1, OnlyEndpointsSame DEF DestroyEndpoint
<1> QED BY <1>2, <1>3

-----------------------------------------------------------------------------
(* The invariant Typed.                                                    *)

AllSteps == Steps("participant", config.participants) \o Steps("snapshot", config.snapshots)

\* What the constructor starts from.
LEMMA AllStepsFacts ==
    ASSUME config \in Configuration
    PROVE  LET n == Len(config.participants)
               m == Len(config.snapshots)
           IN /\ AllSteps \in Seq(Step) /\ Len(AllSteps) = n + m
              /\ n \in Nat /\ DOMAIN config.participants = 1 .. n
              /\ m \in Nat /\ DOMAIN config.snapshots = 1 .. m
              /\ \A i \in 1 .. n : AllSteps[i] = [what |-> "participant",
                                                  element |-> config.participants[i]]
              /\ \A i \in 1 .. m : AllSteps[n + i] = [what |-> "snapshot",
                                                      element |-> config.snapshots[i]]
              /\ \A i \in DOMAIN AllSteps :
                    \/ i \in 1 .. n
                    \/ i - n \in 1 .. m /\ AllSteps[i] = [what |-> "snapshot",
                                                       element |-> config.snapshots[i - n]]
<1> DEFINE n == Len(config.participants)
           m == Len(config.snapshots)
           first == Steps("participant", config.participants)
           second == Steps("snapshot", config.snapshots)
<1>1. /\ config.participants \in Seq(ParticipantElement)
      /\ config.snapshots \in Seq(SnapshotElement)
  BY DEF Configuration
<1>2. /\ n \in Nat /\ DOMAIN config.participants = 1 .. n
      /\ m \in Nat /\ DOMAIN config.snapshots = 1 .. m
      /\ \A i \in 1 .. n : config.participants[i] \in ParticipantElement
      /\ \A i \in 1 .. m : config.snapshots[i] \in SnapshotElement
  BY <1>1
<1> HIDE DEF n, m
<1>3. first \in [1 .. n -> Step] /\ second \in [1 .. m -> Step]
  BY <1>2 DEF Steps, Step, ParticipantSteps, SnapshotSteps
<1>4. /\ \A i \in 1 .. n : first[i] = [what |-> "participant", element |-> config.participants[i]]
      /\ \A i \in 1 .. m : second[i] = [what |-> "snapshot", element |-> config.snapshots[i]]
  BY <1>2 DEF Steps
<1> HIDE DEF first, second
<1>5. first \in Seq(Step) /\ second \in Seq(Step) /\ Len(first) = n /\ Len(second) = m
  BY <1>2, <1>3
<1> DEFINE all == first \o second
<1>6. /\ all \in Seq(Step) /\ Len(all) = Len(first) + Len(second)
      /\ \A i \in 1 .. Len(first) + Len(second) :
            all[i] = IF i <= Len(first) THEN first[i] ELSE second[i - Len(first)]
  BY <1>5, ConcatProperties, Zenon
<1> HIDE DEF all
<1>7. ASSUME NEW i \in 1 .. n PROVE all[i] = first[i]
  <2>1. i \in 1 .. n + m /\ i <= n
    BY <1>2
  <2> QED BY <1>5, <1>6, <2>1
<1>8. ASSUME NEW i \in 1 .. m PROVE all[n + i] = second[i]
  <2>1. n + i \in 1 .. n + m /\ ~(n + i <= n) /\ (n + i) - n = i
    BY <1>2
  <2> QED BY <1>5, <1>6, <2>1
<1>9. AllSteps = all
  BY DEF AllSteps, all, first, second
<1>10. ASSUME NEW i \in DOMAIN all, i \notin 1 .. n
       PROVE  i - n \in 1 .. m /\ all[i] = second[i - n]
  <2>1. i \in 1 .. n + m /\ ~(i <= n) /\ i - n \in 1 .. m
    BY <1>2, <1>5, <1>6, <1>10
  <2> QED BY <1>5, <1>6, <2>1
<1> QED BY <1>2, <1>4, <1>5, <1>6, <1>7, <1>8, <1>9, <1>10 DEF n, m

\* Endpoint steps, or none, take the place of the first step.
LEMMA TodoTyped ==
    ASSUME Typed, NEW first \in Seq(EndpointsToLoad), NEW later, Kept(events, later),
           NEW new \in Seq(Step), Moved(todo, first, new),
           \A i \in DOMAIN first : OwnedIn(later, first[i])
    PROVE  \A i \in DOMAIN new : OwnedIn(later, new[i])
<1>1. \A i \in DOMAIN todo : OwnedIn(later, todo[i])
  BY DEF Typed, OwnedIn, Kept, SameEvent
<1> QED BY <1>1 DEF Moved

\* The same of the steps left to load, the others being endpoints.
LEMMA TodoRest ==
    ASSUME Typed, todo # <<>>, NEW first \in Seq(EndpointsToLoad)
    PROVE  first \o Tail(todo) \in Seq(Step) /\ Moved(todo, first, first \o Tail(todo))
<1>1. first \in Seq(Step) /\ todo \in Seq(Step)
  <2>1. EndpointsToLoad \subseteq Step
    BY DEF Step
  <2> QED BY <2>1, SeqMonotonic DEF Typed
<1> QED BY <1>1, RestFacts

\* The first step is done with.
LEMMA TodoTail ==
    ASSUME Typed, todo # <<>>
    PROVE  Tail(todo) \in Seq(Step) /\ Moved(todo, <<>>, Tail(todo))
BY TailFacts DEF Typed

\* Without a new step.
LEMMA TodoTailTyped ==
    ASSUME Typed, todo # <<>>, NEW later, Kept(events, later)
    PROVE  Tail(todo) \in Seq(Step) /\ \A i \in DOMAIN Tail(todo) : OwnedIn(later, Tail(todo)[i])
<1> DEFINE first == <<>>
           new == Tail(todo)
<1>1. new \in Seq(Step) /\ Moved(todo, first, new)
  BY TodoTail
<1>2. first \in Seq(EndpointsToLoad) /\ \A i \in DOMAIN first : OwnedIn(later, first[i])
  OBVIOUS
<1> HIDE DEF first, new
<1>3. \A i \in DOMAIN new : OwnedIn(later, new[i])
  BY <1>1, <1>2, TodoTyped
<1> QED BY <1>1, <1>3 DEF new

\* The steps that take the place of a participant's.
LEMMA FollowedOwned ==
    ASSUME NEW element, NEW list, NEW later, NEW c, NEW d, NEW first,
           Arranged(list, later, element, c, d), Followed(element, c, first)
    PROVE  \A i \in DOMAIN first : OwnedIn(later, first[i])
<1>1. PICK g \in {element.guid, ConfiguredGuid(element)}, owner \in {0, c} :
         first = EndpointSteps(element, g, owner)
  BY DEF Followed
<1>2. ASSUME NEW i \in DOMAIN first PROVE OwnedIn(later, first[i])
  <2>1. first[i].owner = owner
    BY <1>1 DEF EndpointSteps
  <2>2. c # 0 => c \in DOMAIN later /\ later[c].what = "create"
    BY DEF Arranged, CreateParticipantEvent
  <2> QED BY <1>1, <2>1, <2>2 DEF OwnedIn
<1> QED BY <1>2

\* The step that is loaded.
LEMMA HeadStep ==
    ASSUME Typed, todo # <<>>
    PROVE  Head(todo) = todo[1] /\ 1 \in DOMAIN todo /\ todo[1] \in Step /\ OwnedIn(events, todo[1])
BY DEF Typed

\* One step of the constructor.
LEMMA LoadTyped ==
    ASSUME Typed, LoadElement
    PROVE  Typed' /\ Kept(events, events')
<1> DEFINE step == todo[1]
<1>1. /\ todo # <<>> /\ step \in Step /\ OwnedIn(events, step)
      /\ UNCHANGED <<done, now, config>> /\ IsList(events)
  BY HeadStep DEF LoadElement, Typed
<1>2. ASSUME Kept(events, events'), todo' \in Seq(Step),
             \A i \in DOMAIN todo' : OwnedIn(events', todo'[i]),
             DOMAIN existing' \subseteq Participant
      PROVE  Typed' /\ Kept(events, events')
  BY <1>1, <1>2 DEF Typed, Kept
<1>3. CASE /\ step.what = "participant"
           /\ loadServer(step.element) \/ loadClient(step.element) \/ loadSimple(step.element)
  <2> DEFINE element == step.element
  <2>1. element \in ParticipantElement
    BY <1>1, <1>3, StepKinds DEF ParticipantSteps
  <2>2. PassedOver(element) \/ Refused(element) \/ Accepted(element)
    BY <1>3, <2>1, LoadParticipant
  <2>3. CASE PassedOver(element)
    BY <1>1, <1>2, <2>3, TodoTailTyped, KeptSame DEF PassedOver, Skip, entities, Typed
  <2>4. CASE Refused(element)
    <3>1. events' = events /\ existing' = existing
      BY <2>4 DEF Refused, entities
    <3>2. CASE \E g \in {element.guid, ConfiguredGuid(element)} :
                  todo' = EndpointSteps(element, g, 0) \o Tail(todo)
      <4>1. PICK g \in {element.guid, ConfiguredGuid(element)} :
               todo' = EndpointSteps(element, g, 0) \o Tail(todo)
        BY <3>2
      <4> DEFINE first == EndpointSteps(element, g, 0)
      <4>2. g \in Guid
        BY <2>1 DEF ParticipantElement, Guid, ConfiguredGuid
      <4>3. first \in Seq(EndpointsToLoad)
        BY <2>1, <4>2, EndpointStepsTyped
      <4>4. \A i \in DOMAIN first : OwnedIn(events, first[i])
        BY DEF EndpointSteps, OwnedIn
      <4>5. todo' = first \o Tail(todo)
        BY <4>1
      <4> HIDE DEF first
      <4>6. todo' \in Seq(Step) /\ Moved(todo, first, todo')
        BY <1>1, <4>3, <4>5, TodoRest
      <4>7. \A i \in DOMAIN todo' : OwnedIn(events, todo'[i])
        BY <1>1, <4>3, <4>4, <4>6, KeptSame, TodoTyped
      <4> QED BY <1>1, <1>2, <3>1, <4>6, <4>7, KeptSame DEF Typed
    <3>3. CASE todo' = Tail(todo)
      BY <1>1, <1>2, <3>1, <3>3, TodoTailTyped, KeptSame DEF Typed
    <3>4. \/ todo' = Tail(todo)
          \/ \E g \in {element.guid, ConfiguredGuid(element)} :
                todo' = EndpointSteps(element, g, 0) \o Tail(todo)
      BY <1>3, <2>4 DEF Refused, loadServer, loadClient, loadSimple, LoadLinked, Skip, Fail
    <3> QED BY <3>2, <3>3, <3>4
  <2>5. CASE Accepted(element)
    <3>1. PICK c \in Nat, d \in Nat, first \in Seq(EndpointsToLoad) :
             /\ Arranged(events, events', element, c, d)
             /\ Followed(element, c, first)
             /\ todo' = first \o Tail(todo)
      BY <2>5 DEF Accepted
    <3>2. Kept(events, events') /\ \A i \in DOMAIN first : OwnedIn(events', first[i])
      <4>1. Kept(events, events')
        BY <3>1 DEF Arranged
      <4> HIDE DEF element
      <4> QED BY <3>1, <4>1, FollowedOwned
    <3>3. todo' \in Seq(Step) /\ \A i \in DOMAIN todo' : OwnedIn(events', todo'[i])
      <4>1. todo' \in Seq(Step) /\ Moved(todo, first, todo')
        BY <1>1, <3>1, TodoRest
      <4> QED BY <3>2, <4>1, TodoTyped
    <3>4. DOMAIN existing' \subseteq DOMAIN existing \cup {element.guid}
      BY <2>5 DEF Accepted, Arrives, Joins, Put, entities
    <3>5. DOMAIN existing' \subseteq Participant
      BY <2>1, <3>4 DEF Typed, ParticipantElement
    <3> QED BY <1>2, <3>2, <3>3, <3>5
  <2> QED BY <2>2, <2>3, <2>4, <2>5
<1>4. CASE step.what = "endpoint" /\ (loadPublisher(step) \/ loadSubscriber(step))
  <2>1. step \in EndpointsToLoad /\ LoadEndpoint(step)
    BY <1>1, <1>4, StepKinds DEF loadPublisher, loadSubscriber
  <2>2. DOMAIN existing' = DOMAIN existing /\ todo' = Tail(todo) /\ Kept(events, events')
    BY <1>1, <2>1, LoadsEndpoint DEF OnlyEndpoints
  <2> QED BY <1>1, <1>2, <2>2, TodoTailTyped DEF Typed
<1>5. CASE step.what = "snapshot" /\ loadSnapshot(step.element)
  <2>1. step.element \in SnapshotElement
    BY <1>1, <1>5, StepKinds DEF SnapshotSteps
  <2>2. existing' = existing /\ todo' = Tail(todo) /\ Kept(events, events')
    BY <1>5, <2>1, LoadsSnapshot DEF entities
  <2> QED BY <1>1, <1>2, <2>2, TodoTailTyped DEF Typed
<1> QED BY <1>3, <1>4, <1>5, HeadStep DEF LoadElement

\* One event.
LEMMA RunTyped ==
    ASSUME Typed, DOMAIN members = DOMAIN existing, NEW i \in Pending, RunEvent(i),
           UNCHANGED <<config, todo>>
    PROVE  /\ Typed'
           /\ Kept(events, events') /\ DOMAIN events' = DOMAIN events
           /\ crashed' = crashed \/ crashed' = TRUE
<1>1. /\ i \in DOMAIN events /\ events[i] \in Event /\ IsList(events)
      /\ Execute(i, events[i])
      /\ done' = done \cup {i} /\ now' = events[i].time
  BY DEF Pending, RunEvent, Typed, IsList
<1>2. now' \in Nat
  BY <1>1, EventKinds
<1>3. ASSUME Kept(events, events'), DOMAIN events' = DOMAIN events,
             DOMAIN existing' \subseteq Participant
      PROVE  Typed'
  <2>1. \A j \in DOMAIN todo : OwnedIn(events', todo[j])
    BY <1>3 DEF Typed, OwnedIn, Kept, SameEvent
  <2> QED BY <1>1, <1>2, <1>3, <2>1 DEF Typed, Kept
<1>4. CASE events[i].what = "create"
  <2> DEFINE element == events[i].element
  <2>1. /\ element \in ParticipantElement
        /\ \/ crashed' = TRUE /\ UNCHANGED <<entities, events>>
           \/ Joins(element) /\ Announced(i, element, events[i].removal)
    BY <1>1, <1>4, RunsCreation
  <2>2. CASE crashed' = TRUE /\ UNCHANGED <<entities, events>>
    BY <1>1, <1>3, <2>2, KeptSame DEF entities, Typed
  <2>3. CASE Joins(element) /\ Announced(i, element, events[i].removal)
    <3>1. Kept(events, events') /\ DOMAIN events' = DOMAIN events /\ crashed' = crashed
      BY <2>3 DEF Announced, Joins
    <3>2. DOMAIN existing' = DOMAIN existing \cup {element.guid}
      BY <2>3 DEF Joins, Put
    <3>3. DOMAIN existing' \subseteq Participant
      BY <2>1, <3>2 DEF Typed, ParticipantElement
    <3> QED BY <1>3, <3>1, <3>3
  <2> QED BY <2>1, <2>2, <2>3
<1>5. CASE events[i].what = "destroy"
  <2>1. events' = events /\ crashed' = crashed /\ DOMAIN existing' \subseteq DOMAIN existing
    BY <1>1, <1>5, RunsDestruction
  <2> QED BY <1>1, <1>3, <2>1, KeptSame DEF Typed
<1>6. CASE events[i].what \in {"createEndpoint", "destroyEndpoint"}
  <2>1. /\ DOMAIN existing' = DOMAIN existing /\ OnlyEndpoints(events, events')
        /\ DOMAIN events' = DOMAIN events
        /\ crashed' = crashed \/ crashed' = TRUE
    BY <1>1, <1>6, RunsEndpointEvent
  <2> QED BY <1>3, <2>1 DEF OnlyEndpoints, Typed
<1>7. CASE events[i].what = "snapshot"
  <2>1. UNCHANGED <<entities, events, crashed>>
    BY <1>1, <1>7 DEF Execute, TakeSnapshot
  <2> QED BY <1>1, <1>3, <2>1, KeptSame DEF entities, Typed
<1> QED BY <1>1, <1>4, <1>5, <1>6, <1>7, EventKinds

\* A step that leaves the list and what is about to be loaded alone.
LEMMA UnchangedTyped ==
    ASSUME Typed, UNCHANGED <<config, events, todo, done, now, existing>>
    PROVE  Typed'
BY DEF Typed

ScheduleInv == IInv /\ Typed /\ InPhase

\* The empty list.
LEMMA NoEvents == IsList(<<>>) /\ DOMAIN <<>> = {}
BY DEF IsList

\* Before the configuration is read nothing is scheduled.
LEMMA InitScheduleInv == Init => ScheduleInv
<1> SUFFICES ASSUME Init PROVE ScheduleInv
  OBVIOUS
<1>1. config \in Configuration
  <2>1. \A option \in BOOLEAN : FileConfiguration(option) \in Configuration
    BY DEF FileConfiguration, Configuration
  <2> QED BY <2>1, ConfigurationsAssumption DEF Init
<1>2. events = <<>> /\ todo = <<>> /\ done = {} /\ now = 0 /\ DOMAIN existing = {}
  BY DEF Init
<1>3. Typed
  BY <1>1, <1>2, NoEvents DEF Typed
<1>4. InPhase
  BY DEF Init, InPhase, Over
<1> QED BY <1>3, <1>4, InitIInv DEF ScheduleInv

\* Every step preserves it.
LEMMA NextScheduleInv == ScheduleInv /\ [Next]_serverVars => ScheduleInv'
<1> SUFFICES ASSUME ScheduleInv, [Next]_serverVars PROVE ScheduleInv'
  OBVIOUS
<1>1. IInv /\ IInv' /\ Typed /\ InPhase
  BY NextIInv DEF ScheduleInv
<1>2. SUFFICES Typed' /\ InPhase'
  BY <1>1 DEF ScheduleInv
<1>3. CASE UNCHANGED serverVars
  BY <1>1, <1>3, UnchangedTyped DEF serverVars, mainVars, entities, InPhase, Over
<1>4. CASE ~crashed /\ ReadFile
  <2>1. UNCHANGED <<existing, events, done, now, config, created>> /\ phase = "start"
    BY <1>4 DEF ReadFile, entities
  <2>5. /\ crashed' \in BOOLEAN
        /\ crashed' = TRUE => phase' = "load"
    BY <1>1, <1>4 DEF ReadFile, MapServerInfoFails, InPhase
  <2>2. events = <<>> /\ todo = <<>>
    BY <1>1, <2>1 DEF InPhase
  <2>3. CASE config.root = "config" /\ phase' = "load" /\ todo' = AllSteps
    <3>1. AllSteps \in Seq(Step) /\ \A i \in DOMAIN AllSteps : AllSteps[i].what # "endpoint"
      <4>1. config \in Configuration
        BY <1>1 DEF Typed
      <4> DEFINE n == Len(config.participants)
                 m == Len(config.snapshots)
      <4>2. /\ AllSteps \in Seq(Step) /\ n \in Nat /\ m \in Nat
            /\ \A i \in 1 .. n : AllSteps[i] = [what |-> "participant",
                                                element |-> config.participants[i]]
            /\ \A i \in DOMAIN AllSteps :
                  \/ i \in 1 .. n
                  \/ i - n \in 1 .. m /\ AllSteps[i] = [what |-> "snapshot",
                                                     element |-> config.snapshots[i - n]]
        BY <4>1, AllStepsFacts, Zenon
      <4> HIDE DEF n, m
      <4>3. ASSUME NEW i \in DOMAIN AllSteps PROVE AllSteps[i].what # "endpoint"
        <5>1. CASE i \in 1 .. n
          <6>1. AllSteps[i] = [what |-> "participant", element |-> config.participants[i]]
            BY <4>2, <5>1, Zenon
          <6> QED BY <6>1
        <5>2. CASE AllSteps[i] = [what |-> "snapshot", element |-> config.snapshots[i - n]]
          BY <5>2
        <5> QED BY <4>2, <5>1, <5>2
      <4> QED BY <4>2, <4>3
    <3>2. Typed'
      BY <1>1, <2>1, <2>3, <3>1 DEF Typed, OwnedIn
    <3>3. InPhase'
      <4>1. snapshots' = snapshots
        BY <1>4, <2>3 DEF ReadFile
      <4> QED BY <1>1, <1>4, <2>1, <2>3, <2>5, <4>1 DEF InPhase, Over
    <3> QED BY <3>2, <3>3
  <2>4. CASE phase' = "run" /\ todo' = todo
    BY <1>1, <1>4, <2>1, <2>2, <2>4, <2>5, UnchangedTyped DEF InPhase, Over
  <2> QED BY <1>4, <2>3, <2>4 DEF ReadFile, AllSteps
<1>5. CASE ~crashed /\ LoadElement
  <2>1. /\ phase = "load" /\ UNCHANGED <<done, now, phase, config, created>>
    BY <1>5 DEF LoadElement
  <2>2. Typed'
    BY <1>1, <1>5, LoadTyped
  <2>3. (crashed' = crashed \/ crashed' = TRUE) /\ snapshots' = snapshots
    <3>1. ASSUME NEW element, NEW list, NEW removal, CreateParticipant(element, list, removal)
          PROVE  (crashed' = crashed \/ crashed' = TRUE) /\ snapshots' = snapshots
      BY <3>1 DEF CreateParticipant, Crash
    <3>2. ASSUME NEW element, NEW g, NEW owner, NEW list, NEW removal,
                 CreateEndpoint(element, g, owner, list, removal)
          PROVE  (crashed' = crashed \/ crashed' = TRUE) /\ snapshots' = snapshots
      BY <3>2 DEF CreateEndpoint, Crash
    <3>3. ASSUME NEW element, LoadLinked(element) \/ loadServer(element)
          PROVE  (crashed' = crashed \/ crashed' = TRUE) /\ snapshots' = snapshots
      BY <3>1, <3>3 DEF LoadLinked, loadServer, Skip, Fail, Crash
    <3>4. ASSUME NEW step, LoadEndpoint(step)
          PROVE  (crashed' = crashed \/ crashed' = TRUE) /\ snapshots' = snapshots
      BY <3>2, <3>4 DEF LoadEndpoint, Crash
    <3>5. ASSUME NEW element, loadSnapshot(element)
          PROVE  (crashed' = crashed \/ crashed' = TRUE) /\ snapshots' = snapshots
      BY <3>5 DEF loadSnapshot, Skip, Fail, Crash
    <3> QED BY <1>5, <3>3, <3>4, <3>5
               DEF LoadElement, loadClient, loadSimple, loadPublisher, loadSubscriber
  <2> QED BY <1>1, <2>1, <2>2, <2>3 DEF InPhase, Over
<1>6. CASE ~crashed /\ Loaded
  <2>1. /\ phase = "load" /\ phase' = "run" /\ todo = <<>> /\ created' = ~config.unset
        /\ crashed' \in BOOLEAN
        /\ UNCHANGED <<existing, events, done, now, config, todo>>
    BY <1>6 DEF Loaded, entities
  <2>2. config.unset \in BOOLEAN /\ config.root = "config"
    BY <1>1, <2>1 DEF Typed, Configuration, InPhase
  <2> QED BY <1>1, <1>6, <2>1, <2>2, UnchangedTyped DEF InPhase, Over
<1>7. CASE ~crashed /\ RunEvents
  <2>1. PICK i \in Pending : RunEvent(i)
    BY <1>7 DEF RunEvents
  <2>2. phase = "run" /\ UNCHANGED <<phase, config, todo, created>>
    BY <1>7 DEF RunEvents, mainVars
  <2>3. DOMAIN members = DOMAIN existing
    BY <1>1, <2>2 DEF IInv, Live, Consistent, Agreement
  <2>4. /\ Typed' /\ DOMAIN events' = DOMAIN events
        /\ crashed' = crashed \/ crashed' = TRUE
    BY <1>1, <2>1, <2>2, <2>3, RunTyped
  <2>5. config.root = "config"
    <3>1. events # <<>>
      BY <2>1 DEF Pending
    <3> QED BY <1>1, <3>1 DEF InPhase
  <2> QED BY <1>1, <2>2, <2>4, <2>5 DEF InPhase, Over
<1>8. CASE ~crashed /\ (UserShutdown \/ Validate \/ KeyPressed)
  <2>1. /\ phase \in {"run", "key"} /\ phase' \in {"key", "validated"}
        /\ UNCHANGED <<existing, events, done, now, config, created, crashed, todo>>
    BY <1>8 DEF UserShutdown, Validate, KeyPressed, Conclude, AllRun, entities
  <2> QED BY <1>1, <1>8, <2>1, UnchangedTyped DEF InPhase, Over
<1>9. CASE ~crashed /\ Terminate
  <2>1. /\ phase = "validated" /\ phase' = "terminated" /\ events' = <<>> /\ done' = {}
        /\ UNCHANGED <<now, config, created, crashed, todo>>
        /\ DOMAIN existing' \subseteq DOMAIN existing
    BY <1>9 DEF Terminate
  <2>2. todo = <<>>
    BY <1>1, <2>1 DEF InPhase
  <2>3. Typed'
    BY <1>1, <2>1, <2>2, NoEvents DEF Typed
  <2> QED BY <1>1, <1>9, <2>1, <2>3 DEF InPhase, Over
<1>10. CASE ~crashed /\ Exit
  <2>1. /\ phase = "terminated" /\ phase' = "exited"
        /\ UNCHANGED <<existing, events, done, now, config, created, crashed, todo>>
    BY <1>10 DEF Exit, entities
  <2> QED BY <1>1, <1>10, <2>1, UnchangedTyped DEF InPhase, Over
<1>11. ASSUME NEW s, NEW p, on_participant_discovery(s, p) PROVE Typed' /\ InPhase'
  <2>1. UNCHANGED <<existing, events, done, now, config, created, crashed, todo, phase, snapshots>>
    BY <1>11 DEF on_participant_discovery, entities, mainVars
  <2> QED BY <1>1, <2>1, UnchangedTyped DEF InPhase, Over
<1>12. CASE StartAgain
  <2>1. /\ phase = "exited" /\ phase' = "start" /\ created' = FALSE /\ now' = 0 /\ snapshots' = <<>>
        /\ DOMAIN existing' = {} /\ UNCHANGED <<events, done, crashed, todo>>
    BY <1>12 DEF StartAgain
  <2>2. config' \in Configuration
    BY <1>12 DEF StartAgain, FileConfiguration, Configuration
  <2>3. events = <<>> /\ todo = <<>> /\ crashed = FALSE
    BY <1>1, <2>1 DEF InPhase, Over
  <2>4. done = {}
    BY <1>1, <2>3 DEF Typed
  <2>5. Typed'
    BY <1>1, <2>1, <2>2, <2>3, <2>4, NoEvents DEF Typed
  <2> QED BY <1>1, <2>1, <2>3, <2>4, <2>5 DEF InPhase, Over
<1> QED BY <1>3, <1>4, <1>5, <1>6, <1>7, <1>8, <1>9, <1>10, <1>11, <1>12 DEF Next, Main

\* Every event that ever gets into the list is of the kind its links say, whatever
\* the configuration.
THEOREM ScheduleTyped == Spec => []ScheduleInv
BY InitScheduleInv, NextScheduleInv, PTL DEF Spec

-----------------------------------------------------------------------------
(* Participants follow their schedule.                                     *)

\* Events run in the order of their times.
InOrder ==
    /\ \A i \in done : events[i].time <= now
    /\ \A i \in Pending : now <= events[i].time

\* The step that loads a participant is still to come.
IsStepOf(i, g) == todo[i].what = "participant" /\ todo[i].element.guid = g

Awaited(g) == \E i \in DOMAIN todo : IsStepOf(i, g)

\* Every step is of the configuration, and that of a planned participant comes once.
StepsAreElements ==
    /\ \A i \in DOMAIN todo : todo[i].what = "participant" => todo[i].element \in Elements
    /\ \A element \in Elements : WellPlanned(element) =>
          \A i, j \in DOMAIN todo :
             IsStepOf(i, element.guid) /\ IsStepOf(j, element.guid) => i = j

\* Nothing is there of a participant before its step.
Untouched(g) ==
    /\ \A i \in DOMAIN events : /\ events[i].what = "create" => events[i].element.guid # g
                                /\ events[i].what = "destroy" => events[i].guid # g
    /\ g \notin DOMAIN members

(***************************************************************************)
(* Its creation event is c and its removal event d, and no others are      *)
(* about it.  The removal event has its GUID at the latest when it is      *)
(* there, and it is there between the two.                                 *)
(***************************************************************************)
OnPlan(element, c, d) ==
    /\ c = 0 <=> element.creation = 0
    /\ d = 0 <=> element.removal = 0
    /\ c # 0 => /\ c \in DOMAIN events /\ events[c].what = "create"
                /\ events[c].element = element /\ events[c].time = Second * element.creation
                /\ events[c].removal \in {0, d}
                /\ element.kind # "server" => events[c].removal = d
    /\ d # 0 => /\ d \in DOMAIN events /\ events[d].what = "destroy"
                /\ events[d].time = Second * element.removal
                /\ element.fixed \/ c = 0 \/ c \in done => events[d].guid = element.guid
    /\ \A i \in DOMAIN events :
          /\ events[i].what = "create" /\ events[i].element.guid = element.guid => i = c
          /\ events[i].what = "destroy" /\ events[i].guid = element.guid => i = d
          /\ events[i].what = "create" /\ d # 0 /\ events[i].removal = d => i = c
    /\ element.guid \in DOMAIN members <=> (c = 0 \/ c \in done) /\ (d = 0 \/ d \notin done)

Planned(element) ==
    IF Awaited(element.guid) THEN Untouched(element.guid)
    ELSE \E c, d \in Nat : OnPlan(element, c, d)

Scheduling == phase = "load" \/ (phase = "run" /\ created = TRUE)

PlanInv ==
    /\ InOrder
    /\ StepsAreElements
    /\ Scheduling /\ ~crashed => \A element \in Elements : WellPlanned(element) => Planned(element)

\* What a step adds is about others.
NewAboutOthers(g) ==
    \A i \in DOMAIN events' \ DOMAIN events :
        /\ events'[i].what = "create" =>
              events'[i].element.guid # g /\ events'[i].removal \notin DOMAIN events
        /\ events'[i].what = "destroy" => events'[i].guid # g

ParticipantEventsKept ==
    /\ Kept(events, events')
    /\ \A i \in DOMAIN events : events[i].what \in {"create", "destroy"} => events'[i] = events[i]

\* A planned participant in a step that is about others.
LEMMA UntouchedKept ==
    ASSUME NEW g, Untouched(g), ParticipantEventsKept, NewAboutOthers(g),
           g \in DOMAIN members' => g \in DOMAIN members
    PROVE  Untouched(g)'
<1>1. ASSUME NEW i \in DOMAIN events'
      PROVE  /\ events'[i].what = "create" => events'[i].element.guid # g
             /\ events'[i].what = "destroy" => events'[i].guid # g
  <2>1. CASE i \in DOMAIN events
    BY <2>1 DEF Untouched, ParticipantEventsKept, Kept, SameEvent
  <2>2. CASE i \notin DOMAIN events
    BY <2>2 DEF NewAboutOthers
  <2> QED BY <2>1, <2>2
<1> QED BY <1>1 DEF Untouched

\* The same once it is loaded.
LEMMA OnPlanKept ==
    ASSUME NEW element, NEW c, NEW d, OnPlan(element, c, d), ParticipantEventsKept,
           NewAboutOthers(element.guid),
           c \in done' <=> c \in done, d \in done' <=> d \in done,
           element.guid \in DOMAIN members' <=> element.guid \in DOMAIN members
    PROVE  OnPlan(element, c, d)'
<1>1. c # 0 => c \in DOMAIN events' /\ events'[c] = events[c]
  BY DEF OnPlan, ParticipantEventsKept, Kept
<1>2. d # 0 => d \in DOMAIN events' /\ events'[d] = events[d] /\ d \in DOMAIN events
  BY DEF OnPlan, ParticipantEventsKept, Kept
<1>3. ASSUME NEW i \in DOMAIN events'
      PROVE  /\ events'[i].what = "create" /\ events'[i].element.guid = element.guid => i = c
             /\ events'[i].what = "destroy" /\ events'[i].guid = element.guid => i = d
             /\ events'[i].what = "create" /\ d # 0 /\ events'[i].removal = d => i = c
  <2>1. CASE i \in DOMAIN events
    BY <2>1 DEF OnPlan, ParticipantEventsKept, Kept, SameEvent
  <2>2. CASE i \notin DOMAIN events
    BY <1>2, <2>2 DEF NewAboutOthers
  <2> QED BY <2>1, <2>2
<1> QED BY <1>1, <1>2, <1>3 DEF OnPlan

\* The order of the events.
LEMMA LoadInOrder ==
    ASSUME Typed', done' = {}, now' = 0
    PROVE  InOrder'
<1>1. ASSUME NEW i \in DOMAIN events' PROVE events'[i].time \in Nat
  <2>1. events'[i] \in Event
    BY DEF Typed, IsList
  <2> QED BY <2>1, EventKinds
<1> QED BY <1>1 DEF InOrder, Pending

\* The event that runs is a next one.
LEMMA RunInOrder ==
    ASSUME Typed, InOrder, NEW i \in Pending, RunEvent(i), Kept(events, events'),
           DOMAIN events' = DOMAIN events
    PROVE  InOrder'
<1>1. /\ done' = done \cup {i} /\ now' = events[i].time
      /\ \A j \in Pending : events[i].time <= events[j].time
  BY DEF RunEvent, Due
<1>2. \A j \in DOMAIN events : events[j].time \in Nat /\ events'[j].time = events[j].time
  BY EventKinds DEF Typed, IsList, Kept, SameEvent
<1>3. i \in DOMAIN events /\ done \subseteq DOMAIN events /\ now \in Nat
  BY DEF Pending, Typed
<1>4. ASSUME NEW j \in done' PROVE events'[j].time <= now'
  <2>1. CASE j = i
    BY <1>1, <1>2, <1>3, <2>1
  <2>2. CASE j \in done
    <3>1. events[j].time <= now /\ now <= events[i].time
      BY <2>2 DEF InOrder
    <3> QED BY <1>1, <1>2, <1>3, <2>2, <3>1
  <2> QED BY <1>1, <2>1, <2>2
<1>5. ASSUME NEW j \in Pending' PROVE now' <= events'[j].time
  <2>1. j \in Pending
    BY <1>1 DEF Pending
  <2> QED BY <1>1, <1>2, <2>1 DEF Pending
<1> QED BY <1>4, <1>5 DEF InOrder

\* The first step goes, and endpoint steps may come.
LEMMA StepsRest ==
    ASSUME Typed, StepsAreElements, NEW first \in Seq(EndpointsToLoad), todo' \in Seq(Step),
           Moved(todo, first, todo'), config' = config
    PROVE  /\ StepsAreElements'
           /\ \A g : Awaited(g)' <=> \E i \in DOMAIN todo \ {1} : IsStepOf(i, g)
<1> DEFINE n == Len(first)
<1>1. n \in Nat
  OBVIOUS
<1>2. /\ \A i \in DOMAIN todo' :
            \/ i \in DOMAIN first /\ todo'[i] = first[i]
            \/ i - n + 1 \in DOMAIN todo \ {1} /\ todo'[i] = todo[i - n + 1]
      /\ \A i \in DOMAIN todo \ {1} : i + n - 1 \in DOMAIN todo' /\ todo'[i + n - 1] = todo[i]
      /\ todo' \in Seq(Step)
  BY DEF Moved
<1>3. \A i \in DOMAIN first : first[i].what = "endpoint"
  <2>1. \A i \in DOMAIN first : first[i] \in EndpointsToLoad
    OBVIOUS
  <2> QED BY <2>1 DEF EndpointsToLoad
<1> HIDE DEF n
<1>4. ASSUME NEW i \in DOMAIN todo', todo'[i].what = "participant"
      PROVE  /\ i \in Int /\ i - n + 1 \in DOMAIN todo \ {1} /\ todo'[i] = todo[i - n + 1]
  BY <1>2, <1>3, <1>4
<1>5. \A i \in DOMAIN todo' : todo'[i].what = "participant" => todo'[i].element \in Elements'
  <2>1. Elements' = Elements
    BY DEF Elements
  <2> QED BY <1>4, <2>1 DEF StepsAreElements
<1>6. ASSUME NEW element \in Elements', WellPlanned(element)', NEW i \in DOMAIN todo',
             NEW j \in DOMAIN todo', IsStepOf(i, element.guid)', IsStepOf(j, element.guid)'
      PROVE  i = j
  <2>1. element \in Elements /\ WellPlanned(element)
    BY <1>6 DEF Elements, WellPlanned
  <2>2. i - n + 1 = j - n + 1
    <3>1. todo'[i].what = "participant" /\ todo'[j].what = "participant"
      BY <1>6 DEF IsStepOf
    <3>2. /\ i - n + 1 \in DOMAIN todo /\ j - n + 1 \in DOMAIN todo
          /\ IsStepOf(i - n + 1, element.guid) /\ IsStepOf(j - n + 1, element.guid)
      BY <1>4, <1>6, <3>1 DEF IsStepOf
    <3> QED BY <2>1, <3>2 DEF StepsAreElements
  <2>3. i \in Int /\ j \in Int
    BY <1>2
  <2> QED BY <1>1, <2>2, <2>3
<1>7. ASSUME NEW g PROVE Awaited(g)' <=> \E i \in DOMAIN todo \ {1} : IsStepOf(i, g)
  <2>1. ASSUME NEW i \in DOMAIN todo', IsStepOf(i, g)'
        PROVE  \E k \in DOMAIN todo \ {1} : IsStepOf(k, g)
    <3>1. i - n + 1 \in DOMAIN todo \ {1} /\ todo'[i] = todo[i - n + 1]
      BY <1>4, <2>1 DEF IsStepOf
    <3>2. IsStepOf(i - n + 1, g)
      BY <2>1, <3>1 DEF IsStepOf
    <3> QED BY <3>1, <3>2
  <2>2. ASSUME NEW i \in DOMAIN todo \ {1}, IsStepOf(i, g)
        PROVE  Awaited(g)'
    BY <1>2, <2>2 DEF Awaited, IsStepOf
  <2> QED BY <2>1, <2>2 DEF Awaited
<1> QED BY <1>5, <1>6, <1>7 DEF StepsAreElements

\* The first step goes, and none comes.
LEMMA StepsTail ==
    ASSUME Typed, StepsAreElements, todo # <<>>, todo' = Tail(todo), config' = config
    PROVE  /\ StepsAreElements'
           /\ \A g : Awaited(g)' <=> \E i \in DOMAIN todo \ {1} : IsStepOf(i, g)
<1> DEFINE first == <<>>
<1>1. first \in Seq(EndpointsToLoad)
  OBVIOUS
<1>2. todo' \in Seq(Step) /\ Moved(todo, first, todo')
  BY TodoTail
<1> HIDE DEF first
<1> QED BY <1>1, <1>2, StepsRest

\* Elements that are planned are told apart by their GUIDs.
LEMMA SameGuid ==
    ASSUME NEW element \in Elements, WellPlanned(element), NEW other \in Elements,
           other.guid = element.guid
    PROVE  other = element
BY DEF Elements, WellPlanned

\* What an element's configuration says of it.
LEMMA ElementTyped ==
    ASSUME config \in Configuration, NEW element \in Elements
    PROVE  /\ element \in ParticipantElement
           /\ element.guid \in Participant /\ element.guid # Unknown
           /\ element.creation \in Nat /\ element.removal \in Nat
<1>1. config.participants \in Seq(ParticipantElement)
  BY DEF Configuration
<1>2. element \in ParticipantElement
  BY <1>1 DEF Elements
<1> QED BY <1>2, UnknownAssumption DEF ParticipantElement

\* What an element adds to the list is about no other participant.
LEMMA ArrangedAboutOthers ==
    ASSUME Typed, NEW element \in ParticipantElement, NEW c, NEW d,
           Arranged(events, events', element, c, d), NEW g, g # element.guid, g # Unknown
    PROVE  ParticipantEventsKept /\ NewAboutOthers(g)
<1>1. ParticipantEventsKept
  BY DEF Arranged, ParticipantEventsKept
<1>2. ASSUME NEW i \in DOMAIN events' \ DOMAIN events
      PROVE  /\ events'[i].what = "create" =>
                   events'[i].element.guid # g /\ events'[i].removal \notin DOMAIN events
             /\ events'[i].what = "destroy" => events'[i].guid # g
  <2>1. 0 \notin DOMAIN events
    BY DEF Typed, IsList
  <2>2. i # 0
    BY DEF Arranged, Kept, IsList
  <2>3. CASE i = c
    <3>1. /\ events'[i] = CreateParticipantEvent(Second * element.creation, element,
                                                 IF element.kind = "server" THEN 0 ELSE d)
          /\ d # 0 => d \notin DOMAIN events
      BY <2>2, <2>3 DEF Arranged
    <3> QED BY <2>1, <3>1 DEF CreateParticipantEvent
  <2>4. CASE i = d
    <3>1. events'[i] = DestroyParticipantEvent(Second * element.removal,
                          IF element.kind # "server" /\ c = 0 THEN element.guid
                          ELSE ConfiguredGuid(element))
      BY <2>2, <2>4 DEF Arranged
    <3>2. ConfiguredGuid(element) # g
      BY DEF ConfiguredGuid
    <3> QED BY <3>1, <3>2 DEF DestroyParticipantEvent
  <2> QED BY <2>3, <2>4 DEF Arranged
<1> QED BY <1>1, <1>2 DEF NewAboutOthers

\* What it adds puts it on plan.
LEMMA ArrangedOnPlan ==
    ASSUME Typed, NEW element \in Elements, WellPlanned(element), Untouched(element.guid),
           NEW c \in Nat, NEW d \in Nat, Arranged(events, events', element, c, d), done' = {},
           element.guid \in DOMAIN members' <=> element.creation = 0
    PROVE  OnPlan(element, c, d)'
<1>1. /\ c = 0 <=> element.creation = 0
      /\ d = 0 <=> element.removal = 0
      /\ c # 0 => /\ c \in DOMAIN events' \ DOMAIN events
                  /\ events'[c] = CreateParticipantEvent(Second * element.creation, element,
                                                         IF element.kind = "server" THEN 0 ELSE d)
      /\ d # 0 => /\ d \in DOMAIN events' \ DOMAIN events
                  /\ events'[d] = DestroyParticipantEvent(Second * element.removal,
                                      IF element.kind # "server" /\ c = 0 THEN element.guid
                                      ELSE ConfiguredGuid(element))
      /\ \A i \in DOMAIN events' \ DOMAIN events : i = c \/ i = d
      /\ \A i \in DOMAIN events : i \in DOMAIN events' /\ events'[i] = events[i]
  BY DEF Arranged, Kept
<1>2. c # 0 => /\ events'[c].what = "create" /\ events'[c].element = element
               /\ events'[c].time = Second * element.creation
               /\ events'[c].removal \in {0, d}
               /\ element.kind # "server" => events'[c].removal = d
  BY <1>1 DEF CreateParticipantEvent
<1>3. d # 0 => /\ events'[d].what = "destroy" /\ events'[d].time = Second * element.removal
               /\ element.fixed \/ c = 0 => events'[d].guid = element.guid
  <2> SUFFICES ASSUME d # 0 PROVE /\ events'[d].what = "destroy"
                                  /\ events'[d].time = Second * element.removal
                                  /\ element.fixed \/ c = 0 => events'[d].guid = element.guid
    OBVIOUS
  <2>1. element.kind = "server" => element.fixed
    BY <1>1 DEF WellPlanned
  <2>2. element.fixed => ConfiguredGuid(element) = element.guid
    BY DEF ConfiguredGuid
  <2> QED BY <1>1, <2>1, <2>2 DEF DestroyParticipantEvent
<1>4. ASSUME NEW i \in DOMAIN events'
      PROVE  /\ events'[i].what = "create" /\ events'[i].element.guid = element.guid => i = c
             /\ events'[i].what = "destroy" /\ events'[i].guid = element.guid => i = d
             /\ events'[i].what = "create" /\ d # 0 /\ events'[i].removal = d => i = c
  <2>1. CASE i \in DOMAIN events
    <3>1. events'[i] = events[i]
      BY <1>1, <2>1
    <3>2. events[i].what = "create" /\ events[i].removal # 0 => events[i].removal \in DOMAIN events
      BY <2>1 DEF Typed, IsList, LinkedIn
    <3> QED BY <1>1, <2>1, <3>1, <3>2 DEF Untouched
  <2>2. CASE i \notin DOMAIN events
    <3>1. i # 0
      BY DEF Arranged, Kept, IsList
    <3> QED BY <1>1, <1>2, <1>3, <2>2, <3>1
  <2> QED BY <2>1, <2>2
<1> QED BY <1>1, <1>2, <1>3, <1>4 DEF OnPlan

\* A planned participant in a step of the constructor that is about others.
LEMMA PlannedOther ==
    ASSUME NEW element, Planned(element),
           Awaited(element.guid)' <=> Awaited(element.guid),
           ParticipantEventsKept, NewAboutOthers(element.guid), done' = done,
           element.guid \in DOMAIN members' <=> element.guid \in DOMAIN members
    PROVE  Planned(element)'
<1>1. CASE Awaited(element.guid)
  <2>1. Untouched(element.guid)'
    BY <1>1, UntouchedKept DEF Planned
  <2> QED BY <1>1, <2>1 DEF Planned
<1>2. CASE ~Awaited(element.guid)
  <2>1. PICK c \in Nat, d \in Nat : OnPlan(element, c, d)
    BY <1>2 DEF Planned
  <2>2. OnPlan(element, c, d)'
    BY <2>1, OnPlanKept
  <2> QED BY <1>2, <2>2 DEF Planned
<1> QED BY <1>1, <1>2

\* The constructor loads a participant.
LEMMA LoadPlanned ==
    ASSUME Typed, DOMAIN members = DOMAIN existing, done = {}, done' = {}, StepsAreElements,
           config' = config, todo # <<>>, todo[1].what = "participant",
           PassedOver(todo[1].element) \/ Accepted(todo[1].element),
           NEW element \in Elements, WellPlanned(element), Planned(element)
    PROVE  Planned(element)' /\ StepsAreElements'
<1> DEFINE other == todo[1].element
           g == element.guid
<1>1. /\ 1 \in DOMAIN todo /\ other \in Elements /\ config \in Configuration
      /\ DOMAIN members \subseteq Participant
  BY HeadStep DEF StepsAreElements, Typed
<1>2. /\ other \in ParticipantElement /\ element \in ParticipantElement
      /\ g # Unknown /\ Unknown \notin DOMAIN members
  BY <1>1, ElementTyped, UnknownAssumption
<1>3. g # other.guid => (Awaited(g) <=> \E i \in DOMAIN todo \ {1} : IsStepOf(i, g))
  BY DEF Awaited, IsStepOf
<1>4. g = other.guid => /\ Awaited(g) /\ ~\E i \in DOMAIN todo \ {1} : IsStepOf(i, g)
                        /\ other = element /\ Untouched(g)
  <2> SUFFICES ASSUME g = other.guid
               PROVE  /\ Awaited(g) /\ ~\E i \in DOMAIN todo \ {1} : IsStepOf(i, g)
                      /\ other = element /\ Untouched(g)
    OBVIOUS
  <2>1. IsStepOf(1, g)
    BY DEF IsStepOf
  <2>2. Awaited(g) /\ \A i \in DOMAIN todo : IsStepOf(i, g) => i = 1
    BY <1>1, <2>1 DEF Awaited, StepsAreElements
  <2>3. other = element
    BY <1>1, SameGuid
  <2> QED BY <2>2, <2>3 DEF Planned
<1>5. CASE PassedOver(other)
  <2>1. /\ todo' = Tail(todo) /\ UNCHANGED <<members, events>>
        /\ ~Usable(other) \/ (other.kind = "server" /\ SharesPrefix(other))
    BY <1>5 DEF PassedOver, Skip, entities
  <2>2. /\ StepsAreElements'
        /\ Awaited(g)' <=> \E i \in DOMAIN todo \ {1} : IsStepOf(i, g)
    BY <2>1, StepsTail
  <2>3. g # other.guid
    <3> SUFFICES ASSUME g = other.guid PROVE FALSE
      OBVIOUS
    <3>1. SharesPrefix(element) /\ Untouched(g)
      BY <1>4, <2>1 DEF WellPlanned
    <3>2. ConfiguredGuid(element) \in DOMAIN members
      BY <3>1 DEF SharesPrefix
    <3> QED BY <1>2, <3>1, <3>2 DEF ConfiguredGuid, Untouched
  <2>4. ParticipantEventsKept /\ NewAboutOthers(g)
    BY <2>1, KeptSame DEF ParticipantEventsKept, NewAboutOthers, Typed
  <2>5. Planned(element)'
    BY <1>3, <2>1, <2>2, <2>3, <2>4, PlannedOther
  <2> QED BY <2>2, <2>5
<1>6. CASE Accepted(other)
  <2>1. PICK c \in Nat, d \in Nat, first \in Seq(EndpointsToLoad) :
           Arranged(events, events', other, c, d) /\ todo' = first \o Tail(todo)
    BY <1>6 DEF Accepted
  <2>2. todo' \in Seq(Step) /\ Moved(todo, first, todo')
    BY <2>1, TodoRest
  <2>3. /\ StepsAreElements'
        /\ Awaited(g)' <=> \E i \in DOMAIN todo \ {1} : IsStepOf(i, g)
    BY <2>2, StepsRest
  <2>4. DOMAIN members' = IF other.creation = 0 THEN DOMAIN members \cup {other.guid}
                          ELSE DOMAIN members
    BY <1>6 DEF Accepted, Arrives, Joins, Put, entities
  <2>5. CASE g = other.guid
    <3>1. Untouched(g) /\ other = element /\ ~Awaited(g)'
      BY <1>4, <2>3, <2>5
    <3>2. g \in DOMAIN members' <=> element.creation = 0
      BY <2>4, <3>1 DEF Untouched
    <3>3. OnPlan(element, c, d)'
      BY <2>1, <3>1, <3>2, ArrangedOnPlan
    <3> QED BY <2>3, <3>1, <3>3 DEF Planned
  <2>6. CASE g # other.guid
    <3>1. ParticipantEventsKept /\ NewAboutOthers(g)
      BY <1>2, <2>1, <2>6, ArrangedAboutOthers
    <3>2. g \in DOMAIN members' <=> g \in DOMAIN members
      BY <2>4, <2>6
    <3> QED BY <1>3, <2>3, <2>6, <3>1, <3>2, PlannedOther
  <2> QED BY <2>5, <2>6
<1> QED BY <1>5, <1>6

\* Times in ticks are ordered as the times in seconds are.
LEMMA SecondsInOrder ==
    ASSUME NEW s \in Nat, NEW t \in Nat, s < t
    PROVE  /\ Second * s \in Nat /\ Second * t \in Nat
           /\ Second * s + Second <= Second * t
<1>1. Second \in Nat /\ s + 1 <= t
  BY SecondAssumption
<1>2. PICK k \in Nat : t = (s + 1) + k
  <2>1. t - (s + 1) \in Nat /\ t = (s + 1) + (t - (s + 1))
    BY <1>1
  <2> QED BY <2>1
<1>3. Second * t = Second * s + Second + Second * k /\ Second * k \in Nat /\ Second * s \in Nat
  BY <1>1, <1>2
<1> QED BY <1>1, <1>3

\* An event runs, and a participant stays on plan.
LEMMA RunOnPlan ==
    ASSUME Typed, InOrder, DOMAIN members = DOMAIN existing, NEW i \in Pending, RunEvent(i),
           ~crashed',
           NEW element \in Elements, WellPlanned(element), NEW c \in Nat, NEW d \in Nat,
           OnPlan(element, c, d)
    PROVE  OnPlan(element, c, d)'
<1> DEFINE g == element.guid
<1>1. /\ i \in DOMAIN events /\ i \notin done /\ events[i] \in Event /\ IsList(events)
      /\ Execute(i, events[i])
      /\ done' = done \cup {i} /\ now' = events[i].time
      /\ \A j \in Pending : events[i].time <= events[j].time
  BY DEF Pending, RunEvent, Due, Typed, IsList
<1>2. i # 0 /\ 0 \notin done /\ \A j \in DOMAIN events : events[j].time \in Nat
  BY <1>1, EventKinds DEF IsList, Typed
<1>3. /\ g # Unknown /\ element.creation \in Nat /\ element.removal \in Nat
      /\ d # 0 => element.creation < element.removal
      /\ c # 0 /\ d # 0 => events[c].time < events[d].time
  <2>1. g # Unknown /\ element.creation \in Nat /\ element.removal \in Nat
    BY ElementTyped DEF Typed
  <2>2. d # 0 => element.creation < element.removal
    BY DEF WellPlanned, OnPlan
  <2>3. ASSUME c # 0, d # 0 PROVE events[c].time < events[d].time
    <3>1. /\ Second * element.creation \in Nat /\ Second * element.removal \in Nat
          /\ Second * element.creation + Second <= Second * element.removal
      BY <2>1, <2>2, <2>3, SecondsInOrder
    <3>2. Second * element.creation < Second * element.removal
      BY <3>1, SecondAssumption
    <3>3. events[c].time = Second * element.creation /\ events[d].time = Second * element.removal
      BY <2>3 DEF OnPlan
    <3> QED BY <3>2, <3>3
  <2> QED BY <2>1, <2>2, <2>3
<1>4. ASSUME i # c, i # d, ParticipantEventsKept, NewAboutOthers(g),
             g \in DOMAIN members' <=> g \in DOMAIN members
      PROVE  OnPlan(element, c, d)'
  <2>1. (c \in done' <=> c \in done) /\ (d \in done' <=> d \in done)
    BY <1>1, <1>4
  <2> QED BY <1>4, <2>1, OnPlanKept
<1>5. CASE events[i].what = "create"
  <2> DEFINE other == events[i].element
             r == events[i].removal
  <2>1. Joins(other) /\ Announced(i, other, r)
    BY <1>1, <1>5, RunsCreation
  <2>2. r # 0 => r \in DOMAIN events /\ events[r].what = "destroy"
    BY <1>1, <1>5, RunsCreation
  <2>3. /\ Kept(events, events') /\ DOMAIN events' = DOMAIN events
        /\ r # 0 => events'[r].guid = other.guid
        /\ \A j \in DOMAIN events \ {i, r} : events'[j] = events[j]
    BY <2>1 DEF Announced
  <2>4. DOMAIN members' = DOMAIN members \cup {other.guid}
    BY <2>1 DEF Joins, Put
  <2>5. \A j \in DOMAIN events : SameEvent(events[j], events'[j])
    BY <2>3 DEF Kept
  <2>6. i # d /\ (r # 0 => r # c)
    BY <1>2, <1>5, <2>2 DEF OnPlan
  <2> HIDE DEF r, other
  <2>7. CASE i = c
    <3>1. other = element /\ c # 0
      BY <1>2, <2>7 DEF OnPlan, other
    <3>2. d # 0 => d \notin done
      <4> SUFFICES ASSUME d # 0, d \in done PROVE FALSE
        OBVIOUS
      <4>1. events[d].time <= now /\ now <= events[c].time
        BY <1>1, <2>7 DEF InOrder, Pending
      <4>2. now \in Nat /\ events[d].time \in Nat /\ events[c].time \in Nat
        BY <1>1, <1>2, <2>7 DEF Typed
      <4> QED BY <1>3, <3>1, <4>1, <4>2
    <3>3. d # 0 => events'[d].guid = g
      <4> SUFFICES ASSUME d # 0 PROVE events'[d].guid = g
        OBVIOUS
      <4>1. CASE r = d
        BY <2>3, <3>1, <4>1
      <4>2. CASE r # d
        <5>1. element.kind = "server" /\ element.removal # 0
          BY <2>7, <3>1, <4>2 DEF OnPlan, r
        <5>2. element.fixed
          BY <5>1 DEF WellPlanned
        <5>3. events[d].guid = g /\ d \in DOMAIN events
          BY <5>2 DEF OnPlan
        <5> QED BY <2>3, <2>6, <4>2, <5>3
      <4> QED BY <4>1, <4>2
    <3>4. ASSUME NEW j \in DOMAIN events'
          PROVE  /\ events'[j].what = "create" /\ events'[j].element.guid = g => j = c
                 /\ events'[j].what = "destroy" /\ events'[j].guid = g => j = d
                 /\ events'[j].what = "create" /\ d # 0 /\ events'[j].removal = d => j = c
      <4>1. /\ j \in DOMAIN events /\ events'[j].what = events[j].what
            /\ events[j].what = "create" => /\ events'[j].element = events[j].element
                                            /\ events'[j].removal = events[j].removal
        BY <2>3, <2>5 DEF SameEvent
      <4>2. j \notin {i, r} => events'[j] = events[j]
        BY <2>3, <4>1
      <4>3. j = i => events'[j].what = "create"
        BY <1>5, <4>1
      <4>4. r = 0 \/ r = d
        BY <2>7, <3>1 DEF OnPlan, r
      <4>5. j = r => r = d
        BY <1>1, <4>1, <4>4 DEF IsList
      <4> QED BY <4>1, <4>2, <4>3, <4>5 DEF OnPlan
    <3>5. /\ c \in DOMAIN events' /\ events'[c].what = "create" /\ events'[c].element = element
          /\ events'[c].time = Second * element.creation
          /\ events'[c].removal \in {0, d}
          /\ element.kind # "server" => events'[c].removal = d
      BY <1>1, <2>3, <2>5, <2>7, <3>1 DEF OnPlan, SameEvent
    <3>6. d # 0 => /\ d \in DOMAIN events' /\ events'[d].what = "destroy"
                   /\ events'[d].time = Second * element.removal
      BY <2>3, <2>5 DEF OnPlan, SameEvent
    <3>7. g \in DOMAIN members' /\ c \in done' /\ (d = 0 \/ d \notin done')
      BY <1>1, <2>4, <2>6, <2>7, <3>1, <3>2
    <3> QED BY <3>3, <3>4, <3>5, <3>6, <3>7 DEF OnPlan
  <2>8. CASE i # c
    <3>1. other.guid # g
      BY <1>1, <1>5, <2>8 DEF OnPlan, other
    <3>2. d # 0 => r # d
      BY <1>1, <1>5, <2>8 DEF OnPlan, r
    <3>3. d # 0 => d \in DOMAIN events' /\ events'[d] = events[d]
      BY <2>3, <2>6, <3>2 DEF OnPlan
    <3>4. c # 0 => c \in DOMAIN events' /\ events'[c] = events[c]
      <4> SUFFICES ASSUME c # 0 PROVE c \in DOMAIN events' /\ events'[c] = events[c]
        OBVIOUS
      <4>1. c \in DOMAIN events /\ c # r
        BY <2>6 DEF OnPlan
      <4> QED BY <2>3, <2>8, <4>1
    <3>5. ASSUME NEW j \in DOMAIN events'
          PROVE  /\ events'[j].what = "create" /\ events'[j].element.guid = g => j = c
                 /\ events'[j].what = "destroy" /\ events'[j].guid = g => j = d
                 /\ events'[j].what = "create" /\ d # 0 /\ events'[j].removal = d => j = c
      <4>1. /\ j \in DOMAIN events /\ events'[j].what = events[j].what
            /\ events[j].what = "create" => /\ events'[j].element = events[j].element
                                            /\ events'[j].removal = events[j].removal
        BY <2>3, <2>5 DEF SameEvent
      <4>2. j \notin {i, r} => events'[j] = events[j]
        BY <2>3, <4>1
      <4>3. j = i => events'[j].what = "create"
        BY <1>5, <4>1
      <4>4. j = r => events'[j].guid # g
        BY <1>1, <2>3, <3>1, <4>1 DEF IsList
      <4> QED BY <4>1, <4>2, <4>3, <4>4 DEF OnPlan
    <3>6. /\ g \in DOMAIN members' <=> g \in DOMAIN members
          /\ c \in done' <=> c \in done
          /\ d \in done' <=> d \in done
      BY <1>1, <2>4, <2>6, <2>8, <3>1
    <3> QED BY <3>3, <3>4, <3>5, <3>6 DEF OnPlan
  <2> QED BY <2>7, <2>8
<1>6. CASE events[i].what = "destroy"
  <2>1. events' = events /\ DOMAIN members' = DOMAIN members \ {events[i].guid}
    BY <1>1, <1>6, RunsDestruction
  <2>2. i # c
    BY <1>2, <1>6 DEF OnPlan
  <2>3. CASE i = d
    <3>1. c = 0 \/ c \in done
      <4> SUFFICES ASSUME c # 0, c \notin done PROVE FALSE
        OBVIOUS
      <4>1. c \in Pending /\ d # 0
        BY <1>2, <2>3 DEF OnPlan, Pending
      <4>2. events[d].time <= events[c].time
        BY <1>1, <2>3, <4>1
      <4>3. events[d].time \in Nat /\ events[c].time \in Nat
        BY <1>1, <1>2, <2>3, <4>1 DEF Pending
      <4> QED BY <1>3, <4>1, <4>2, <4>3
    <3>2. events[i].guid = g
      BY <1>2, <2>3, <3>1 DEF OnPlan
    <3>3. g \notin DOMAIN members' /\ d \in done' /\ d # 0 /\ (c \in done' <=> c \in done)
      BY <1>1, <1>2, <2>1, <2>2, <2>3, <3>2
    <3> QED BY <2>1, <3>1, <3>3 DEF OnPlan
  <2>4. CASE i # d
    <3>1. events[i].guid # g
      BY <1>1, <1>6, <2>4 DEF OnPlan
    <3>2. ParticipantEventsKept /\ NewAboutOthers(g)
      BY <1>1, <2>1, KeptSame DEF ParticipantEventsKept, NewAboutOthers
    <3> QED BY <1>4, <2>1, <2>2, <2>4, <3>1, <3>2
  <2> QED BY <2>3, <2>4
<1>7. CASE events[i].what \in {"createEndpoint", "destroyEndpoint"}
  <2>1. members' = members /\ OnlyEndpoints(events, events')
    BY <1>1, <1>7, RunsEndpointEvent
  <2>2. ParticipantEventsKept /\ NewAboutOthers(g)
    BY <2>1 DEF ParticipantEventsKept, NewAboutOthers, OnlyEndpoints
  <2>3. i # c /\ i # d
    BY <1>2, <1>7 DEF OnPlan
  <2> QED BY <1>4, <2>1, <2>2, <2>3
<1>8. CASE events[i].what = "snapshot"
  <2>1. members' = members /\ events' = events
    BY <1>1, <1>8 DEF Execute, TakeSnapshot, entities
  <2>2. ParticipantEventsKept /\ NewAboutOthers(g)
    BY <1>1, <2>1, KeptSame DEF ParticipantEventsKept, NewAboutOthers
  <2>3. i # c /\ i # d
    BY <1>2, <1>8 DEF OnPlan
  <2> QED BY <1>4, <2>1, <2>2, <2>3
<1> QED BY <1>1, <1>5, <1>6, <1>7, <1>8, EventKinds

\* A step after which there is no schedule any more, or none yet.
LEMMA NotScheduling ==
    ASSUME ~Scheduling', todo' = <<>>, events' = <<>>, done' = {}
    PROVE  PlanInv'
<1>1. InOrder'
  BY DEF InOrder, Pending
<1>2. StepsAreElements'
  BY DEF StepsAreElements
<1> QED BY <1>1, <1>2 DEF PlanInv

\* A step that leaves the schedule alone.
LEMMA UnchangedPlan ==
    ASSUME PlanInv, UNCHANGED <<config, events, todo, done, now, members>>,
           Scheduling' /\ ~crashed' => Scheduling /\ ~crashed
    PROVE  PlanInv'
BY DEF PlanInv, InOrder, Pending, StepsAreElements, IsStepOf, Elements, WellPlanned, Planned,
       Awaited, Untouched, OnPlan

\* The constructor starts, with everybody's step to come.
LEMMA StartPlanned ==
    ASSUME Typed, Typed', config' = config, events' = <<>>, todo' = AllSteps, done' = {}, now' = 0,
           DOMAIN members' = {}
    PROVE  PlanInv'
<1> DEFINE n == Len(config.participants)
           m == Len(config.snapshots)
<1>1. /\ n \in Nat /\ DOMAIN config.participants = 1 .. n
      /\ todo' \in Seq(Step) /\ Len(todo') = n + m /\ m \in Nat
      /\ \A i \in 1 .. n : todo'[i] = [what |-> "participant", element |-> config.participants[i]]
      /\ \A i \in DOMAIN todo' :
            \/ i \in 1 .. n
            \/ i - n \in 1 .. m /\ todo'[i] = [what |-> "snapshot",
                                               element |-> config.snapshots[i - n]]
  <2>1. config \in Configuration
    BY DEF Typed
  <2> QED BY <2>1, AllStepsFacts, Zenon
<1> HIDE DEF n, m
<1>2. \A i \in DOMAIN config.participants :
         /\ i \in DOMAIN todo' /\ todo'[i].what = "participant"
         /\ todo'[i].element = config.participants[i]
  <2> SUFFICES ASSUME NEW i \in 1 .. n
               PROVE  /\ i \in DOMAIN todo' /\ todo'[i].what = "participant"
                      /\ todo'[i].element = config.participants[i]
    BY <1>1
  <2>1. i \in DOMAIN todo'
    BY <1>1
  <2>2. todo'[i] = [what |-> "participant", element |-> config.participants[i]]
    BY <1>1, Zenon
  <2> QED BY <2>1, <2>2
<1>3. \A i \in DOMAIN todo' : todo'[i].what = "participant" => i \in DOMAIN config.participants
  <2> SUFFICES ASSUME NEW i \in DOMAIN todo', i \notin 1 .. n PROVE todo'[i].what = "snapshot"
    BY <1>1
  <2>1. todo'[i] = [what |-> "snapshot", element |-> config.snapshots[i - n]]
    BY <1>1, Zenon
  <2> QED BY <2>1
<1>4. Elements' = Elements
  BY DEF Elements
<1>5. StepsAreElements'
  <2>1. \A i \in DOMAIN todo' : todo'[i].what = "participant" => todo'[i].element \in Elements
    BY <1>2, <1>3 DEF Elements
  <2>2. ASSUME NEW element \in Elements, WellPlanned(element)', NEW i \in DOMAIN todo',
               NEW j \in DOMAIN todo', IsStepOf(i, element.guid)', IsStepOf(j, element.guid)'
        PROVE  i = j
    BY <1>2, <1>3, <2>2 DEF IsStepOf, WellPlanned
  <2> QED BY <1>4, <2>1, <2>2 DEF StepsAreElements
<1>6. ASSUME NEW element \in Elements PROVE Planned(element)'
  <2>1. Awaited(element.guid)'
    BY <1>2 DEF Elements, Awaited, IsStepOf
  <2>2. Untouched(element.guid)'
    BY DEF Untouched
  <2> QED BY <2>1, <2>2 DEF Planned
<1> QED BY <1>4, <1>5, <1>6, LoadInOrder DEF PlanInv

\* One step of the constructor.
LEMMA LoadPlan ==
    ASSUME ScheduleInv, ScheduleInv', PlanInv, ~crashed, LoadElement
    PROVE  PlanInv'
<1>1. /\ Typed /\ Typed' /\ todo # <<>> /\ phase = "load"
      /\ UNCHANGED <<done, now, config, phase, created>>
      /\ StepsAreElements /\ Head(todo) = todo[1]
  BY HeadStep DEF LoadElement, ScheduleInv, PlanInv
<1>2. done = {} /\ now = 0 /\ DOMAIN members = DOMAIN existing
  BY <1>1 DEF ScheduleInv, InPhase, IInv, Live, Consistent, Agreement
<1>3. InOrder'
  BY <1>1, <1>2, LoadInOrder
<1>4. /\ Elements' = Elements
      /\ \A element : WellPlanned(element)' <=> WellPlanned(element)
  BY <1>1 DEF Elements, WellPlanned
<1>5. \A element \in Elements : WellPlanned(element) => Planned(element)
  BY <1>1 DEF PlanInv, Scheduling
<1>6. SUFFICES /\ StepsAreElements'
               /\ ~crashed' => \A element \in Elements : WellPlanned(element) => Planned(element)'
  BY <1>3, <1>4 DEF PlanInv
<1>7. CASE /\ todo[1].what = "participant"
           /\ \/ loadServer(todo[1].element)
              \/ loadClient(todo[1].element)
              \/ loadSimple(todo[1].element)
  <2> DEFINE other == todo[1].element
  <2>1. other \in ParticipantElement
    BY <1>1, <1>7, HeadStep, StepKinds DEF ParticipantSteps
  <2>2. PassedOver(other) \/ Refused(other) \/ Accepted(other)
    BY <1>1, <1>7, <2>1, LoadParticipant
  <2>3. \E first \in Seq(EndpointsToLoad) : Moved(todo, first, todo')
    <3>1. CASE todo' = Tail(todo)
      <4>1. <<>> \in Seq(EndpointsToLoad) /\ Moved(todo, <<>>, todo')
        BY <1>1, <3>1, TodoTail
      <4> QED BY <4>1
    <3>2. CASE \E h \in {other.guid, ConfiguredGuid(other)}, owner \in Nat :
                  todo' = EndpointSteps(other, h, owner) \o Tail(todo)
      <4>1. PICK h \in {other.guid, ConfiguredGuid(other)}, owner \in Nat :
               todo' = EndpointSteps(other, h, owner) \o Tail(todo)
        BY <3>2
      <4>2. h \in Guid
        BY <2>1 DEF ParticipantElement, Guid, ConfiguredGuid
      <4> DEFINE first == EndpointSteps(other, h, owner)
      <4>3. first \in Seq(EndpointsToLoad)
        BY <2>1, <4>2, EndpointStepsTyped
      <4> HIDE DEF first
      <4>4. todo' = first \o Tail(todo)
        BY <4>1 DEF first
      <4> QED BY <1>1, <4>3, <4>4, TodoRest
    <3>3. ASSUME LoadLinked(other) PROVE \/ todo' = Tail(todo)
                                         \/ \E h \in {other.guid, ConfiguredGuid(other)}, owner \in Nat :
                                               todo' = EndpointSteps(other, h, owner) \o Tail(todo)
      <4> DEFINE list == events \o RemovalEvents(other)
      <4>1. Len(list) + 1 \in Nat
        <5>1. Kept(events, list)
          BY <1>1, <2>1, RemovalKept DEF Typed
        <5>2. Len(list) \in Nat
          BY <5>1 DEF Kept, IsList
        <5> HIDE DEF list
        <5> QED BY <5>2
      <4>2. \/ todo' = Tail(todo)
            \/ todo' = EndpointSteps(other, other.guid, 0) \o Tail(todo)
            \/ todo' = EndpointSteps(other, ConfiguredGuid(other), Len(list) + 1) \o Tail(todo)
        BY <3>3 DEF LoadLinked, Skip, Fail
      <4> HIDE DEF list
      <4> QED BY <4>1, <4>2
    <3>4. ASSUME loadServer(other)
          PROVE  \/ todo' = Tail(todo)
                 \/ todo' = EndpointSteps(other, ConfiguredGuid(other), 0) \o Tail(todo)
      BY <3>4 DEF loadServer, Skip, Fail
    <3> QED BY <1>7, <3>1, <3>2, <3>3, <3>4 DEF loadClient, loadSimple
  <2>4. StepsAreElements'
    <3>1. todo' \in Seq(Step)
      BY <1>1 DEF Typed
    <3> QED BY <1>1, <2>3, <3>1, StepsRest
  <2>5. CASE Refused(other)
    BY <2>4, <2>5 DEF Refused
  <2>6. CASE PassedOver(other) \/ Accepted(other)
    BY <1>1, <1>2, <1>5, <1>7, <2>4, <2>6, LoadPlanned
  <2> QED BY <2>2, <2>5, <2>6
<1>8. ASSUME todo[1].what # "participant", todo' = Tail(todo), members' = members,
             ParticipantEventsKept, \A g : NewAboutOthers(g)
      PROVE  /\ StepsAreElements'
             /\ \A element \in Elements : WellPlanned(element) => Planned(element)'
  <2>1. /\ StepsAreElements'
        /\ \A g : Awaited(g)' <=> \E i \in DOMAIN todo \ {1} : IsStepOf(i, g)
    BY <1>1, <1>8, StepsTail
  <2>2. \A g : Awaited(g)' <=> Awaited(g)
    BY <1>8, <2>1 DEF Awaited, IsStepOf
  <2> QED BY <1>1, <1>5, <1>8, <2>1, <2>2, PlannedOther
<1>9. CASE todo[1].what = "endpoint" /\ (loadPublisher(todo[1]) \/ loadSubscriber(todo[1]))
  <2>1. todo[1] \in EndpointsToLoad /\ LoadEndpoint(todo[1]) /\ OwnedIn(events, todo[1])
    BY <1>1, <1>9, HeadStep, StepKinds DEF loadPublisher, loadSubscriber
  <2>2. members' = members /\ todo' = Tail(todo) /\ OnlyEndpoints(events, events')
    BY <1>1, <2>1, LoadsEndpoint
  <2>3. ParticipantEventsKept /\ \A g : NewAboutOthers(g)
    BY <2>2 DEF ParticipantEventsKept, NewAboutOthers, OnlyEndpoints
  <2> QED BY <1>8, <1>9, <2>2, <2>3
<1>10. CASE todo[1].what = "snapshot" /\ loadSnapshot(todo[1].element)
  <2>1. todo[1].element \in SnapshotElement
    BY <1>1, <1>10, HeadStep, StepKinds DEF SnapshotSteps
  <2>2. members' = members /\ todo' = Tail(todo)
    BY <1>1, <1>10, <2>1, LoadsSnapshot DEF entities
  <2>3. /\ Kept(events, events')
        /\ \A i \in DOMAIN events : events'[i] = events[i]
        /\ \A i \in DOMAIN events' \ DOMAIN events : events'[i].what = "snapshot"
    BY <1>1, <1>10, <2>1, LoadsSnapshot
  <2>4. ParticipantEventsKept /\ \A g : NewAboutOthers(g)
    BY <2>3 DEF ParticipantEventsKept, NewAboutOthers
  <2> QED BY <1>8, <1>10, <2>2, <2>4
<1> QED BY <1>1, <1>7, <1>9, <1>10 DEF LoadElement

\* Every step keeps planned participants on plan.
LEMMA NextPlanInv == ScheduleInv /\ ScheduleInv' /\ PlanInv /\ [Next]_serverVars => PlanInv'
<1> SUFFICES ASSUME ScheduleInv, ScheduleInv', PlanInv, [Next]_serverVars PROVE PlanInv'
  OBVIOUS
<1>1. Typed /\ Typed' /\ InPhase /\ InPhase' /\ IInv
  BY DEF ScheduleInv
<1>2. CASE UNCHANGED serverVars
  BY <1>2, UnchangedPlan DEF serverVars, mainVars, entities, Scheduling
<1>3. CASE ~crashed /\ ReadFile
  <2>1. /\ phase = "start" /\ UNCHANGED <<members, events, done, now, config, created>>
    BY <1>3 DEF ReadFile, entities
  <2>2. events = <<>> /\ todo = <<>> /\ done = {} /\ now = 0 /\ created = FALSE
    BY <1>1, <2>1 DEF InPhase
  <2>3. CASE phase' = "load" /\ todo' = AllSteps
    <3>1. DOMAIN members = {}
      BY <1>1, <2>1 DEF InPhase, IInv, Live, Consistent, Agreement
    <3> QED BY <1>1, <2>1, <2>2, <2>3, <3>1, StartPlanned
  <2>4. CASE phase' = "run" /\ todo' = todo
    <3>1. ~Scheduling' /\ todo' = <<>> /\ done' = {} /\ events' = <<>>
      BY <2>1, <2>2, <2>4 DEF Scheduling
    <3> QED BY <3>1, NotScheduling
  <2> QED BY <1>3, <2>3, <2>4 DEF ReadFile, AllSteps
<1>4. CASE ~crashed /\ LoadElement
  BY <1>4, LoadPlan
<1>5. CASE ~crashed /\ Loaded
  <2>1. /\ phase = "load" /\ UNCHANGED <<config, events, todo, done, now, members>>
    BY <1>5 DEF Loaded, entities
  <2>2. Scheduling /\ ~crashed
    BY <1>5, <2>1 DEF Scheduling
  <2> QED BY <2>1, <2>2, UnchangedPlan
<1>6. CASE ~crashed /\ RunEvents
  <2>1. PICK i \in Pending : RunEvent(i)
    BY <1>6 DEF RunEvents
  <2>2. phase = "run" /\ UNCHANGED <<phase, config, todo, created>>
    BY <1>6 DEF RunEvents, mainVars
  <2>3. DOMAIN members = DOMAIN existing /\ todo = <<>>
    BY <1>1, <2>2 DEF IInv, Live, Consistent, Agreement, InPhase
  <2>4. Kept(events, events') /\ DOMAIN events' = DOMAIN events
    BY <1>1, <2>1, <2>2, <2>3, RunTyped
  <2>5. InOrder'
    BY <1>1, <2>1, <2>4, RunInOrder DEF PlanInv
  <2>6. StepsAreElements'
    BY <2>2, <2>3 DEF StepsAreElements
  <2>7. ASSUME Scheduling', ~crashed', NEW element \in Elements', WellPlanned(element)'
        PROVE  Planned(element)'
    <3>1. element \in Elements /\ WellPlanned(element) /\ Scheduling
      BY <2>2, <2>7 DEF Elements, WellPlanned, Scheduling
    <3>2. ~Awaited(element.guid) /\ ~Awaited(element.guid)'
      BY <2>2, <2>3 DEF Awaited
    <3>3. PICK c \in Nat, d \in Nat : OnPlan(element, c, d)
      BY <1>6, <3>1, <3>2 DEF PlanInv, Planned
    <3>4. OnPlan(element, c, d)'
      BY <1>1, <2>1, <2>3, <2>7, <3>1, <3>3, RunOnPlan DEF PlanInv
    <3> QED BY <3>2, <3>4 DEF Planned
  <2> QED BY <2>5, <2>6, <2>7 DEF PlanInv
<1>7. CASE ~crashed /\ (UserShutdown \/ Validate \/ KeyPressed \/ Exit)
  <2>1. /\ phase \in {"run", "key", "terminated"} /\ phase' \in {"key", "validated", "exited"}
        /\ UNCHANGED <<config, events, todo, done, now, members, crashed>>
    BY <1>7 DEF UserShutdown, Validate, KeyPressed, Conclude, AllRun, Exit, entities
  <2>2. ~Scheduling'
    BY <2>1 DEF Scheduling
  <2> QED BY <2>1, <2>2, UnchangedPlan
<1>8. CASE ~crashed /\ Terminate
  <2>1. /\ phase = "validated" /\ phase' = "terminated" /\ events' = <<>> /\ done' = {}
        /\ todo' = todo
    BY <1>8 DEF Terminate
  <2>2. ~Scheduling' /\ todo = <<>>
    BY <1>1, <2>1 DEF Scheduling, InPhase
  <2> QED BY <2>1, <2>2, NotScheduling
<1>9. ASSUME NEW s, NEW p, on_participant_discovery(s, p) PROVE PlanInv'
  <2>1. UNCHANGED <<config, events, todo, done, now, members, crashed, phase, created>>
    BY <1>9 DEF on_participant_discovery, entities, mainVars
  <2> QED BY <2>1, UnchangedPlan DEF Scheduling
<1>10. CASE StartAgain
  <2>1. /\ phase' = "start" /\ phase = "exited" /\ UNCHANGED <<events, done, todo>>
    BY <1>10 DEF StartAgain
  <2>2. events = <<>> /\ todo = <<>>
    BY <1>1, <2>1 DEF InPhase, Over
  <2>3. done = {} /\ ~Scheduling'
    BY <1>1, <2>1, <2>2 DEF Typed, Scheduling
  <2> QED BY <2>1, <2>2, <2>3, NotScheduling
<1> QED BY <1>2, <1>3, <1>4, <1>5, <1>6, <1>7, <1>8, <1>9, <1>10 DEF Next, Main

\* Before the configuration is read there is nothing to follow.
LEMMA InitPlanInv == Init => PlanInv
BY DEF Init, PlanInv, InOrder, Pending, StepsAreElements, Scheduling

\* The inductive invariant: of every planned participant there is at most one creation
\* and one removal event, they are linked or know its GUID, and it is registered from
\* the one to the other.
THEOREM PlanHolds == Spec => [](ScheduleInv /\ PlanInv)
<1>1. Init => ScheduleInv /\ PlanInv
  BY InitScheduleInv, InitPlanInv
<1>2. (ScheduleInv /\ PlanInv) /\ [Next]_serverVars => (ScheduleInv /\ PlanInv)'
  BY NextScheduleInv, NextPlanInv
<1> QED BY <1>1, <1>2, PTL DEF Spec

\* What the invariant says of participants between events.
LEMMA PlannedAreFollowed == ScheduleInv /\ PlanInv => ScheduleIsFollowed
<1> SUFFICES ASSUME ScheduleInv, PlanInv, created, Quiet, NEW element \in Elements,
                    WellPlanned(element)
             PROVE  element.guid \in DOMAIN members
                       <=> Within(element.creation, element.removal)
  BY DEF ScheduleIsFollowed
<1>1. /\ Typed /\ todo = <<>> /\ phase = "run" /\ ~crashed
      /\ \A i \in Pending : events[i].time > now
  BY DEF Quiet, ScheduleInv, InPhase
<1>2. ~Awaited(element.guid) /\ Scheduling
  <2>1. created = TRUE
    BY DEF ScheduleInv, InPhase
  <2> QED BY <1>1, <2>1 DEF Awaited, Scheduling
<1>3. PICK c \in Nat, d \in Nat : OnPlan(element, c, d)
  BY <1>1, <1>2 DEF PlanInv, Planned
<1>4. /\ element.creation \in Nat /\ element.removal \in Nat /\ now \in Nat
      /\ Second * element.creation \in Nat /\ Second * element.removal \in Nat
  <2>1. element.creation \in Nat /\ element.removal \in Nat /\ now \in Nat
    BY <1>1, ElementTyped DEF Typed
  <2> QED BY <2>1, SecondAssumption
<1>5. ASSUME NEW i \in DOMAIN events PROVE i \in done <=> events[i].time <= now
  <2>1. events[i].time \in Nat
    BY <1>1, EventKinds DEF Typed, IsList
  <2>2. CASE i \in done
    BY <2>2 DEF PlanInv, InOrder
  <2>3. CASE i \notin done
    BY <1>1, <1>4, <2>1, <2>3 DEF Pending
  <2> QED BY <2>2, <2>3
<1>6. (c = 0 \/ c \in done) <=> Second * element.creation <= now
  <2>1. CASE c = 0
    <3>1. Second * element.creation = 0
      BY <1>3, <2>1, SecondAssumption DEF OnPlan
    <3> QED BY <1>4, <2>1, <3>1
  <2>2. CASE c # 0
    BY <1>3, <1>5, <2>2 DEF OnPlan
  <2> QED BY <2>1, <2>2
<1>7. (d = 0 \/ d \notin done) <=> (element.removal = 0 \/ now < Second * element.removal)
  <2>1. CASE d = 0
    BY <1>3, <2>1 DEF OnPlan
  <2>2. CASE d # 0
    <3>1. d \in DOMAIN events /\ events[d].time = Second * element.removal /\ element.removal # 0
      BY <1>3, <2>2 DEF OnPlan
    <3>2. d \in done <=> Second * element.removal <= now
      BY <1>5, <3>1
    <3> QED BY <1>4, <2>2, <3>1, <3>2
  <2> QED BY <2>1, <2>2
<1> QED BY <1>3, <1>6, <1>7 DEF OnPlan, Within

\* For every configuration, every order of the events of one time and every order of
\* callbacks: a participant whose schedule makes sense is registered from its creation
\* time to its removal time.
THEOREM ScheduleAlwaysFollowed == Spec => []ScheduleIsFollowed
BY PlannedAreFollowed, PlanHolds, PTL

-----------------------------------------------------------------------------
(* Well formed configurations are run without a crash.                     *)

StepsApart ==
    \A i, j \in DOMAIN todo :
        /\ todo[i].what = "participant" /\ todo[j].what = "participant"
        /\ i < j /\ todo[i].element.guid = todo[j].element.guid
        => Noticed(todo[i].element, todo[j].element)

\* Neither there nor to be created by an event.
Absent(g) ==
    /\ g \notin DOMAIN existing
    /\ \A i \in DOMAIN events : events[i].what = "create" => events[i].element.guid # g

CreationsApart ==
    /\ \A i, j \in DOMAIN events :
          /\ events[i].what = "create" /\ events[j].what = "create"
          /\ events[i].element.guid = events[j].element.guid
          => i = j
    /\ \A i \in Pending : events[i].what = "create" => events[i].element.guid \notin DOMAIN existing

\* An endpoint of a late participant has been given the GUID that will get.
GivenIn(list, g, owner) == owner # 0 => g = list[owner].element.guid

StepFits(list, step) ==
    /\ step.what = "endpoint" => step.element.topic # {} /\ GivenIn(list, step.guid, step.owner)
    /\ step.what = "snapshot" => step.element.described

EventFits(list, event) ==
    /\ event.what = "createEndpoint" => GivenIn(list, event.guid, event.owner)
    /\ event.what = "create" => event.guid \in {Unknown, event.element.guid}

\* Who is to be loaded is not there, or will be skipped.
Loadable(element) ==
    Absent(element.guid) \/ (element.kind = "server" /\ SharesPrefix(element))

AllLoadable ==
    \A i \in DOMAIN todo : todo[i].what = "participant" => Loadable(todo[i].element)

StepsFit == \A i \in DOMAIN todo : StepFits(events, todo[i])

EventsFit == \A i \in DOMAIN events : EventFits(events, events[i])

(***************************************************************************)
(* Nobody is created twice, because whoever is to be created is not there  *)
(* yet or will be skipped, and of two with one prefix the first makes the  *)
(* second one that is skipped; and whoever an endpoint's owner event has   *)
(* created is also found under the endpoint's own GUID.                    *)
(***************************************************************************)
Calm == /\ crashed = FALSE
        /\ StepsApart /\ AllLoadable /\ CreationsApart
        /\ StepsFit /\ EventsFit

CalmInv == WellFormed => Calm

\* createEndpoint never uses the publisher or subscriber of a null entry.
LEMMA NoNullEntry ==
    ASSUME Consistent, Typed, NEW g \in Guid, NEW owner \in Nat, GivenIn(events, g, owner),
           owner # 0 => /\ owner \in DOMAIN events /\ events[owner].what = "create"
                        /\ EventFits(events, events[owner])
    PROVE  NoParticipant(g, owner) \/ Indexed(g)[g].valid
<1>1. ASSUME NEW h PROVE Found(entityMap, h) <=> h \in DOMAIN existing
  <2>1. CASE h \in DOMAIN entityMap
    BY <2>1 DEF Consistent, Agreement, Found
  <2>2. CASE h \notin DOMAIN entityMap
    BY <2>2 DEF Consistent, Agreement, Found
  <2> QED BY <2>1, <2>2
<1>2. CASE g \in DOMAIN existing
  <2>1. g \in DOMAIN entityMap /\ entityMap[g].valid = TRUE
    BY <1>2 DEF Consistent, Agreement
  <2> QED BY <2>1 DEF Indexed
<1>3. CASE g \notin DOMAIN existing
  <2>1. OwnerGuid(owner) \in {Unknown, g}
    BY DEF OwnerGuid, GivenIn, EventFits
  <2>2. Unknown \notin DOMAIN existing
    BY UnknownAssumption DEF Typed
  <2>3. ASSUME NEW h, h \notin DOMAIN existing PROVE ~Found(Indexed(g), h)
    <3>1. CASE h \in DOMAIN entityMap
      <4>1. Indexed(g)[h] = entityMap[h] /\ h \in DOMAIN Indexed(g)
        BY <3>1, IndexedFacts
      <4>2. entityMap[h].valid = FALSE
        BY <2>3, <3>1 DEF Consistent, Agreement
      <4> QED BY <4>1, <4>2 DEF Found
    <3>2. CASE h \notin DOMAIN entityMap /\ h = g
      <4>1. Indexed(g)[g] = [valid |-> FALSE, topics |-> {}] /\ g \in DOMAIN Indexed(g)
        BY <3>2, IndexedFacts DEF NoInfo
      <4> QED BY <3>2, <4>1 DEF Found
    <3>3. CASE h \notin DOMAIN entityMap /\ h # g
      <4>1. h \notin DOMAIN members
        BY <2>3 DEF Consistent, Agreement
      <4>2. DOMAIN Indexed(g) = DOMAIN entityMap \cup {g}
        BY IndexedFacts
      <4>3. h \notin DOMAIN Indexed(g)
        BY <3>3, <4>2
      <4> QED BY <4>1, <4>3 DEF Found
    <3> QED BY <3>1, <3>2, <3>3
  <2> QED BY <1>1, <1>3, <2>1, <2>2, <2>3 DEF NoParticipant
<1> QED BY <1>2, <1>3

\* The steps that are left.
LEMMA StepsApartMoved ==
    ASSUME Typed, StepsApart, NEW first \in Seq(EndpointsToLoad), todo' \in Seq(Step),
           Moved(todo, first, todo'), config' = config
    PROVE  StepsApart'
<1> DEFINE n == Len(first)
<1>1. n \in Nat
  OBVIOUS
<1>2. /\ \A i \in DOMAIN todo' :
            \/ i \in DOMAIN first /\ todo'[i] = first[i]
            \/ i - n + 1 \in DOMAIN todo \ {1} /\ todo'[i] = todo[i - n + 1]
      /\ \A i \in DOMAIN todo' : i \in Int
  BY DEF Moved
<1>3. \A i \in DOMAIN first : first[i].what = "endpoint"
  <2>1. \A i \in DOMAIN first : first[i] \in EndpointsToLoad
    OBVIOUS
  <2> QED BY <2>1 DEF EndpointsToLoad
<1> HIDE DEF n
<1>4. ASSUME NEW i \in DOMAIN todo', NEW j \in DOMAIN todo',
             todo'[i].what = "participant", todo'[j].what = "participant",
             i < j, todo'[i].element.guid = todo'[j].element.guid
      PROVE  Noticed(todo[i].element, todo[j].element)'
  <2>1. /\ i - n + 1 \in DOMAIN todo /\ todo'[i] = todo[i - n + 1]
        /\ j - n + 1 \in DOMAIN todo /\ todo'[j] = todo[j - n + 1]
    BY <1>2, <1>3, <1>4
  <2>2. i - n + 1 < j - n + 1
    BY <1>1, <1>2, <1>4
  <2>3. Noticed(todo'[i].element, todo'[j].element)
    BY <1>4, <2>1, <2>2 DEF StepsApart
  <2> QED BY <2>3 DEF Noticed
<1> QED BY <1>4 DEF StepsApart

\* What fits a list fits what keeps it.
LEMMA FitsKept ==
    ASSUME NEW list, NEW later, IsList(list), Kept(list, later)
    PROVE  /\ \A step : OwnedIn(list, step) /\ StepFits(list, step) => StepFits(later, step)
           /\ \A i \in DOMAIN list : /\ EventFits(list, list[i])
                                     /\ list[i].what = "create" => later[i].guid \in {list[i].guid, list[i].element.guid}
                                     => EventFits(later, later[i])
<1>1. \A i \in DOMAIN list : i \in DOMAIN later /\ SameEvent(list[i], later[i])
  BY DEF Kept
<1>2. ASSUME NEW step, OwnedIn(list, step), StepFits(list, step) PROVE StepFits(later, step)
  BY <1>1, <1>2 DEF OwnedIn, StepFits, GivenIn, SameEvent
<1>3. ASSUME NEW i \in DOMAIN list, EventFits(list, list[i]),
             list[i].what = "create" => later[i].guid \in {list[i].guid, list[i].element.guid}
      PROVE  EventFits(later, later[i])
  <2>1. CASE list[i].what = "createEndpoint"
    <3>1. list[i].owner # 0 => list[i].owner \in DOMAIN list /\ list[list[i].owner].what = "create"
      BY <2>1 DEF IsList, LinkedIn
    <3> QED BY <1>1, <1>3, <2>1, <3>1 DEF EventFits, GivenIn, SameEvent
  <2>2. CASE list[i].what = "create"
    BY <1>1, <1>3, <2>2 DEF EventFits, SameEvent
  <2>3. CASE list[i].what \notin {"create", "createEndpoint"}
    BY <1>1, <2>3 DEF EventFits, SameEvent
  <2> QED BY <2>1, <2>2, <2>3
<1> QED BY <1>2, <1>3

\* Where the steps that are left come from.
LEMMA LeftSteps ==
    ASSUME Typed, NEW first \in Seq(EndpointsToLoad), todo' \in Seq(Step),
           Moved(todo, first, todo'), NEW i \in DOMAIN todo'
    PROVE  \/ \E j \in DOMAIN first : todo'[i] = first[j] /\ todo'[i].what = "endpoint"
           \/ \E k \in DOMAIN todo \ {1} : todo'[i] = todo[k]
<1>1. \A j \in DOMAIN first : first[j].what = "endpoint"
  <2>1. \A j \in DOMAIN first : first[j] \in EndpointsToLoad
    OBVIOUS
  <2> QED BY <2>1 DEF EndpointsToLoad
<1>2. \/ i \in DOMAIN first /\ todo'[i] = first[i]
      \/ i - Len(first) + 1 \in DOMAIN todo \ {1} /\ todo'[i] = todo[i - Len(first) + 1]
  BY DEF Moved
<1> QED BY <1>1, <1>2

\* The steps that are left, when those that are new fit.
LEMMA StepsCalm ==
    ASSUME Typed, StepsApart, StepsFit, NEW first \in Seq(EndpointsToLoad), todo' \in Seq(Step),
           Moved(todo, first, todo'), Kept(events, events'), config' = config,
           \A i \in DOMAIN first : StepFits(events', first[i])
    PROVE  StepsApart' /\ StepsFit'
<1>1. StepsApart'
  BY StepsApartMoved
<1>2. ASSUME NEW i \in DOMAIN todo' PROVE StepFits(events', todo'[i])
  <2>1. CASE \E j \in DOMAIN first : todo'[i] = first[j]
    BY <2>1
  <2>2. CASE \E k \in DOMAIN todo \ {1} : todo'[i] = todo[k]
    <3>1. PICK k \in DOMAIN todo : todo'[i] = todo[k]
      BY <2>2
    <3>2. OwnedIn(events, todo[k]) /\ StepFits(events, todo[k]) /\ IsList(events)
      BY DEF StepsFit, Typed
    <3> QED BY <3>1, <3>2, FitsKept
  <2> QED BY <2>1, <2>2, LeftSteps
<1> QED BY <1>1, <1>2 DEF StepsFit

\* A step that adds no participant and no creation event.
LEMMA EventsCalm ==
    ASSUME Typed, CreationsApart, EventsFit, Kept(events, events'),
           \A i \in DOMAIN events : events[i].what = "create" => events'[i] = events[i],
           \A i \in DOMAIN events' \ DOMAIN events :
              events'[i].what # "create" /\ EventFits(events', events'[i]),
           DOMAIN existing' \subseteq DOMAIN existing, done \subseteq done'
    PROVE  CreationsApart' /\ EventsFit' /\ \A g : Absent(g) => Absent(g)'
<1>1. \A i \in DOMAIN events' : events'[i].what = "create" =>
         i \in DOMAIN events /\ events[i].what = "create" /\ events'[i] = events[i]
  BY DEF Kept, SameEvent
<1>2. CreationsApart'
  BY <1>1 DEF CreationsApart, Pending
<1>3. \A g : Absent(g) => Absent(g)'
  BY <1>1 DEF Absent
<1>4. ASSUME NEW i \in DOMAIN events' PROVE EventFits(events', events'[i])
  <2>1. CASE i \in DOMAIN events
    BY <2>1, FitsKept DEF EventsFit, Typed
  <2> QED BY <2>1
<1> QED BY <1>2, <1>3, <1>4 DEF EventsFit

\* The constructor goes on to the next step and has added no creation event.
LEMMA TailCalm ==
    ASSUME Typed, Calm, todo # <<>>, todo' = Tail(todo), crashed' = FALSE, done' = done,
           Kept(events, events'), config' = config, members' = members,
           \A i \in DOMAIN events : events[i].what = "create" => events'[i] = events[i],
           \A i \in DOMAIN events' \ DOMAIN events :
              events'[i].what # "create" /\ EventFits(events', events'[i]),
           DOMAIN existing' \subseteq DOMAIN existing
    PROVE  Calm'
<1> DEFINE first == <<>>
<1>1. /\ first \in Seq(EndpointsToLoad) /\ \A i \in DOMAIN first : StepFits(events', first[i])
  OBVIOUS
<1>2. todo' \in Seq(Step) /\ Moved(todo, first, todo')
  BY TodoTail
<1> HIDE DEF first
<1>3. StepsApart' /\ StepsFit'
  BY <1>1, <1>2, StepsCalm DEF Calm
<1>4. CreationsApart' /\ EventsFit' /\ \A g : Absent(g) => Absent(g)'
  BY EventsCalm DEF Calm
<1>5. ASSUME NEW i \in DOMAIN todo', todo'[i].what = "participant"
      PROVE  Loadable(todo[i].element)'
  <2>1. ~\E j \in DOMAIN first : todo'[i] = first[j] /\ todo'[i].what = "endpoint"
    BY <1>5
  <2>2. PICK k \in DOMAIN todo : todo'[i] = todo[k]
    BY <1>1, <1>2, <2>1, LeftSteps
  <2>3. Loadable(todo'[i].element)
    BY <1>5, <2>2 DEF Calm, AllLoadable
  <2> QED BY <1>4, <2>3 DEF Loadable, Absent, SharesPrefix, ConfiguredGuid
<1>6. AllLoadable'
  BY <1>5 DEF AllLoadable
<1> QED BY <1>3, <1>4, <1>6 DEF Calm

\* A participant is created or gets a creation event.
LEMMA AcceptedCalm ==
    ASSUME Typed, WellFormed, Calm, StepsAreElements, todo # <<>>, done' = done,
           config' = config, todo[1].what = "participant", Accepted(todo[1].element),
           ~(todo[1].element.kind = "server" /\ SharesPrefix(todo[1].element))
    PROVE  Calm'
<1> DEFINE element == todo[1].element
           g == element.guid
<1>1. PICK c \in Nat, d \in Nat, first \in Seq(EndpointsToLoad) :
         /\ Arranged(events, events', element, c, d)
         /\ Followed(element, c, first)
         /\ todo' = first \o Tail(todo)
  BY DEF Accepted
<1>2. todo' \in Seq(Step) /\ Moved(todo, first, todo')
  BY <1>1, TodoRest
<1>3. 1 \in DOMAIN todo /\ element \in Elements /\ Absent(g)
  BY HeadStep DEF Calm, AllLoadable, Loadable, StepsAreElements
<1>4. /\ Kept(events, events') /\ IsList(events)
      /\ \A i \in DOMAIN events : events'[i] = events[i]
      /\ c # 0 => /\ c \in DOMAIN events' \ DOMAIN events /\ element.creation # 0
                  /\ events'[c].element = element /\ events'[c].guid = Unknown
                  /\ events'[c].what = "create"
      /\ d # 0 => events'[d].what = "destroy"
      /\ \A i \in DOMAIN events' \ DOMAIN events : (i = c /\ c # 0) \/ (i = d /\ d # 0)
  <2>1. Kept(events, events') /\ IsList(events)
    BY <1>1 DEF Arranged, Typed
  <2>2. \A i \in DOMAIN events' : i # 0
    BY <2>1 DEF Kept, IsList
  <2> QED BY <1>1, <2>1, <2>2 DEF Arranged, CreateParticipantEvent, DestroyParticipantEvent
<1>5. /\ c # 0 => DOMAIN existing' = DOMAIN existing
      /\ DOMAIN existing' \subseteq DOMAIN existing \cup {g}
      /\ crashed' = FALSE
      /\ \A h \in DOMAIN members \ {g} : h \in DOMAIN members' /\ members'[h] = members[h]
      /\ element.creation = 0 => g \in DOMAIN members' /\ members'[g] = element.kind
  BY <1>4 DEF Accepted, Arrives, Joins, Put, entities, Calm
<1>6. ASSUME NEW i \in DOMAIN first PROVE StepFits(events', first[i])
  <2>1. PICK h \in {element.guid, ConfiguredGuid(element)}, owner \in {0, c} :
           /\ owner # 0 => h = ConfiguredGuid(element)
           /\ first = EndpointSteps(element, h, owner)
    BY <1>1 DEF Followed
  <2>2. /\ i \in DOMAIN element.endpoints
        /\ first[i] = [what |-> "endpoint", element |-> element.endpoints[i], guid |-> h,
                       owner |-> owner]
    BY <2>1 DEF EndpointSteps
  <2>3. element.endpoints[i].topic # {} /\ (element.creation # 0 => element.fixed)
    <3>1. element.endpoints # <<>>
      BY <2>2
    <3>2. element.endpoints[i] \in EndpointsOf(element)
      BY <2>2 DEF EndpointsOf
    <3> HIDE DEF element
    <3> QED BY <1>3, <3>1, <3>2 DEF WellFormed, WellDescribed
  <2>4. owner # 0 => h = g /\ events'[owner].element.guid = g
    BY <1>4, <2>1, <2>3 DEF ConfiguredGuid
  <2> QED BY <2>2, <2>3, <2>4 DEF StepFits, GivenIn
<1> HIDE DEF element, g
<1>7. StepsApart' /\ StepsFit'
  BY <1>2, <1>4, <1>6, StepsCalm DEF Calm
<1>8. EventsFit'
  <2>1. ASSUME NEW i \in DOMAIN events' PROVE EventFits(events', events'[i])
    <3>1. CASE i \in DOMAIN events
      BY <1>4, <3>1, FitsKept DEF Calm, EventsFit
    <3>2. CASE i = c /\ c # 0
      BY <1>4, <3>2 DEF EventFits
    <3>3. CASE i = d /\ d # 0
      BY <1>4, <3>3 DEF EventFits
    <3> QED BY <1>4, <3>1, <3>2, <3>3
  <2> QED BY <2>1 DEF EventsFit
<1>9. \A i \in DOMAIN events' : events'[i].what = "create" =>
         \/ i \in DOMAIN events /\ events'[i] = events[i] /\ events[i].element.guid # g
         \/ i = c /\ c # 0 /\ events'[i].element.guid = g
  BY <1>3, <1>4 DEF Absent, g
<1>10. CreationsApart'
  <2>1. ASSUME NEW i \in DOMAIN events', NEW j \in DOMAIN events',
               events'[i].what = "create", events'[j].what = "create",
               events'[i].element.guid = events'[j].element.guid
        PROVE  i = j
    BY <1>9, <2>1 DEF Calm, CreationsApart
  <2>2. ASSUME NEW i \in Pending', events'[i].what = "create"
        PROVE  events'[i].element.guid \notin DOMAIN existing'
    <3>1. CASE i \in DOMAIN events /\ events'[i] = events[i] /\ events[i].element.guid # g
      BY <1>5, <2>2, <3>1 DEF Calm, CreationsApart, Pending
    <3>2. CASE c # 0 /\ events'[i].element.guid = g
      BY <1>3, <1>5, <3>2 DEF Absent
    <3> QED BY <1>9, <2>2, <3>1, <3>2 DEF Pending
  <2> QED BY <2>1, <2>2 DEF CreationsApart
<1>11. ASSUME NEW i \in DOMAIN todo', todo'[i].what = "participant", NEW next,
              next = todo'[i].element
       PROVE  Loadable(next)'
  <2>1. ~\E j \in DOMAIN first : todo'[i] = first[j] /\ todo'[i].what = "endpoint"
    BY <1>11
  <2>2. PICK k \in DOMAIN todo \ {1} : todo'[i] = todo[k]
    BY <1>2, <2>1, LeftSteps
  <2>3. Loadable(next)
    BY <1>11, <2>2 DEF Calm, AllLoadable
  <2>4. CASE next.guid = g
    <3>1. 1 < k
      BY <2>2 DEF Typed
    <3>2. Noticed(element, next)
      BY <1>3, <1>11, <2>2, <2>4, <3>1 DEF Calm, StepsApart, g, element
    <3> QED BY <1>5, <2>4, <3>2 DEF Loadable, Noticed, SharesPrefix, ConfiguredGuid
  <2>5. CASE next.guid # g /\ Absent(next.guid)
    BY <1>5, <1>9, <2>5 DEF Loadable, Absent
  <2>6. CASE next.guid # g /\ next.kind = "server" /\ SharesPrefix(next)
    <3>1. element \in ParticipantElement
      BY HeadStep, StepKinds DEF ParticipantSteps, element
    <3>2. g # Unknown
      BY <3>1, UnknownAssumption DEF ParticipantElement, g
    <3>3. ConfiguredGuid(next) # g
      BY <2>6, <3>2 DEF ConfiguredGuid
    <3> QED BY <1>5, <2>6, <3>3 DEF Loadable, SharesPrefix, ConfiguredGuid
  <2> QED BY <2>3, <2>4, <2>5, <2>6 DEF Loadable
<1>12. AllLoadable'
  BY <1>11 DEF AllLoadable
<1> QED BY <1>5, <1>7, <1>8, <1>10, <1>12 DEF Calm

\* One step of the constructor.
LEMMA LoadCalm ==
    ASSUME ScheduleInv, WellFormed, Calm, StepsAreElements, LoadElement
    PROVE  Calm'
<1> DEFINE step == todo[1]
<1>1. /\ Typed /\ todo # <<>> /\ step \in Step /\ OwnedIn(events, step) /\ 1 \in DOMAIN todo
      /\ done' = done /\ IsList(events) /\ phase = "load" /\ Head(todo) = step
      /\ config' = config
  BY HeadStep DEF LoadElement, Typed, ScheduleInv
<1>2. StepFits(events, step) /\ crashed = FALSE /\ Consistent
  BY <1>1 DEF Calm, StepsFit, ScheduleInv, IInv, Live
<1>3. CASE /\ step.what = "participant"
           /\ loadServer(step.element) \/ loadClient(step.element) \/ loadSimple(step.element)
  <2>1. step.element \in ParticipantElement
    BY <1>1, <1>3, StepKinds DEF ParticipantSteps
  <2>2. PassedOver(step.element) \/ Refused(step.element) \/ Accepted(step.element)
    BY <1>1, <1>3, <2>1, LoadParticipant
  <2>3. CASE PassedOver(step.element)
    <3>1. /\ todo' = Tail(todo) /\ crashed' = FALSE /\ events' = events /\ existing' = existing
          /\ members' = members
      BY <1>2, <2>3 DEF PassedOver, Skip, entities
    <3>2. Kept(events, events')
      BY <1>1, <3>1, KeptSame
    <3> QED BY <1>1, <3>1, <3>2, TailCalm
  <2>4. CASE Refused(step.element)
    <3>1. Absent(step.element.guid)
      BY <1>1, <1>3, <2>4 DEF Calm, AllLoadable, Loadable, Refused
    <3>2. step.element \in Elements
      BY <1>1, <1>3 DEF StepsAreElements
    <3>3. ~Unfit(step.element)
      BY <3>2 DEF Unfit, WellFormed, WellDescribed
    <3> QED BY <2>4, <3>1, <3>3 DEF Refused, Absent
  <2>5. CASE Accepted(step.element) /\ ~(step.element.kind = "server" /\ SharesPrefix(step.element))
    BY <1>1, <1>3, <2>5, AcceptedCalm
  <2>6. step.element.kind = "server" /\ SharesPrefix(step.element) => PassedOver(step.element)
    BY <1>3 DEF loadServer, loadClient, loadSimple, PassedOver
  <2> QED BY <2>2, <2>3, <2>4, <2>5, <2>6
<1>4. CASE step.what = "endpoint" /\ (loadPublisher(step) \/ loadSubscriber(step))
  <2>1. step \in EndpointsToLoad /\ LoadEndpoint(step)
    BY <1>1, <1>4, StepKinds DEF loadPublisher, loadSubscriber
  <2>2. /\ DOMAIN existing' = DOMAIN existing /\ todo' = Tail(todo) /\ members' = members
        /\ OnlyEndpoints(events, events')
        /\ \A i \in DOMAIN events' \ DOMAIN events :
              events'[i].what = "createEndpoint" =>
                 events'[i].guid = step.guid /\ events'[i].owner = step.owner
        /\ \/ crashed' = crashed
           \/ step.element.topic = {}
           \/ ~NoParticipant(step.guid, step.owner) /\ ~Indexed(step.guid)[step.guid].valid
    BY <1>1, <2>1, LoadsEndpoint
  <2>3. step.element.topic # {} /\ GivenIn(events, step.guid, step.owner)
    BY <1>2, <1>4 DEF StepFits
  <2>4. NoParticipant(step.guid, step.owner) \/ Indexed(step.guid)[step.guid].valid
    <3>1. step.guid \in Guid /\ step.owner \in Nat
      BY <2>1 DEF EndpointsToLoad
    <3>2. step.owner # 0 => /\ step.owner \in DOMAIN events /\ events[step.owner].what = "create"
                            /\ EventFits(events, events[step.owner])
      BY <1>1, <1>4 DEF OwnedIn, Calm, EventsFit
    <3> QED BY <1>1, <1>2, <2>3, <3>1, <3>2, NoNullEntry
  <2>5. Kept(events, events') /\ crashed' = FALSE
    BY <1>2, <2>2, <2>3, <2>4 DEF OnlyEndpoints
  <2>6. StepFits(events', step)
    BY <1>1, <1>2, <2>5, FitsKept
  <2>7. \A i \in DOMAIN events' \ DOMAIN events :
           events'[i].what # "create" /\ EventFits(events', events'[i])
    BY <1>4, <2>2, <2>6 DEF OnlyEndpoints, StepFits, EventFits, GivenIn
  <2>8. \A i \in DOMAIN events : events[i].what = "create" => events'[i] = events[i]
    BY <2>2 DEF OnlyEndpoints
  <2> QED BY <1>1, <2>2, <2>5, <2>7, <2>8, TailCalm
<1>5. CASE step.what = "snapshot" /\ loadSnapshot(step.element)
  <2>1. step.element \in SnapshotElement /\ step.element.described
    BY <1>1, <1>2, <1>5, StepKinds DEF SnapshotSteps, StepFits
  <2>2. /\ UNCHANGED <<existing, members>> /\ todo' = Tail(todo) /\ Kept(events, events')
        /\ \/ events' = events /\ crashed' = crashed
           \/ /\ crashed' = crashed
              /\ \A i \in DOMAIN events : events'[i] = events[i]
              /\ DOMAIN events' = DOMAIN events \cup {Len(events) + 1}
              /\ events'[Len(events) + 1].what = "snapshot"
    BY <1>1, <1>5, <2>1, LoadsSnapshot DEF entities
  <2>3. \A i \in DOMAIN events' \ DOMAIN events :
           events'[i].what # "create" /\ EventFits(events', events'[i])
    BY <2>2 DEF EventFits
  <2>4. \A i \in DOMAIN events : events'[i] = events[i]
    BY <2>2
  <2>5. crashed' = FALSE
    BY <1>2, <2>2
  <2> QED BY <1>1, <2>2, <2>3, <2>4, <2>5, TailCalm
<1> QED BY <1>1, <1>3, <1>4, <1>5 DEF LoadElement

\* An event that creates nobody.
LEMMA EventCalm ==
    ASSUME Typed, Calm, todo = <<>>, todo' = <<>>, crashed' = FALSE, done \subseteq done',
           Kept(events, events'), DOMAIN events' = DOMAIN events,
           \A i \in DOMAIN events : events[i].what = "create" => events'[i] = events[i],
           DOMAIN existing' \subseteq DOMAIN existing
    PROVE  Calm'
<1>1. CreationsApart' /\ EventsFit'
  BY EventsCalm DEF Calm
<1>2. StepsApart' /\ StepsFit' /\ AllLoadable'
  BY DEF StepsApart, StepsFit, AllLoadable
<1> QED BY <1>1, <1>2 DEF Calm

\* An event that creates a participant.
LEMMA CreationCalm ==
    ASSUME Typed, Calm, todo' = <<>>, NEW i \in Pending, done' = done \cup {i},
           events[i].what = "create", Execute(i, events[i])
    PROVE  Calm'
<1> DEFINE element == events[i].element
           g == element.guid
           removal == events[i].removal
<1>1. i \in DOMAIN events /\ IsList(events)
  BY DEF Pending, Typed
<1>2. /\ removal # 0 => events[removal].what = "destroy"
      /\ \/ g \in DOMAIN existing
         \/ Joins(element) /\ Announced(i, element, removal)
  BY <1>1, RunsCreation
<1>3. g \notin DOMAIN existing
  BY DEF Calm, CreationsApart
<1>4. Joins(element) /\ Announced(i, element, removal)
  BY <1>2, <1>3
<1>5. /\ DOMAIN existing' = DOMAIN existing \cup {g} /\ crashed' = FALSE
  BY <1>4 DEF Joins, Put, Calm
<1>6. /\ Kept(events, events') /\ DOMAIN events' = DOMAIN events
      /\ events'[i].guid = g
      /\ \A j \in DOMAIN events \ {i, removal} : events'[j] = events[j]
  BY <1>4 DEF Announced
<1>7. \A j \in DOMAIN events : /\ events'[j].what = events[j].what
                               /\ events[j].what = "create" => events'[j].element = events[j].element
  BY <1>6 DEF Kept, SameEvent
<1> HIDE DEF element, g, removal
<1>8. CreationsApart'
  <2>1. ASSUME NEW j \in Pending', events'[j].what = "create"
        PROVE  events'[j].element.guid \notin DOMAIN existing'
    <3>1. j \in Pending /\ j # i /\ j \in DOMAIN events
      BY <1>6 DEF Pending
    <3>2. events[j].element.guid \notin DOMAIN existing /\ events[j].element.guid # g
      BY <1>1, <1>7, <2>1, <3>1 DEF Calm, CreationsApart, g, element
    <3> QED BY <1>5, <1>7, <2>1, <3>1, <3>2
  <2> QED BY <1>6, <1>7, <2>1 DEF Calm, CreationsApart
<1>9. EventsFit'
  <2>1. ASSUME NEW j \in DOMAIN events PROVE EventFits(events', events'[j])
    <3>1. events[j].what = "create" => events'[j].guid \in {events[j].guid, events[j].element.guid}
      <4>1. j # 0
        BY <1>1 DEF IsList
      <4> QED BY <1>2, <1>6, <4>1 DEF g, element
    <3> QED BY <1>1, <1>6, <3>1, FitsKept DEF Calm, EventsFit
  <2> QED BY <1>6, <2>1 DEF EventsFit
<1>10. StepsApart' /\ StepsFit' /\ AllLoadable'
  BY DEF StepsApart, StepsFit, AllLoadable
<1> QED BY <1>5, <1>8, <1>9, <1>10 DEF Calm

\* One event.
LEMMA RunCalm ==
    ASSUME ScheduleInv, Calm, phase = "run", UNCHANGED <<config, todo>>, NEW i \in Pending,
           RunEvent(i)
    PROVE  Calm'
<1>1. /\ Typed /\ IsList(events) /\ i \in DOMAIN events /\ events[i] \in Event
      /\ todo = <<>> /\ todo' = <<>> /\ Consistent /\ crashed = FALSE
      /\ Execute(i, events[i]) /\ done' = done \cup {i}
  BY DEF ScheduleInv, InPhase, IInv, Live, Typed, IsList, Calm, RunEvent, Pending
<1>2. Kept(events, events) /\ DOMAIN members = DOMAIN existing
  BY <1>1, KeptSame DEF Consistent, Agreement
<1>3. CASE events[i].what = "create"
  BY <1>1, <1>3, CreationCalm
<1>4. CASE events[i].what = "destroy"
  <2>1. events' = events /\ crashed' = crashed /\ DOMAIN existing' \subseteq DOMAIN existing
    BY <1>1, <1>2, <1>4, RunsDestruction
  <2> QED BY <1>1, <1>2, <2>1, EventCalm
<1>5. CASE events[i].what \in {"createEndpoint", "destroyEndpoint"}
  <2>1. /\ DOMAIN existing' = DOMAIN existing /\ OnlyEndpoints(events, events')
        /\ DOMAIN events' = DOMAIN events
        /\ \/ crashed' = crashed
           \/ /\ events[i].what = "createEndpoint"
              /\ ~NoParticipant(events[i].guid, events[i].owner)
              /\ ~Indexed(events[i].guid)[events[i].guid].valid
    BY <1>1, <1>5, RunsEndpointEvent
  <2>2. crashed' = crashed
    <3>1. CASE events[i].what = "createEndpoint"
      <4>1. events[i].guid \in Guid /\ events[i].owner \in Nat
        BY <1>1, <3>1, EventKinds DEF EndpointCreations
      <4>2. GivenIn(events, events[i].guid, events[i].owner)
        BY <1>1, <3>1 DEF Calm, EventsFit, EventFits
      <4>3. events[i].owner # 0 => /\ events[i].owner \in DOMAIN events
                                   /\ events[events[i].owner].what = "create"
                                   /\ EventFits(events, events[events[i].owner])
        BY <1>1, <3>1 DEF IsList, LinkedIn, Calm, EventsFit
      <4> QED BY <1>1, <2>1, <4>1, <4>2, <4>3, NoNullEntry
    <3> QED BY <2>1, <3>1
  <2>3. /\ Kept(events, events')
        /\ \A j \in DOMAIN events : events[j].what = "create" => events'[j] = events[j]
    BY <2>1 DEF OnlyEndpoints
  <2> QED BY <1>1, <2>1, <2>2, <2>3, EventCalm
<1>6. CASE events[i].what = "snapshot"
  <2>1. UNCHANGED <<entities, events, crashed>>
    BY <1>1, <1>6 DEF Execute, TakeSnapshot
  <2>2. events' = events /\ crashed' = crashed /\ DOMAIN existing' \subseteq DOMAIN existing
    BY <2>1 DEF entities
  <2> QED BY <1>1, <1>2, <2>2, EventCalm
<1> QED BY <1>1, <1>3, <1>4, <1>5, <1>6, EventKinds

\* The constructor starts, with nobody there.
LEMMA StartCalm ==
    ASSUME Typed, WellFormed, todo' = AllSteps, events' = <<>>, DOMAIN existing' = {},
           crashed' = FALSE, config' = config
    PROVE  Calm'
<1> DEFINE n == Len(config.participants)
           m == Len(config.snapshots)
<1>1. /\ n \in Nat /\ DOMAIN config.participants = 1 .. n
      /\ m \in Nat /\ DOMAIN config.snapshots = 1 .. m
      /\ \A i \in 1 .. n : todo'[i] = [what |-> "participant", element |-> config.participants[i]]
      /\ \A i \in DOMAIN todo' :
            \/ i \in 1 .. n
            \/ i - n \in 1 .. m /\ todo'[i] = [what |-> "snapshot",
                                               element |-> config.snapshots[i - n]]
  <2>1. config \in Configuration
    BY DEF Typed
  <2> QED BY <2>1, AllStepsFacts, Zenon
<1> HIDE DEF n, m
<1>2. ASSUME NEW i \in 1 .. n
      PROVE  todo'[i].what = "participant" /\ todo'[i].element = config.participants[i]
  <2>1. todo'[i] = [what |-> "participant", element |-> config.participants[i]]
    BY <1>1, Zenon
  <2> QED BY <2>1
<1>3. ASSUME NEW i \in DOMAIN todo', i \notin 1 .. n
      PROVE  todo'[i].what = "snapshot" /\ todo'[i].element.described
  <2>1. i - n \in 1 .. m /\ todo'[i] = [what |-> "snapshot", element |-> config.snapshots[i - n]]
    BY <1>1, <1>3, Zenon
  <2>2. config.snapshots[i - n].described
    BY <1>1, <2>1 DEF WellFormed, WellDescribed
  <2> QED BY <2>1, <2>2
<1>4. StepsApart'
  BY <1>1, <1>2, <1>3 DEF StepsApart, WellFormed, PrefixesApart, Noticed
<1>5. StepsFit'
  BY <1>2, <1>3 DEF StepsFit, StepFits
<1>6. AllLoadable' /\ CreationsApart' /\ EventsFit'
  BY DEF AllLoadable, Loadable, Absent, CreationsApart, EventsFit, Pending
<1> QED BY <1>4, <1>5, <1>6 DEF Calm

\* With nothing to load and nothing to run.
LEMMA IdleCalm ==
    ASSUME todo' = <<>>, events' = <<>>, crashed' = FALSE
    PROVE  Calm'
BY DEF Calm, StepsApart, AllLoadable, CreationsApart, StepsFit, EventsFit, Pending

\* A step that leaves the schedule and the participants alone.
LEMMA UnchangedCalm ==
    ASSUME Calm, UNCHANGED <<events, todo, done, existing, members, config, crashed>>
    PROVE  Calm'
BY DEF Calm, StepsApart, Noticed, AllLoadable, Loadable, Absent, SharesPrefix, ConfiguredGuid,
       CreationsApart, StepsFit, StepFits, EventsFit, EventFits, GivenIn, Pending

\* Every step.
LEMMA NextCalmInv ==
    ScheduleInv /\ ScheduleInv' /\ PlanInv /\ CalmInv /\ [Next]_serverVars => CalmInv'
<1> SUFFICES ASSUME ScheduleInv, ScheduleInv', PlanInv, CalmInv, [Next]_serverVars, WellFormed'
             PROVE  Calm'
  BY DEF CalmInv
<1>1. Typed /\ InPhase /\ IInv /\ InPhase'
  BY DEF ScheduleInv
<1>2. ASSUME config' = config PROVE WellFormed /\ Calm /\ crashed = FALSE
  <2>1. WellFormed
    BY <1>2 DEF WellFormed, WellDescribed, PrefixesApart, Noticed, Elements
  <2> QED BY <2>1 DEF CalmInv, Calm
<1>3. CASE UNCHANGED serverVars
  BY <1>2, <1>3, UnchangedCalm DEF serverVars, mainVars, entities
<1>4. CASE ~crashed /\ ReadFile
  <2>1. phase = "start" /\ UNCHANGED <<existing, events, config>>
    BY <1>4 DEF ReadFile, entities
  <2>2. events = <<>> /\ todo = <<>> /\ DOMAIN existing = {} /\ WellFormed /\ crashed = FALSE
    BY <1>1, <1>2, <2>1 DEF InPhase
  <2>3. ~MapServerInfoFails
    <3>1. ASSUME NEW i \in DOMAIN config.participants
          PROVE  ~(config.participants[i].kind = "server" /\ config.participants[i].profile = "none")
      <4>1. config.participants[i] \in Elements
        BY DEF Elements
      <4>2. config.participants[i].kind = "server" =>
               config.participants[i].profile \in {"unknown", "good"}
        BY <2>2, <4>1 DEF WellFormed, WellDescribed
      <4> QED BY <4>2
    <3> QED BY <3>1 DEF MapServerInfoFails
  <2>4. crashed' = FALSE
    BY <1>4, <2>2, <2>3 DEF ReadFile
  <2>5. CASE todo' = AllSteps
    BY <1>1, <2>1, <2>2, <2>4, <2>5, StartCalm
  <2>6. CASE todo' = todo
    BY <2>1, <2>2, <2>4, <2>6, IdleCalm
  <2> QED BY <1>4, <2>5, <2>6 DEF ReadFile, AllSteps
<1>5. CASE ~crashed /\ LoadElement
  <2>1. config' = config
    BY <1>5 DEF LoadElement
  <2> QED BY <1>2, <1>5, <2>1, LoadCalm DEF PlanInv
<1>6. CASE ~crashed /\ RunEvents
  <2>1. PICK i \in Pending : RunEvent(i)
    BY <1>6 DEF RunEvents
  <2>2. phase = "run" /\ UNCHANGED <<config, todo>>
    BY <1>6 DEF RunEvents, mainVars
  <2> QED BY <1>2, <2>1, <2>2, RunCalm
<1>7. CASE ~crashed /\ (Loaded \/ UserShutdown \/ Validate \/ KeyPressed \/ Exit)
  <2>1. UNCHANGED <<config, events, todo, done, existing, members>>
    BY <1>7 DEF Loaded, UserShutdown, Validate, KeyPressed, Conclude, Exit, entities
  <2>2. config.textless => config.unset
    BY <1>2, <2>1 DEF WellFormed, WellDescribed
  <2>3. crashed' = crashed
    <3>1. CASE Loaded
      BY <1>2, <2>1, <2>2, <3>1 DEF Loaded
    <3>2. CASE UserShutdown \/ Validate \/ KeyPressed \/ Exit
      BY <3>2 DEF UserShutdown, Validate, KeyPressed, Conclude, Exit
    <3> QED BY <1>7, <3>1, <3>2
  <2> QED BY <1>2, <2>1, <2>3, UnchangedCalm
<1>8. CASE ~crashed /\ Terminate
  <2>1. /\ phase = "validated" /\ events' = <<>> /\ UNCHANGED <<config, todo, crashed>>
    BY <1>8 DEF Terminate
  <2>2. todo = <<>> /\ crashed = FALSE
    BY <1>1, <1>2, <2>1 DEF InPhase
  <2> QED BY <2>1, <2>2, IdleCalm
<1>9. ASSUME NEW s, NEW p, on_participant_discovery(s, p) PROVE Calm'
  <2>1. UNCHANGED <<config, events, todo, done, existing, members, crashed>>
    BY <1>9 DEF on_participant_discovery, entities, mainVars
  <2> QED BY <1>2, <2>1, UnchangedCalm
<1>10. CASE StartAgain
  <2>1. phase = "exited" /\ UNCHANGED <<events, todo, crashed>>
    BY <1>10 DEF StartAgain
  <2>2. events = <<>> /\ todo = <<>> /\ crashed = FALSE
    BY <1>1, <2>1 DEF InPhase, Over
  <2> QED BY <2>1, <2>2, IdleCalm
<1> QED BY <1>3, <1>4, <1>5, <1>6, <1>7, <1>8, <1>9, <1>10 DEF Next, Main

\* A configuration that is well described, and uses a prefix twice only where loadServer
\* notices, never ends the process: no string is made of a null attribute, no assert
\* fails, no null pointer is used and no number is asked of a port that has none, in
\* whatever order events of one time are run.
THEOREM WellFormedNeverCrash == Spec => []WellFormedRunsDoNotCrash
<1>1. Init => CalmInv
  BY IdleCalm DEF Init, CalmInv, Calm, StepsApart, AllLoadable, CreationsApart, StepsFit,
                  EventsFit, Pending
<1>2. (ScheduleInv /\ PlanInv) /\ (ScheduleInv /\ PlanInv)' /\ CalmInv /\ [Next]_serverVars
         => CalmInv'
  BY NextCalmInv
<1>3. CalmInv => WellFormedRunsDoNotCrash
  BY DEF CalmInv, Calm, WellFormedRunsDoNotCrash
<1> QED BY <1>1, <1>2, <1>3, PlanHolds, PTL DEF Spec
=============================================================================
