----------------------- MODULE EndpointScheduleProofs -----------------------
(***************************************************************************)
(* Endpoints follow their schedule, for every configuration.               *)
(*                                                                         *)
(* An endpoint of a configuration is told by its id, an endpoint of Fast   *)
(* DDS by its GUID, which is only known once it is created.  What has to   *)
(* be shown is that the removal event of an endpoint is told its GUID, and *)
(* that nobody else's removal event is.                                    *)
(***************************************************************************)
EXTENDS ScheduleProofs

\* The endpoints that exist have GUIDs that their participant has used.
Numbered ==
    /\ \A g \in DOMAIN existing : "used" \in DOMAIN existing[g]
    /\ \A e \in DOMAIN endpoints : e \in Endpoint /\ e \in existing[Owner[e]].used

\* A participant is still to be created.
Coming(g) ==
    \/ Awaited(g)
    \/ \E i \in Pending : events[i].what = "create" /\ events[i].element.guid = g

\* A removal event has been told a GUID of the participant: that was created, and
\* will not use the GUID again.
ToldUsed(g) ==
    \A i \in DOMAIN events :
        events[i].what = "destroyEndpoint" /\ events[i].guid # Unknown /\ Owner[events[i].guid] = g
        => ~Coming(g) /\ (g \in DOMAIN existing => events[i].guid \in existing[g].used)

-----------------------------------------------------------------------------
(* One endpoint of the configuration.                                      *)

StartTime(element, endpoint) ==
    IF endpoint.creation # {} THEN Second * (CHOOSE t \in endpoint.creation : TRUE)
    ELSE IF element.creation # 0 THEN Second * element.creation + 1
    ELSE 0

IsStepFor(i, id) == todo[i].what = "endpoint" /\ todo[i].element.id = id

\* What the step that loads it has been given.
StepFor(list, step, element, endpoint) ==
    /\ step.element = endpoint
    /\ step.guid = element.guid
    /\ IF element.kind = "server" \/ element.creation = 0 THEN step.owner = 0
       ELSE /\ step.owner # 0
            /\ step.owner \in DOMAIN list
            /\ list[step.owner].time = Second * element.creation

StepsArePlanned(element, endpoint) ==
    /\ \A i \in DOMAIN todo : IsStepFor(i, endpoint.id) =>
          ~Awaited(element.guid) /\ StepFor(events, todo[i], element, endpoint)
    /\ \A i, j \in DOMAIN todo : IsStepFor(i, endpoint.id) /\ IsStepFor(j, endpoint.id) => i = j

EndpointAwaited(element, endpoint) ==
    Awaited(element.guid) \/ \E i \in DOMAIN todo : IsStepFor(i, endpoint.id)

\* Nothing is there of an endpoint before its step.
Unmade(id) ==
    /\ \A i \in DOMAIN events : events[i].what = "createEndpoint" => events[i].element.id # id
    /\ \A e \in DOMAIN endpoints : endpoints[e] # id

\* Its creation event is c and its removal event d, 0 standing for neither.
EndpointEvents(element, endpoint, c, d) ==
    /\ c = 0 <=> StartTime(element, endpoint) = 0
    /\ d = 0 <=> endpoint.removal = 0
    /\ c # 0 => /\ c \in DOMAIN events /\ events[c].what = "createEndpoint"
                /\ events[c].element = endpoint /\ events[c].guid = element.guid
                /\ events[c].removal = d
                /\ events[c].time = StartTime(element, endpoint)
    /\ d # 0 => /\ d \in DOMAIN events /\ events[d].what = "destroyEndpoint"
                /\ events[d].time = Second * endpoint.removal
    /\ \A i \in DOMAIN events : events[i].what = "createEndpoint" =>
          /\ events[i].element.id = endpoint.id => i = c
          /\ d # 0 /\ events[i].removal = d => i = c

\* It has not been created.
NotMadeYet(id, d) ==
    /\ \A e \in DOMAIN endpoints : endpoints[e] # id
    /\ d # 0 => events[d].guid = Unknown

\* It was created with the GUID e, which only its own removal event was told.
MadeAs(e, g, id, d) ==
    /\ Owner[e] = g
    /\ g \in DOMAIN existing => e \in existing[g].used
    /\ d # 0 => events[d].guid = e
    /\ \A i \in DOMAIN events : events[i].what = "destroyEndpoint" /\ events[i].guid = e => i = d
    /\ \A f \in DOMAIN endpoints : endpoints[f] = id <=> f = e
    /\ e \in DOMAIN endpoints <=> g \in DOMAIN members /\ (d = 0 \/ d \notin done)

EndpointOnPlan(element, endpoint, c, d) ==
    /\ EndpointEvents(element, endpoint, c, d)
    /\ IF c # 0 /\ c \notin done THEN NotMadeYet(endpoint.id, d)
       ELSE \E e \in Endpoint : MadeAs(e, element.guid, endpoint.id, d)

EndpointPlanned(element, endpoint) ==
    /\ StepsArePlanned(element, endpoint)
    /\ IF EndpointAwaited(element, endpoint) THEN Unmade(endpoint.id)
       ELSE \E c, d \in Nat : EndpointOnPlan(element, endpoint, c, d)

(***************************************************************************)
(* The inductive invariant.                                                *)
(***************************************************************************)
UniqueIds ==
    \A i, j \in DOMAIN config.participants :
        \A k \in DOMAIN config.participants[i].endpoints,
           l \in DOMAIN config.participants[j].endpoints :
            config.participants[i].endpoints[k].id = config.participants[j].endpoints[l].id
            => i = j /\ k = l

AllTold == \A element \in Elements : WellPlanned(element) => ToldUsed(element.guid)

AllPlanned ==
    \A element \in Elements : WellPlanned(element) /\ KnownBeforehand(element) =>
        \A endpoint \in EndpointsOf(element) :
            PlannedEndpoint(element, endpoint) => EndpointPlanned(element, endpoint)

EndpointInv ==
    /\ UniqueIds
    /\ Scheduling /\ ~crashed => Numbered /\ AllTold /\ AllPlanned

-----------------------------------------------------------------------------
(* What the configuration says.                                            *)

\* The endpoints of an element, and their types.
LEMMA EndpointTyped ==
    ASSUME config \in Configuration, NEW element \in Elements, NEW endpoint \in EndpointsOf(element)
    PROVE  /\ endpoint \in EndpointElement
           /\ endpoint.removal \in Nat /\ endpoint.usable \in BOOLEAN
           /\ endpoint.creation \subseteq Nat /\ \A s, t \in endpoint.creation : s = t
           /\ \A s, t \in endpoint.topic : s = t
<1>1. element.endpoints \in Seq(EndpointElement)
  BY ElementTyped DEF ParticipantElement
<1>2. endpoint \in EndpointElement
  BY <1>1 DEF EndpointsOf
<1> QED BY <1>2 DEF EndpointElement, Optional

\* Endpoints of the configuration are told apart by their ids.
LEMMA SameId ==
    ASSUME UniqueIds, NEW element \in Elements, NEW endpoint \in EndpointsOf(element),
           NEW other \in Elements, NEW l \in DOMAIN other.endpoints,
           other.endpoints[l].id = endpoint.id
    PROVE  /\ other = element /\ other.endpoints[l] = endpoint
           /\ \A k \in DOMAIN element.endpoints : element.endpoints[k].id = endpoint.id => k = l
<1>1. PICK i \in DOMAIN config.participants : element = config.participants[i]
  BY DEF Elements
<1>2. PICK j \in DOMAIN config.participants : other = config.participants[j]
  BY DEF Elements
<1>3. PICK k \in DOMAIN element.endpoints : endpoint = element.endpoints[k]
  BY DEF EndpointsOf
<1>4. i = j /\ k = l
  BY <1>1, <1>2, <1>3 DEF UniqueIds
<1>5. \A m \in DOMAIN element.endpoints : element.endpoints[m].id = endpoint.id => m = l
  BY <1>1, <1>2, <1>3, <1>4 DEF UniqueIds
<1> QED BY <1>1, <1>2, <1>3, <1>4, <1>5

\* A planned endpoint is created after its participant and before both are removed.
LEMMA StartTimes ==
    ASSUME config \in Configuration, NEW element \in Elements, WellPlanned(element),
           NEW endpoint \in EndpointsOf(element), PlannedEndpoint(element, endpoint)
    PROVE  LET start == StartTime(element, endpoint)
           IN /\ start \in Nat
              /\ element.creation # 0 => Second * element.creation < start
              /\ element.removal # 0 => start < Second * element.removal
              /\ endpoint.removal # 0 => start < Second * endpoint.removal
<1> DEFINE start == StartTime(element, endpoint)
           s == element.creation
<1>1. /\ s \in Nat /\ element.removal \in Nat /\ endpoint.removal \in Nat
      /\ endpoint.creation \subseteq Nat
  BY ElementTyped, EndpointTyped
<1>2. Second \in Nat /\ Second > 1 /\ Second * s \in Nat
  BY <1>1, SecondAssumption
<1>3. /\ element.removal # 0 => s < element.removal
      /\ endpoint.removal # 0 => s < endpoint.removal
  BY DEF WellPlanned, PlannedEndpoint
<1>4. ASSUME NEW t \in Nat, t # 0, s < t PROVE Second * s + 1 < Second * t
  <2>1. Second * s + Second <= Second * t /\ Second * t \in Nat
    BY <1>1, <1>4, SecondsInOrder
  <2> QED BY <1>2, <2>1
<1>5. CASE endpoint.creation # {}
  <2> DEFINE t == CHOOSE t \in endpoint.creation : TRUE
  <2>1. t \in endpoint.creation
    BY <1>5
  <2>2. start = Second * t
    BY <1>5 DEF StartTime
  <2> HIDE DEF t, start
  <2>3. /\ t \in Nat
        /\ s < t \/ s = 0
        /\ element.removal # 0 => t < element.removal
        /\ endpoint.removal # 0 => t < endpoint.removal
    BY <1>1, <2>1 DEF PlannedEndpoint
  <2>4. start \in Nat
    BY <1>2, <2>2, <2>3
  <2>5. s # 0 => Second * s < start
    <3>1. CASE s # 0
      <4>1. Second * s + 1 < Second * t
        BY <1>1, <1>4, <2>3, <3>1
      <4> QED BY <1>2, <2>2, <2>4, <4>1
    <3> QED BY <3>1
  <2>6. ASSUME NEW r \in Nat, t < r PROVE start < Second * r
    <3>1. Second * t + Second <= Second * r /\ Second * r \in Nat
      BY <2>3, <2>6, SecondsInOrder
    <3> QED BY <1>2, <2>2, <2>4, <3>1
  <2>7. /\ element.removal # 0 => start < Second * element.removal
        /\ endpoint.removal # 0 => start < Second * endpoint.removal
    BY <1>1, <2>3, <2>6
  <2> QED BY <2>4, <2>5, <2>7 DEF start
<1>6. CASE endpoint.creation = {} /\ s # 0
  <2>1. start = Second * s + 1
    BY <1>6 DEF StartTime
  <2> HIDE DEF start
  <2>2. /\ element.removal # 0 => start < Second * element.removal
        /\ endpoint.removal # 0 => start < Second * endpoint.removal
    BY <1>1, <1>3, <1>4, <2>1
  <2>3. start \in Nat /\ Second * s < start
    BY <1>2, <2>1
  <2> QED BY <2>2, <2>3 DEF start
<1>7. CASE endpoint.creation = {} /\ s = 0
  <2>1. start = 0
    BY <1>7 DEF StartTime
  <2>2. ASSUME NEW r \in Nat, r # 0 PROVE 0 < Second * r
    <3>1. s < r
      BY <1>7, <2>2
    <3>2. Second * s + 1 < Second * r
      BY <1>4, <2>2, <3>1
    <3>3. Second * r \in Nat
      BY <1>2
    <3> QED BY <1>2, <3>2, <3>3
  <2> HIDE DEF start
  <2> QED BY <1>1, <1>7, <2>1, <2>2 DEF start
<1> QED BY <1>5, <1>6, <1>7

-----------------------------------------------------------------------------
(* What DelayedEndpointCreation makes: at most one endpoint, with a GUID   *)
(* its participant has not used.                                           *)

Made(element, g, F) ==
    /\ F \subseteq Endpoint
    /\ UNCHANGED members /\ DOMAIN existing' = DOMAIN existing
    /\ DOMAIN endpoints' = DOMAIN endpoints \cup F
    /\ \A e \in DOMAIN endpoints \ F : endpoints'[e] = endpoints[e]
    /\ \A f \in F : /\ F = {f} /\ Owner[f] = g /\ endpoints'[f] = element.id
                    /\ g \in DOMAIN existing
                    /\ f \notin existing[g].used /\ f \in existing'[g].used
    /\ \A h \in DOMAIN existing : /\ "used" \in DOMAIN existing'[h]
                                  /\ existing[h].used \subseteq existing'[h].used

\* Whenever the participant is there and the profile is usable, the endpoint is made.
LEMMA MakesEndpoint ==
    ASSUME Consistent, Numbered, NEW element \in EndpointElement, NEW g, NEW owner, NEW list,
           NEW removal, CreateEndpoint(element, g, owner, list, removal), crashed' # TRUE
    PROVE  \E F \in SUBSET Endpoint : /\ Made(element, g, F)
                                      /\ g \in DOMAIN existing /\ element.usable => F # {}
                                      /\ F = {} => events' = list
                                      /\ \A f \in F : events' = EndpointTold(list, removal, f)
<1> DEFINE None == {}
<1>1. \A h \in DOMAIN existing : "used" \in DOMAIN existing[h] /\ "topics" \in DOMAIN existing[h]
  BY DEF Consistent, Shapes, Numbered
<1>2. None \in SUBSET Endpoint
  OBVIOUS
<1>3. CASE NoParticipant(g, owner) /\ events' = list /\ UNCHANGED <<members, existing, endpoints>>
  <2>1. g \notin DOMAIN existing
    BY <1>3 DEF NoParticipant, Found, Consistent, Agreement
  <2>2. Made(element, g, None)
    BY <1>1, <1>3, <2>1 DEF Made
  <2> HIDE DEF None
  <2>3. None = {}
    BY DEF None
  <2> QED BY <1>2, <1>3, <2>1, <2>2, <2>3
<1>4. CASE /\ Indexed(g)[g].valid /\ members' = members
           /\ IF EndpointMade(g, element)
              THEN \E e \in Fresh(g, element) :
                      /\ existing' = [existing EXCEPT ![g].topics = @ \cup element.topic,
                                                      ![g].used = @ \cup {e}]
                      /\ endpoints' = Put(endpoints, e, element.id)
                      /\ events' = EndpointTold(list, removal, e)
              ELSE /\ existing' = IF HasTopic(g, element.topic)
                                  THEN [existing EXCEPT ![g].topics = @ \cup element.topic]
                                  ELSE existing
                   /\ events' = list
                   /\ UNCHANGED endpoints
  <2>1. g \in DOMAIN entityMap /\ g \in DOMAIN existing
    <3>1. CASE g \in DOMAIN entityMap
      <4>1. entityMap[g].valid
        BY <1>4, <3>1 DEF Indexed
      <4>. QED  BY <3>1, <4>1 DEF Consistent, Agreement
    <3>2. CASE g \notin DOMAIN entityMap
      <4>1. Indexed(g)[g] = [valid |-> FALSE, topics |-> {}]
        BY <3>2, IndexedFacts DEF NoInfo
      <4>. QED  BY <1>4, <4>1
    <3>. QED  BY <3>1, <3>2
  <2>2. HasTopic(g, element.topic)
    <3>1. \A s, t \in element.topic : s = t
      BY DEF EndpointElement, Optional
    <3>2. entityMap[g].topics = existing[g].topics
      BY <2>1 DEF Consistent, Agreement
    <3> QED BY <3>1, <3>2 DEF HasTopic
  <2>3. CASE ~element.usable
    <3>1. /\ existing' = [existing EXCEPT ![g].topics = @ \cup element.topic]
          /\ events' = list /\ endpoints' = endpoints
      BY <1>4, <2>2, <2>3 DEF EndpointMade
    <3>2. existing'[g] = [existing[g] EXCEPT !.topics = @ \cup element.topic]
      BY <2>1, <3>1
    <3>3. "used" \in DOMAIN existing'[g] /\ existing'[g].used = existing[g].used
      BY <1>1, <2>1, <3>2
    <3>4. \A h \in DOMAIN existing : h # g => existing'[h] = existing[h]
      BY <3>1
    <3>5. DOMAIN existing' = DOMAIN existing
      BY <3>1
    <3>6. Made(element, g, None)
      BY <1>1, <1>4, <2>3, <3>1, <3>3, <3>4, <3>5 DEF Made
    <3> HIDE DEF None
    <3>7. None = {}
      BY DEF None
    <3> QED BY <1>2, <2>3, <3>1, <3>6, <3>7
  <2>4. CASE element.usable
    <3>1. PICK e \in Fresh(g, element) :
             /\ existing' = [existing EXCEPT ![g].topics = @ \cup element.topic,
                                             ![g].used = @ \cup {e}]
             /\ endpoints' = Put(endpoints, e, element.id)
             /\ events' = EndpointTold(list, removal, e)
      BY <1>4, <2>2, <2>4 DEF EndpointMade
    <3>2. e \in Endpoint /\ Owner[e] = g /\ e \notin existing[g].used
      BY DEF Fresh
    <3>3. /\ DOMAIN existing' = DOMAIN existing
          /\ \A h \in DOMAIN existing : h # g => existing'[h] = existing[h]
      BY <3>1
    <3>4. existing'[g] = [existing[g] EXCEPT !.topics = @ \cup element.topic,
                                             !.used = @ \cup {e}]
      BY <2>1, <3>1
    <3>5. "used" \in DOMAIN existing'[g] /\ existing'[g].used = existing[g].used \cup {e}
      BY <1>1, <2>1, <3>4
    <3>6. /\ DOMAIN endpoints' = DOMAIN endpoints \cup {e} /\ endpoints'[e] = element.id
          /\ \A f \in DOMAIN endpoints \ {e} : endpoints'[f] = endpoints[f]
      BY <3>1 DEF Put
    <3> DEFINE F == {e}
    <3>7. F \in SUBSET Endpoint /\ F # {} /\ \A f : f \in F <=> f = e
      BY <3>2
    <3>8. \A h \in DOMAIN existing : /\ "used" \in DOMAIN existing'[h]
                                     /\ existing[h].used \subseteq existing'[h].used
      BY <1>1, <3>3, <3>5
    <3>9. Made(element, g, F)
      BY <1>4, <2>1, <3>2, <3>3, <3>5, <3>6, <3>8 DEF Made
    <3> HIDE DEF F
    <3> QED BY <3>1, <3>7, <3>9
  <2> QED BY <2>3, <2>4
<1> QED BY <1>3, <1>4 DEF CreateEndpoint, Crash

-----------------------------------------------------------------------------
(***************************************************************************)
(* A step of the schedule, as endpoints see it.  F are the endpoints it    *)
(* makes; others may go.  No removal event is told another GUID than those *)
(* of F, and none that knows one is told again.                            *)
(***************************************************************************)
Onward(F) ==
    /\ F \subseteq Endpoint
    /\ \A f \in F : /\ Owner[f] \in DOMAIN existing /\ f \notin existing[Owner[f]].used
                    /\ Owner[f] \in DOMAIN existing' => f \in existing'[Owner[f]].used
    /\ \A e \in DOMAIN endpoints' \ F : e \in DOMAIN endpoints /\ endpoints'[e] = endpoints[e]
    /\ \A g \in DOMAIN existing' :
          /\ "used" \in DOMAIN existing'[g]
          /\ g \in DOMAIN existing => existing[g].used \subseteq existing'[g].used
    /\ Kept(events, events')
    /\ \A i \in DOMAIN events' : events'[i].what = "destroyEndpoint" =>
          \/ events'[i].guid \in F \cup {Unknown}
          \/ i \in DOMAIN events /\ events'[i].guid = events[i].guid
    /\ \A i \in DOMAIN events : events[i].what = "destroyEndpoint" /\ events[i].guid # Unknown =>
          events'[i].guid = events[i].guid
    /\ \A i \in DOMAIN events' \ DOMAIN events : events'[i].what = "createEndpoint" =>
          events'[i].removal \notin DOMAIN events

\* The endpoints and creation events that come are about others than id.
Elsewhere(F, id) ==
    /\ \A f \in F : f \in DOMAIN endpoints' => endpoints'[f] # id
    /\ \A i \in DOMAIN events' \ DOMAIN events :
          events'[i].what = "createEndpoint" => events'[i].element.id # id

\* The endpoints that exist keep GUIDs that are used.
LEMMA NumberedKept ==
    ASSUME Numbered, Consistent, Consistent', NEW F, Onward(F)
    PROVE  Numbered'
<1>1. ASSUME NEW e \in DOMAIN endpoints' PROVE e \in Endpoint /\ e \in existing'[Owner[e]].used
  <2>1. Owner[e] \in DOMAIN existing'
    BY DEF Consistent, Agreement
  <2>2. CASE e \in F
    BY <2>1, <2>2 DEF Onward
  <2>3. CASE e \notin F
    <3>1. e \in DOMAIN endpoints
      BY <2>3 DEF Onward
    <3>2. e \in Endpoint /\ e \in existing[Owner[e]].used /\ Owner[e] \in DOMAIN existing
      BY <3>1 DEF Numbered, Consistent, Agreement
    <3> QED BY <2>1, <3>2 DEF Onward
  <2> QED BY <2>2, <2>3
<1>2. \A g \in DOMAIN existing' : "used" \in DOMAIN existing'[g]
  BY DEF Onward
<1> QED BY <1>1, <1>2 DEF Numbered

\* Whoever is there, and was told of, is not there for the first time.
LEMMA ToldKeptUsed ==
    ASSUME NEW F, Onward(F), NEW g, ToldUsed(g), Coming(g)' => Coming(g),
           g \in DOMAIN existing' => g \in DOMAIN existing \/ Coming(g),
           g \in DOMAIN existing => ~Coming(g)
    PROVE  ToldUsed(g)'
<1> SUFFICES ASSUME NEW i \in DOMAIN events', events'[i].what = "destroyEndpoint",
                    events'[i].guid # Unknown, Owner[events'[i].guid] = g
             PROVE  ~Coming(g)' /\ (g \in DOMAIN existing' => events'[i].guid \in existing'[g].used)
  BY DEF ToldUsed
<1> DEFINE e == events'[i].guid
<1>1. CASE e \in F
  BY <1>1 DEF Onward
<1>2. CASE i \in DOMAIN events /\ e = events[i].guid
  <2>1. events[i].what = "destroyEndpoint"
    BY <1>2 DEF Onward, Kept, SameEvent
  <2>2. ~Coming(g) /\ (g \in DOMAIN existing => e \in existing[g].used)
    BY <1>2, <2>1 DEF ToldUsed
  <2> QED BY <2>2 DEF Onward
<1> QED BY <1>1, <1>2 DEF Onward

\* Nothing is there of an endpoint, after a step about others.
LEMMA UnmadeKept ==
    ASSUME NEW F, Onward(F), NEW id, Elsewhere(F, id), Unmade(id)
    PROVE  Unmade(id)'
<1>1. ASSUME NEW i \in DOMAIN events', events'[i].what = "createEndpoint"
      PROVE  events'[i].element.id # id
  <2>1. CASE i \in DOMAIN events
    BY <1>1, <2>1 DEF Onward, Kept, SameEvent, Unmade
  <2>2. CASE i \notin DOMAIN events
    BY <1>1, <2>2 DEF Elsewhere
  <2> QED BY <2>1, <2>2
<1>2. ASSUME NEW e \in DOMAIN endpoints' PROVE endpoints'[e] # id
  BY DEF Onward, Elsewhere, Unmade
<1> QED BY <1>1, <1>2 DEF Unmade

\* The events of an endpoint stay its only ones.
LEMMA EndpointEventsKept ==
    ASSUME NEW F, Onward(F), NEW element, NEW endpoint, NEW G, Elsewhere(G, endpoint.id),
           NEW c, NEW d, EndpointEvents(element, endpoint, c, d)
    PROVE  EndpointEvents(element, endpoint, c, d)'
<1>1. c # 0 => /\ c \in DOMAIN events' /\ events'[c].what = "createEndpoint"
               /\ events'[c].element = endpoint /\ events'[c].guid = element.guid
               /\ events'[c].removal = d
               /\ events'[c].time = StartTime(element, endpoint)
  BY DEF EndpointEvents, Onward, Kept, SameEvent
<1>2. d # 0 => /\ d \in DOMAIN events' /\ events'[d].what = "destroyEndpoint"
               /\ events'[d].time = Second * endpoint.removal
  BY DEF EndpointEvents, Onward, Kept, SameEvent
<1>3. ASSUME NEW i \in DOMAIN events', events'[i].what = "createEndpoint"
      PROVE  /\ events'[i].element.id = endpoint.id => i = c
             /\ d # 0 /\ events'[i].removal = d => i = c
  <2>1. CASE i \in DOMAIN events
    <3>1. /\ events[i].what = "createEndpoint" /\ events'[i].element = events[i].element
          /\ events'[i].removal = events[i].removal
      BY <1>3, <2>1 DEF Onward, Kept, SameEvent
    <3> QED BY <2>1, <3>1 DEF EndpointEvents
  <2>2. CASE i \notin DOMAIN events
    <3>1. events'[i].element.id # endpoint.id /\ events'[i].removal \notin DOMAIN events
      BY <1>3, <2>2 DEF Onward, Elsewhere
    <3> QED BY <3>1 DEF EndpointEvents
  <2> QED BY <2>1, <2>2
<1>4. (c = 0 <=> StartTime(element, endpoint) = 0) /\ (d = 0 <=> endpoint.removal = 0)
  BY DEF EndpointEvents
<1> QED BY <1>1, <1>2, <1>3, <1>4 DEF EndpointEvents, StartTime

\* An endpoint that was made keeps its GUID to itself.
LEMMA MadeKept ==
    ASSUME NEW F, Onward(F), NEW e \in Endpoint, NEW g, NEW id, Elsewhere(F, id), NEW d,
           d # 0 => d \in DOMAIN events /\ events[d].what = "destroyEndpoint",
           MadeAs(e, g, id, d), g \in DOMAIN existing' => g \in DOMAIN existing,
           e \in DOMAIN endpoints' <=> g \in DOMAIN members' /\ (d = 0 \/ d \notin done')
    PROVE  MadeAs(e, g, id, d)'
<1>1. Owner[e] = g /\ e # Unknown /\ e \notin F
  <2>1. Owner[e] = g /\ e # Unknown
    BY UnknownAssumption DEF MadeAs
  <2>2. e \in F => FALSE
    BY <2>1 DEF Onward, MadeAs
  <2> QED BY <2>1, <2>2
<1>2. g \in DOMAIN existing' => e \in existing'[g].used
  BY DEF Onward, MadeAs
<1>3. d # 0 => events'[d].guid = e
  BY <1>1 DEF Onward, MadeAs
<1>4. ASSUME NEW i \in DOMAIN events', events'[i].what = "destroyEndpoint", events'[i].guid = e
      PROVE  i = d
  <2>1. i \in DOMAIN events /\ events[i].guid = e
    BY <1>1, <1>4 DEF Onward
  <2>2. events[i].what = "destroyEndpoint"
    BY <1>4, <2>1 DEF Onward, Kept, SameEvent
  <2> QED BY <2>1, <2>2 DEF MadeAs
<1>5. ASSUME NEW f \in DOMAIN endpoints' PROVE endpoints'[f] = id <=> f = e
  <2>1. CASE f \in F
    BY <1>1, <2>1 DEF Elsewhere
  <2>2. CASE f \notin F
    BY <2>2 DEF Onward, MadeAs
  <2> QED BY <2>1, <2>2
<1> QED BY <1>1, <1>2, <1>3, <1>4, <1>5 DEF MadeAs

\* Where an endpoint is to be after a step.
StaysAs(g, id, d) ==
    \A e \in Endpoint : MadeAs(e, g, id, d) =>
        (e \in DOMAIN endpoints' <=> g \in DOMAIN members' /\ (d = 0 \/ d \notin done'))

\* An endpoint whose own creation event does not run.
LEMMA EndpointOnPlanKept ==
    ASSUME NEW F, Onward(F), NEW element, NEW endpoint, Elsewhere(F, endpoint.id), NEW c, NEW d,
           EndpointOnPlan(element, endpoint, c, d), c # 0 => (c \in done' <=> c \in done),
           c # 0 /\ c \notin done /\ d # 0 => events'[d].guid = events[d].guid,
           c = 0 \/ c \in done =>
              /\ element.guid \in DOMAIN existing' => element.guid \in DOMAIN existing
              /\ StaysAs(element.guid, endpoint.id, d)
    PROVE  EndpointOnPlan(element, endpoint, c, d)'
<1> DEFINE g == element.guid
           id == endpoint.id
<1>1. EndpointEvents(element, endpoint, c, d) /\ EndpointEvents(element, endpoint, c, d)'
  BY EndpointEventsKept DEF EndpointOnPlan
<1>2. CASE c # 0 /\ c \notin done
  <2>1. NotMadeYet(id, d)
    BY <1>2 DEF EndpointOnPlan
  <2>2. ASSUME NEW e \in DOMAIN endpoints' PROVE endpoints'[e] # id
    BY <2>1 DEF Onward, Elsewhere, NotMadeYet
  <2>3. NotMadeYet(id, d)'
    BY <1>2, <2>1, <2>2 DEF NotMadeYet
  <2> QED BY <1>1, <1>2, <2>3 DEF EndpointOnPlan
<1>3. CASE ~(c # 0 /\ c \notin done)
  <2>1. PICK e \in Endpoint : MadeAs(e, g, id, d)
    BY <1>3 DEF EndpointOnPlan
  <2>2. d # 0 => d \in DOMAIN events /\ events[d].what = "destroyEndpoint"
    BY <1>1 DEF EndpointEvents
  <2>3. e \in DOMAIN endpoints' <=> g \in DOMAIN members' /\ (d = 0 \/ d \notin done')
    BY <1>3, <2>1 DEF StaysAs
  <2>4. MadeAs(e, g, id, d)'
    BY <1>3, <2>1, <2>2, <2>3, MadeKept
  <2>5. ~(c # 0 /\ c \notin done')
    BY <1>3
  <2> QED BY <1>1, <2>4, <2>5 DEF EndpointOnPlan
<1> QED BY <1>2, <1>3

-----------------------------------------------------------------------------
(* Endpoint elements and endpoint creation events.                         *)

\* What an endpoint's element adds to the list: a creation at c if it comes later and
\* a removal at d if it goes, which knows the endpoint that was made at once.
LoadedAs(step, F, c, d) ==
    /\ Made(step.element, step.guid, F) /\ Onward(F)
    /\ \A i \in DOMAIN events : events'[i] = events[i]
    /\ \A i \in DOMAIN events' \ DOMAIN events : i = c \/ i = d
    /\ c = 0 <=> EndpointCreation(step.element, step.owner) = 0
    /\ d = 0 <=> step.element.removal = 0
    /\ IF c = 0 THEN step.guid \in DOMAIN existing /\ step.element.usable => F # {}
       ELSE /\ F = {}
            /\ c \in DOMAIN events' \ DOMAIN events
            /\ events'[c] = CreateEndpointEvent(EndpointCreation(step.element, step.owner),
                                                step.element, step.guid, d, step.owner)
    /\ d # 0 => /\ d \in DOMAIN events' \ DOMAIN events
                /\ events'[d].what = "destroyEndpoint"
                /\ events'[d].time = Second * step.element.removal
                /\ F = {} => events'[d].guid = Unknown
                /\ \A f \in F : events'[d].guid = f

\* The removal event of an endpoint, at the end of the list.
LEMMA EndpointRemovalAdded ==
    ASSUME IsList(events), NEW element \in EndpointElement
    PROVE  LET list == IF element.removal = 0 THEN events
                       ELSE Append(events, DestroyEndpointEvent(Second * element.removal))
               removal == IF element.removal = 0 THEN 0 ELSE Len(list)
           IN /\ Kept(events, list) /\ removal \in Nat
              /\ removal = 0 <=> element.removal = 0
              /\ \A i \in DOMAIN events : list[i] = events[i]
              /\ \A i \in DOMAIN list \ DOMAIN events : i = removal
              /\ removal # 0 =>
                    /\ removal \in DOMAIN list \ DOMAIN events
                    /\ list[removal] = DestroyEndpointEvent(Second * element.removal)
<1> DEFINE event == DestroyEndpointEvent(Second * element.removal)
           list == Append(events, event)
<1>1. element.removal \in Nat
  BY DEF EndpointElement
<1>2. Len(events) \in Nat
  BY DEF IsList
<1>3. CASE element.removal = 0
  BY <1>3, KeptSame
<1>4. CASE element.removal # 0
  <2>1. Second * element.removal \in Nat
    BY <1>1, SecondAssumption
  <2>2. event \in Event /\ LinkedIn(events, event)
    BY <2>1 DEF Event, EndpointDestructions, DestroyEndpointEvent, LinkedIn
  <2> HIDE DEF event
  <2>3. /\ Kept(events, list)
        /\ Len(list) = Len(events) + 1
        /\ list[Len(events) + 1] = event
        /\ \A i \in DOMAIN events : list[i] = events[i]
        /\ DOMAIN list = DOMAIN events \cup {Len(events) + 1}
        /\ Len(events) + 1 \notin DOMAIN events
    BY <2>2, AppendKept
  <2> HIDE DEF list
  <2>4. /\ Len(list) \in Nat \ {0} /\ Len(list) \in DOMAIN list \ DOMAIN events
        /\ list[Len(list)] = event
        /\ \A i \in DOMAIN list \ DOMAIN events : i = Len(list)
    BY <1>2, <2>3
  <2> QED BY <1>4, <2>3, <2>4 DEF list, event
<1> QED BY <1>3, <1>4

\* The removal event, if there is one, is told what was made.
Telling(list, later, removal, F) ==
    /\ F \subseteq Endpoint
    /\ removal # 0 => removal \in DOMAIN list /\ list[removal].what = "destroyEndpoint"
    /\ F = {} => later = list
    /\ \A f \in F : later = EndpointTold(list, removal, f)

Told(list, later, removal, F) ==
    /\ Kept(list, later) /\ DOMAIN later = DOMAIN list
    /\ \A j \in DOMAIN list : j # removal => later[j] = list[j]
    /\ removal # 0 => \/ later[removal].guid = list[removal].guid
                      \/ later[removal].guid \in F /\ list[removal].guid = Unknown
    /\ removal # 0 /\ list[removal].guid = Unknown => \A f \in F : later[removal].guid = f

\* What EndpointTold leaves of a list.
LEMMA TellsEndpoint ==
    ASSUME NEW list, IsList(list), NEW removal, NEW F, NEW later, Telling(list, later, removal, F)
    PROVE  Told(list, later, removal, F)
<1>1. CASE F = {}
  BY <1>1, KeptSame DEF Telling, Told
<1>2. CASE F # {}
  <2>1. ASSUME NEW f \in F
        PROVE  /\ Kept(list, later) /\ DOMAIN later = DOMAIN list
               /\ removal # 0 /\ list[removal].guid = Unknown => later[removal].guid = f
               /\ removal # 0 /\ list[removal].guid # Unknown => later = list
               /\ \A j \in DOMAIN list : j # removal => later[j] = list[j]
    BY EndpointToldKept DEF Telling
  <2> QED BY <1>2, <2>1 DEF Told
<1> QED BY <1>1, <1>2

\* loadPublisher and loadSubscriber: an endpoint that comes later leaves its creation
\* event, any other is made at once if its participant is there.
LEMMA LoadsEndpointAs ==
    ASSUME Typed, Consistent, Numbered, NEW step \in EndpointsToLoad, OwnedIn(events, step),
           LoadEndpoint(step), crashed' # TRUE
    PROVE  \E F \in SUBSET Endpoint : \E c, d \in Nat : LoadedAs(step, F, c, d)
<1> DEFINE element == step.element
           list == IF element.removal = 0 THEN events
                   ELSE Append(events, DestroyEndpointEvent(Second * element.removal))
           removal == IF element.removal = 0 THEN 0 ELSE Len(list)
           creation == EndpointCreation(element, step.owner)
<1>1. /\ IsList(events) /\ element \in EndpointElement /\ step.owner \in Nat /\ step.guid \in Guid
      /\ 0 \notin DOMAIN events
  BY DEF Typed, EndpointsToLoad, IsList
<1>2. /\ Kept(events, list) /\ removal \in Nat
      /\ removal = 0 <=> element.removal = 0
      /\ \A i \in DOMAIN events : list[i] = events[i]
      /\ \A i \in DOMAIN list \ DOMAIN events : i = removal
      /\ removal # 0 => /\ removal \in DOMAIN list \ DOMAIN events
                        /\ list[removal] = DestroyEndpointEvent(Second * element.removal)
  BY <1>1, EndpointRemovalAdded
<1>3. creation \in Nat
  BY <1>1, EndpointCreationTyped
<1>4. \/ creation = 0 /\ CreateEndpoint(element, step.guid, step.owner, list, removal)
      \/ /\ creation # 0
         /\ events' = Append(list,
               CreateEndpointEvent(creation, element, step.guid, removal, step.owner))
         /\ UNCHANGED <<entities, image, snapshots, crashed>>
  BY DEF LoadEndpoint, Crash
<1> HIDE DEF list, removal, creation
<1>5. /\ IsList(list) /\ \A i \in DOMAIN events : i \in DOMAIN list
      /\ removal # 0 => /\ list[removal].what = "destroyEndpoint"
                        /\ list[removal].time = Second * element.removal
                        /\ list[removal].guid = Unknown
  BY <1>2 DEF Kept, DestroyEndpointEvent
<1>6. CASE creation = 0 /\ CreateEndpoint(element, step.guid, step.owner, list, removal)
  <2>1. PICK F \in SUBSET Endpoint :
           /\ Made(element, step.guid, F)
           /\ step.guid \in DOMAIN existing /\ element.usable => F # {}
           /\ F = {} => events' = list
           /\ \A f \in F : events' = EndpointTold(list, removal, f)
    BY <1>1, <1>6, MakesEndpoint
  <2>2. /\ Kept(list, events') /\ DOMAIN events' = DOMAIN list
        /\ \A j \in DOMAIN list : j # removal => events'[j] = list[j]
        /\ removal # 0 => \/ events'[removal].guid = list[removal].guid
                          \/ events'[removal].guid \in F /\ list[removal].guid = Unknown
        /\ removal # 0 /\ list[removal].guid = Unknown =>
              \A f \in F : events'[removal].guid = f
    <3>1. Telling(list, events', removal, F)
      BY <1>2, <1>5, <2>1 DEF Telling
    <3>2. Told(list, events', removal, F)
      BY <1>5, <3>1, TellsEndpoint
    <3> QED BY <3>2 DEF Told
  <2>3. Kept(events, events')
    BY <1>1, <1>2, <2>2, KeptTransitive
  <2>4. \A i \in DOMAIN events : events'[i] = events[i]
    BY <1>1, <1>2, <1>5, <2>2
  <2>5. removal # 0 => /\ removal \in DOMAIN events' \ DOMAIN events
                       /\ events'[removal].what = "destroyEndpoint"
                       /\ events'[removal].time = Second * element.removal
                       /\ F = {} => events'[removal].guid = Unknown
                       /\ \A f \in F : events'[removal].guid = f
    BY <1>2, <1>5, <2>2 DEF Kept, SameEvent
  <2>6. \A i \in DOMAIN events' \ DOMAIN events :
           i = removal /\ removal # 0 /\ events'[i].what = "destroyEndpoint"
    <3>1. \A i \in DOMAIN list : i # 0
      BY <1>5 DEF IsList
    <3> QED BY <1>2, <2>2, <2>5, <3>1
  <2>7. Onward(F)
    <3>1. \A i \in DOMAIN events' : events'[i].what = "destroyEndpoint" =>
             \/ events'[i].guid \in F \cup {Unknown}
             \/ i \in DOMAIN events /\ events'[i].guid = events[i].guid
      BY <2>2, <2>4, <2>5, <2>6
    <3> QED BY <2>1, <2>3, <2>4, <2>6, <3>1 DEF Onward, Made
  <2>8. LoadedAs(step, F, 0, removal)
    BY <1>2, <1>6, <2>1, <2>4, <2>5, <2>6, <2>7 DEF LoadedAs, creation
  <2> QED BY <1>2, <2>8
<1>7. CASE /\ creation # 0
           /\ events' = Append(list,
                 CreateEndpointEvent(creation, element, step.guid, removal, step.owner))
           /\ UNCHANGED <<entities, image, snapshots, crashed>>
  <2> DEFINE event == CreateEndpointEvent(creation, element, step.guid, removal, step.owner)
             c == Len(list) + 1
             None == {}
  <2>1. event \in Event
    BY <1>1, <1>2, <1>3 DEF Event, EndpointCreations, CreateEndpointEvent
  <2>2. step.owner # 0 => step.owner \in DOMAIN list /\ list[step.owner].what = "create"
    BY <1>2, <1>5 DEF OwnedIn, EndpointsToLoad
  <2>3. LinkedIn(list, event) /\ event.what = "createEndpoint" /\ event.removal = removal
    BY <1>2, <1>5, <2>2 DEF LinkedIn, CreateEndpointEvent
  <2>4. events' = Append(list, event)
    BY <1>7
  <2> HIDE DEF event
  <2>5. /\ Kept(list, events')
        /\ events'[c] = event
        /\ \A i \in DOMAIN list : events'[i] = list[i]
        /\ DOMAIN events' = DOMAIN list \cup {c}
        /\ c \notin DOMAIN list
    BY <1>5, <2>1, <2>3, <2>4, AppendKept
  <2>6. c \in Nat /\ c # 0
    BY <1>5 DEF IsList
  <2> HIDE DEF c
  <2>7. Kept(events, events')
    BY <1>1, <1>2, <2>5, KeptTransitive
  <2>8. \A i \in DOMAIN events : events'[i] = events[i]
    BY <1>2, <1>5, <2>5
  <2>9. \A i \in DOMAIN events' \ DOMAIN events : i = c \/ (i = removal /\ removal # 0)
    <3>1. \A i \in DOMAIN list : i # 0
      BY <1>5 DEF IsList
    <3> QED BY <1>2, <2>5, <3>1
  <2>10. removal # 0 => removal \in DOMAIN events' \ DOMAIN events /\ events'[removal] = list[removal]
    BY <1>2, <2>5
  <2>11. None \in SUBSET Endpoint /\ Made(element, step.guid, None)
    <3>1. UNCHANGED <<members, existing, endpoints>>
      BY <1>7 DEF entities
    <3> QED BY <3>1 DEF Made, Numbered
  <2>12. Onward(None)
    <3>1. UNCHANGED <<members, existing, endpoints>>
      BY <1>7 DEF entities
    <3>2. ASSUME NEW i \in DOMAIN events' \ DOMAIN events
          PROVE  /\ events'[i].what = "destroyEndpoint" => events'[i].guid = Unknown
                 /\ events'[i].what = "createEndpoint" => events'[i].removal \notin DOMAIN events
      <4>1. CASE i = c
        BY <1>1, <1>2, <2>3, <2>5, <4>1
      <4>2. CASE i = removal /\ removal # 0
        BY <1>5, <2>10, <4>2
      <4> QED BY <2>9, <4>1, <4>2
    <3> QED BY <2>7, <2>8, <3>1, <3>2 DEF Onward, Numbered
  <2> HIDE DEF None
  <2>13. None = {} /\ c \in DOMAIN events' \ DOMAIN events
    BY <1>5, <2>5 DEF None
  <2>14. LoadedAs(step, None, c, removal)
    <3>1. events'[c] = CreateEndpointEvent(EndpointCreation(step.element, step.owner),
                                           step.element, step.guid, removal, step.owner)
      BY <2>5 DEF event, creation
    <3>2. EndpointCreation(step.element, step.owner) # 0
      BY <1>7 DEF creation
    <3> QED BY <1>2, <1>5, <2>6, <2>8, <2>9, <2>10, <2>11, <2>12, <2>13, <3>1, <3>2 DEF LoadedAs
  <2> QED BY <1>2, <2>6, <2>11, <2>14
<1> QED BY <1>4, <1>6, <1>7

\* An event list that no endpoint event is added to and no removal is told in.
Quietly ==
    /\ Kept(events, events')
    /\ \A i \in DOMAIN events : events[i].what = "destroyEndpoint" => events'[i] = events[i]
    /\ \A i \in DOMAIN events' \ DOMAIN events :
          events'[i].what \notin {"createEndpoint", "destroyEndpoint"}

\* Steps that make no endpoint.
LEMMA MakesNone ==
    ASSUME Quietly,
           \A e \in DOMAIN endpoints' : e \in DOMAIN endpoints /\ endpoints'[e] = endpoints[e],
           \A g \in DOMAIN existing' :
              /\ "used" \in DOMAIN existing'[g]
              /\ g \in DOMAIN existing => existing'[g] = existing[g]
    PROVE  Onward({}) /\ \A id : Elsewhere({}, id)
<1>1. \A id : Elsewhere({}, id)
  BY DEF Elsewhere, Quietly
<1>2. \A i \in DOMAIN events' : events'[i].what = "destroyEndpoint" =>
         i \in DOMAIN events /\ events'[i].guid = events[i].guid
  BY DEF Quietly, Kept, SameEvent
<1>3. \A i \in DOMAIN events : events[i].what = "destroyEndpoint" => events'[i].guid = events[i].guid
  BY DEF Quietly
<1>4. \A i \in DOMAIN events' \ DOMAIN events : events'[i].what # "createEndpoint"
  BY DEF Quietly
<1>5. Kept(events, events')
  BY DEF Quietly
<1> QED BY <1>1, <1>2, <1>3, <1>4, <1>5 DEF Onward

\* A participant joins.
LEMMA JoinsOnward ==
    ASSUME Numbered, NEW element, Joins(element), Quietly
    PROVE  Onward({}) /\ \A id : Elsewhere({}, id)
<1>1. /\ DOMAIN existing' = DOMAIN existing \cup {element.guid}
      /\ existing'[element.guid] = [topics |-> {}, used |-> {}]
      /\ \A g \in DOMAIN existing : existing'[g] = existing[g]
      /\ endpoints' = endpoints
  BY DEF Joins, Put
<1>2. \A g \in DOMAIN existing' :
         /\ "used" \in DOMAIN existing'[g]
         /\ g \in DOMAIN existing => existing'[g] = existing[g]
  BY <1>1 DEF Numbered
<1> QED BY <1>1, <1>2, MakesNone

\* Nobody joins or leaves.
LEMMA SameOnward ==
    ASSUME Numbered, UNCHANGED <<existing, endpoints>>, Quietly
    PROVE  Onward({}) /\ \A id : Elsewhere({}, id)
BY MakesNone DEF Numbered

\* A creation event runs.
LEMMA CreationOnward ==
    ASSUME Numbered, Typed, NEW i \in DOMAIN events, events[i].what = "create",
           Joins(events[i].element), Announced(i, events[i].element, events[i].removal)
    PROVE  Onward({}) /\ \A id : Elsewhere({}, id)
<1>1. events[i].removal # 0 => events[events[i].removal].what = "destroy"
  BY DEF Typed, IsList, LinkedIn
<1>2. \A j \in DOMAIN events : j # 0
  BY DEF Typed, IsList
<1>3. Quietly
  BY <1>1, <1>2 DEF Quietly, Announced
<1> QED BY <1>3, JoinsOnward

\* A destruction event runs: the endpoints of the participant go with it.
LEMMA DestructionOnward ==
    ASSUME Numbered, Typed, Consistent, NEW g, DestroyParticipant(g)
    PROVE  /\ Onward({}) /\ \A id : Elsewhere({}, id)
           /\ DOMAIN endpoints' = {e \in DOMAIN endpoints : Owner[e] # g}
           /\ DOMAIN existing' = DOMAIN existing \ {g}
           /\ DOMAIN members' = DOMAIN members \ {g}
           /\ events' = events
<1>1. Quietly /\ events' = events
  BY KeptSame DEF DestroyParticipant, Quietly, Typed
<1>2. CASE g \in DOMAIN members
  <2>1. /\ members' = Erase(members, g)
        /\ existing' = Erase(existing, g)
        /\ endpoints' = [e \in {e \in DOMAIN endpoints : Owner[e] # g} |-> endpoints[e]]
    BY <1>2 DEF DestroyParticipant
  <2>2. /\ DOMAIN existing' = DOMAIN existing \ {g}
        /\ \A h \in DOMAIN existing : h # g => existing'[h] = existing[h]
        /\ DOMAIN members' = DOMAIN members \ {g}
    BY <2>1, EraseFacts
  <2>3. /\ DOMAIN endpoints' = {e \in DOMAIN endpoints : Owner[e] # g}
        /\ \A e \in DOMAIN endpoints' : e \in DOMAIN endpoints /\ endpoints'[e] = endpoints[e]
    BY <2>1
  <2>4. \A h \in DOMAIN existing' :
           /\ "used" \in DOMAIN existing'[h]
           /\ h \in DOMAIN existing => existing'[h] = existing[h]
    BY <2>2 DEF Numbered
  <2> QED BY <1>1, <2>2, <2>3, <2>4, MakesNone
<1>3. CASE g \notin DOMAIN members
  <2>1. UNCHANGED <<members, existing, endpoints>> /\ g \notin DOMAIN existing
    BY <1>3 DEF DestroyParticipant, Consistent, Agreement
  <2>2. DOMAIN endpoints = {e \in DOMAIN endpoints : Owner[e] # g}
    BY <2>1 DEF Consistent, Agreement
  <2> QED BY <1>1, <1>3, <2>1, <2>2, SameOnward
<1> QED BY <1>2, <1>3

\* A removal event of an endpoint runs: that endpoint goes.
LEMMA EndpointDestructionOnward ==
    ASSUME Numbered, Typed, Consistent, NEW e, DestroyEndpoint(e)
    PROVE  /\ Onward({}) /\ \A id : Elsewhere({}, id)
           /\ DOMAIN endpoints' = DOMAIN endpoints \ {e}
           /\ UNCHANGED <<members, existing, events>>
<1>1. Quietly /\ UNCHANGED <<members, existing, events>>
  BY KeptSame DEF DestroyEndpoint, Quietly, Typed
<1>2. CASE e \in listed
  <2>1. Owner[e] \in DOMAIN entityMap /\ entityMap[Owner[e]].valid = TRUE
    BY <1>2 DEF Consistent, Agreement
  <2>2. CanDelete(e)
    BY <2>1 DEF Indexed, CanDelete
  <2>3. endpoints' = Erase(endpoints, e)
    BY <1>2, <2>2 DEF DestroyEndpoint
  <2>4. /\ DOMAIN endpoints' = DOMAIN endpoints \ {e}
        /\ \A f \in DOMAIN endpoints' : f \in DOMAIN endpoints /\ endpoints'[f] = endpoints[f]
    BY <2>3, EraseFacts
  <2> QED BY <1>1, <2>4, MakesNone DEF Numbered
<1>3. CASE e \notin listed
  <2>1. endpoints' = endpoints /\ DOMAIN endpoints = DOMAIN endpoints \ {e}
    BY <1>3 DEF DestroyEndpoint, Consistent, Agreement
  <2> QED BY <1>1, <2>1, SameOnward
<1> QED BY <1>2, <1>3

\* What an endpoint's creation event does.
RanAs(i, F) ==
    /\ Made(events[i].element, events[i].guid, F) /\ Onward(F)
    /\ Told(events, events', events[i].removal, F)
    /\ events[i].guid \in DOMAIN existing /\ events[i].element.usable => F # {}

\* A creation event of an endpoint runs: its removal is told, and no other.
LEMMA EndpointCreationOnward ==
    ASSUME Numbered, Typed, Consistent, NEW i \in DOMAIN events,
           events[i].what = "createEndpoint", Execute(i, events[i]), crashed' # TRUE
    PROVE  \E F \in SUBSET Endpoint : RanAs(i, F)
<1> DEFINE removal == events[i].removal
           element == events[i].element
           g == events[i].guid
           owner == events[i].owner
<1>1. IsList(events) /\ events[i] \in Event
  BY DEF Typed, IsList
<1>2. element \in EndpointElement
  BY <1>1, EventKinds DEF EndpointCreations
<1>3. removal # 0 => removal \in DOMAIN events /\ events[removal].what = "destroyEndpoint"
  BY <1>1 DEF IsList, LinkedIn
<1>4. CreateEndpoint(element, g, owner, events, removal)
  BY DEF Execute
<1> HIDE DEF removal, element, g, owner
<1>5. PICK F \in SUBSET Endpoint :
         /\ Made(element, g, F)
         /\ g \in DOMAIN existing /\ element.usable => F # {}
         /\ F = {} => events' = events
         /\ \A f \in F : events' = EndpointTold(events, removal, f)
  BY <1>2, <1>4, MakesEndpoint
<1>6. Told(events, events', removal, F)
  <2>1. Telling(events, events', removal, F)
    BY <1>3, <1>5 DEF Telling
  <2> QED BY <1>1, <2>1, TellsEndpoint
<1>7. Onward(F)
  <2>1. Kept(events, events') /\ DOMAIN events' = DOMAIN events
    BY <1>6 DEF Told
  <2>2. ASSUME NEW j \in DOMAIN events
        PROVE  \/ events'[j].guid = events[j].guid
               \/ events'[j].guid \in F /\ events[j].guid = Unknown
    <3>1. j # 0
      BY <1>1 DEF IsList
    <3> QED BY <1>6, <3>1 DEF Told
  <2> QED BY <1>5, <2>1, <2>2 DEF Onward, Made
<1>8. RanAs(i, F)
  BY <1>5, <1>6, <1>7 DEF RanAs, removal, element, g
<1> QED BY <1>8

-----------------------------------------------------------------------------
(* Removal events know GUIDs of participants that have come only.          *)

\* A planned participant that is there is not to come.
LEMMA NotComing ==
    ASSUME Typed, NEW element, Planned(element), element.guid \in DOMAIN members
    PROVE  ~Coming(element.guid)
<1>1. ~Awaited(element.guid)
  BY DEF Planned, Untouched
<1>2. PICK c \in Nat, d \in Nat : OnPlan(element, c, d)
  BY <1>1 DEF Planned
<1>3. c = 0 \/ c \in done
  BY <1>2 DEF OnPlan
<1>4. ASSUME NEW i \in Pending, events[i].what = "create", events[i].element.guid = element.guid
      PROVE  FALSE
  <2>1. i = c /\ i # 0 /\ i \notin done
    BY <1>2, <1>4 DEF OnPlan, Pending, Typed, IsList
  <2> QED BY <1>3, <2>1
<1> QED BY <1>1, <1>4 DEF Coming

\* Nobody is to come that was not to come before.
LEMMA ComingKept ==
    ASSUME NEW g, Kept(events, events'), done \subseteq done', Awaited(g)' => Awaited(g),
           \A i \in DOMAIN events' \ DOMAIN events :
              events'[i].what = "create" /\ events'[i].element.guid = g => Awaited(g)
    PROVE  Coming(g)' => Coming(g)
<1> SUFFICES ASSUME NEW i \in Pending', events'[i].what = "create", events'[i].element.guid = g
             PROVE  Coming(g)
  BY DEF Coming
<1>1. CASE i \in DOMAIN events
  <2>1. events[i].what = "create" /\ events[i].element.guid = g /\ i \in Pending
    BY <1>1 DEF Kept, SameEvent, Pending
  <2> QED BY <2>1 DEF Coming
<1>2. CASE i \notin DOMAIN events
  BY <1>2 DEF Pending, Coming
<1> QED BY <1>1, <1>2

\* So removal events know used GUIDs only.
LEMMA AllToldKept ==
    ASSUME Typed, Consistent, AllTold, config' = config, NEW F, Onward(F),
           \A element \in Elements : WellPlanned(element) => Planned(element),
           \A g : Coming(g)' => Coming(g),
           \A g \in DOMAIN existing' : g \in DOMAIN existing \/ Coming(g)
    PROVE  AllTold'
<1>1. ASSUME NEW element \in Elements', WellPlanned(element)' PROVE ToldUsed(element.guid)'
  <2>1. element \in Elements /\ WellPlanned(element)
    BY <1>1 DEF Elements, WellPlanned
  <2>2. ToldUsed(element.guid) /\ Planned(element)
    BY <2>1 DEF AllTold
  <2>3. element.guid \in DOMAIN existing => ~Coming(element.guid)
    BY <2>2, NotComing DEF Consistent, Agreement
  <2> QED BY <2>2, <2>3, ToldKeptUsed
<1> QED BY <1>1 DEF AllTold

-----------------------------------------------------------------------------
(* The constructor.                                                        *)

\* A step that loads something else, and leaves first to load.
LoadsOther(element, endpoint, F, first) ==
    /\ Onward(F) /\ Elsewhere(F, endpoint.id)
    /\ \A i \in DOMAIN events : events'[i] = events[i]
    /\ \A e \in DOMAIN endpoints : e \in DOMAIN endpoints'
    /\ element.guid \in DOMAIN members' <=> element.guid \in DOMAIN members
    /\ element.guid \in DOMAIN existing' => element.guid \in DOMAIN existing
    /\ Awaited(element.guid)' <=> Awaited(element.guid)
    /\ ~IsStepFor(1, endpoint.id)
    /\ \A j \in DOMAIN first : first[j].element.id # endpoint.id

\* The steps for an endpoint stay.
LEMMA StepsForKept ==
    ASSUME Typed, NEW first \in Seq(EndpointsToLoad), todo' \in Seq(Step),
           Moved(todo, first, todo'), NEW id, ~IsStepFor(1, id),
           \A j \in DOMAIN first : first[j].element.id # id
    PROVE  /\ \A i \in DOMAIN todo' : IsStepFor(i, id)' =>
                 \E k \in DOMAIN todo : /\ IsStepFor(k, id) /\ todo'[i] = todo[k]
                                        /\ i = k + Len(first) - 1
           /\ \A k \in DOMAIN todo : IsStepFor(k, id) => \E i \in DOMAIN todo' : IsStepFor(i, id)'
<1> DEFINE n == Len(first)
<1>1. n \in Nat /\ \A i \in DOMAIN todo' : i \in Int
  OBVIOUS
<1>2. /\ \A i \in DOMAIN todo' :
            \/ i \in DOMAIN first /\ todo'[i] = first[i]
            \/ i - n + 1 \in DOMAIN todo \ {1} /\ todo'[i] = todo[i - n + 1]
      /\ \A i \in DOMAIN todo \ {1} : i + n - 1 \in DOMAIN todo' /\ todo'[i + n - 1] = todo[i]
  BY DEF Moved
<1> HIDE DEF n
<1>3. ASSUME NEW i \in DOMAIN todo', IsStepFor(i, id)'
      PROVE  \E k \in DOMAIN todo : IsStepFor(k, id) /\ todo'[i] = todo[k] /\ i = k + n - 1
  <2>1. i - n + 1 \in DOMAIN todo \ {1} /\ todo'[i] = todo[i - n + 1]
    BY <1>2, <1>3 DEF IsStepFor
  <2>2. IsStepFor(i - n + 1, id)
    BY <1>3, <2>1 DEF IsStepFor
  <2>3. i = (i - n + 1) + n - 1
    BY <1>1
  <2> QED BY <2>1, <2>2, <2>3
<1>4. ASSUME NEW k \in DOMAIN todo, IsStepFor(k, id)
      PROVE  \E i \in DOMAIN todo' : IsStepFor(i, id)'
  <2>1. k \in DOMAIN todo \ {1}
    BY <1>4
  <2>2. k + n - 1 \in DOMAIN todo' /\ todo'[k + n - 1] = todo[k]
    BY <1>2, <2>1
  <2> QED BY <1>4, <2>2 DEF IsStepFor
<1> QED BY <1>3, <1>4 DEF n

\* An endpoint stays planned when something else is loaded.
LEMMA PlannedElsewhere ==
    ASSUME Typed, done = {}, done' = {}, NEW first \in Seq(EndpointsToLoad), todo' \in Seq(Step),
           Moved(todo, first, todo'), NEW element, NEW endpoint, NEW F,
           LoadsOther(element, endpoint, F, first), EndpointPlanned(element, endpoint)
    PROVE  EndpointPlanned(element, endpoint)'
<1> DEFINE g == element.guid
           id == endpoint.id
<1>1. /\ \A i \in DOMAIN todo' : IsStepFor(i, id)' =>
            \E k \in DOMAIN todo : IsStepFor(k, id) /\ todo'[i] = todo[k] /\ i = k + Len(first) - 1
      /\ \A k \in DOMAIN todo : IsStepFor(k, id) => \E i \in DOMAIN todo' : IsStepFor(i, id)'
  <2>1. ~IsStepFor(1, id) /\ \A j \in DOMAIN first : first[j].element.id # id
    BY DEF LoadsOther
  <2> QED BY <2>1, StepsForKept
<1>2. /\ Awaited(g)' <=> Awaited(g)
      /\ \A i \in DOMAIN events : i \in DOMAIN events' /\ events'[i] = events[i]
  BY DEF LoadsOther, Onward, Kept
<1>3. StepsArePlanned(element, endpoint)'
  <2>1. ASSUME NEW i \in DOMAIN todo', IsStepFor(i, id)'
        PROVE  ~Awaited(g)' /\ StepFor(events, todo[i], element, endpoint)'
    <3>1. PICK k \in DOMAIN todo : IsStepFor(k, id) /\ todo'[i] = todo[k]
      BY <1>1, <2>1
    <3>2. ~Awaited(g) /\ StepFor(events, todo[k], element, endpoint)
      BY <3>1 DEF EndpointPlanned, StepsArePlanned
    <3> QED BY <1>2, <3>1, <3>2 DEF StepFor
  <2>2. ASSUME NEW i \in DOMAIN todo', NEW j \in DOMAIN todo', IsStepFor(i, id)', IsStepFor(j, id)'
        PROVE  i = j
    <3>1. PICK k \in DOMAIN todo : IsStepFor(k, id) /\ i = k + Len(first) - 1
      BY <1>1, <2>2
    <3>2. PICK l \in DOMAIN todo : IsStepFor(l, id) /\ j = l + Len(first) - 1
      BY <1>1, <2>2
    <3>3. k = l
      BY <3>1, <3>2 DEF EndpointPlanned, StepsArePlanned
    <3> QED BY <3>1, <3>2, <3>3
  <2> QED BY <2>1, <2>2 DEF StepsArePlanned
<1>4. EndpointAwaited(element, endpoint)' <=> EndpointAwaited(element, endpoint)
  BY <1>1, <1>2 DEF EndpointAwaited
<1>5. CASE EndpointAwaited(element, endpoint)
  <2>1. Unmade(id)
    BY <1>5 DEF EndpointPlanned
  <2>2. Unmade(id)'
    BY <2>1, UnmadeKept DEF LoadsOther
  <2> QED BY <1>3, <1>4, <1>5, <2>2 DEF EndpointPlanned
<1>6. CASE ~EndpointAwaited(element, endpoint)
  <2>1. PICK c \in Nat, d \in Nat : EndpointOnPlan(element, endpoint, c, d)
    BY <1>6 DEF EndpointPlanned
  <2>2. d # 0 => d \in DOMAIN events /\ events[d].what = "destroyEndpoint"
    BY <2>1 DEF EndpointOnPlan, EndpointEvents
  <2>3. StaysAs(g, id, d)
    <3> SUFFICES ASSUME NEW e \in Endpoint, MadeAs(e, g, id, d)
                 PROVE  e \in DOMAIN endpoints' <=> g \in DOMAIN members' /\ (d = 0 \/ d \notin done')
      BY DEF StaysAs
    <3>1. e \notin F
      BY DEF MadeAs, LoadsOther, Onward
    <3>2. e \in DOMAIN endpoints' <=> e \in DOMAIN endpoints
      BY <3>1 DEF LoadsOther, Onward
    <3> QED BY <3>2 DEF MadeAs, LoadsOther
  <2>4. /\ Onward(F) /\ Elsewhere(F, endpoint.id)
        /\ element.guid \in DOMAIN existing' => element.guid \in DOMAIN existing
    BY DEF LoadsOther
  <2>5. EndpointOnPlan(element, endpoint, c, d)'
    BY <1>2, <2>1, <2>2, <2>3, <2>4, EndpointOnPlanKept
  <2> QED BY <1>3, <1>4, <1>6, <2>5 DEF EndpointPlanned
<1> QED BY <1>5, <1>6

\* The step of a participant leaves one step for each of its endpoints.
LEMMA PlannedWithParticipant ==
    ASSUME Typed, UniqueIds, NEW element \in Elements, KnownBeforehand(element),
           NEW endpoint \in EndpointsOf(element), EndpointPlanned(element, endpoint),
           Awaited(element.guid), ~Awaited(element.guid)',
           NEW first \in Seq(EndpointsToLoad), todo # <<>>, todo' \in Seq(Step),
           Moved(todo, first, todo'), NEW c \in Nat, NEW d,
           Arranged(events, events', element, c, d), Followed(element, c, first),
           Onward({}), Elsewhere({}, endpoint.id)
    PROVE  EndpointPlanned(element, endpoint)'
<1> DEFINE g == element.guid
           id == endpoint.id
           n == Len(first)
<1>1. Unmade(id) /\ \A i \in DOMAIN todo : ~IsStepFor(i, id)
  BY DEF EndpointPlanned, EndpointAwaited, StepsArePlanned
<1>2. /\ n \in Nat /\ DOMAIN first = 1 .. n
      /\ Len(todo) \in Nat \ {0} /\ DOMAIN todo = 1 .. Len(todo)
      /\ DOMAIN todo' = 1 .. Len(todo') /\ Len(todo') = n + Len(todo) - 1
      /\ \A i \in DOMAIN todo' : i \in Nat
  BY DEF Typed, Moved
<1>3. \A i \in DOMAIN todo' :
         \/ i \in DOMAIN first /\ todo'[i] = first[i]
         \/ i - n + 1 \in DOMAIN todo \ {1} /\ todo'[i] = todo[i - n + 1]
  BY DEF Moved
<1> HIDE DEF n
<1>4. PICK k \in DOMAIN element.endpoints : endpoint = element.endpoints[k]
  BY DEF EndpointsOf
<1>5. /\ DOMAIN first = DOMAIN element.endpoints
      /\ \A i \in DOMAIN first :
            /\ first[i].what = "endpoint" /\ first[i].element = element.endpoints[i]
            /\ first[i].guid = IF element.kind # "server" /\ c = 0 THEN g ELSE ConfiguredGuid(element)
            /\ first[i].owner = IF element.kind = "server" THEN 0 ELSE c
  BY DEF Followed, EndpointSteps
<1>6. \A i \in DOMAIN first : i \in DOMAIN todo' /\ todo'[i] = first[i]
  <2> SUFFICES ASSUME NEW i \in DOMAIN first PROVE i \in DOMAIN todo' /\ todo'[i] = first[i]
    OBVIOUS
  <2>1. i \in DOMAIN todo' /\ i \in 1 .. n
    BY <1>2
  <2>2. i - n + 1 \notin DOMAIN todo \ {1}
    BY <1>2, <2>1
  <2> QED BY <1>3, <2>1, <2>2
<1>7. ASSUME NEW i \in DOMAIN todo', IsStepFor(i, id)' PROVE i = k /\ todo'[i] = first[k]
  <2>1. i \in DOMAIN first /\ todo'[i] = first[i]
    <3>1. CASE i - n + 1 \in DOMAIN todo \ {1} /\ todo'[i] = todo[i - n + 1]
      <4>1. IsStepFor(i - n + 1, id)
        BY <1>7, <3>1 DEF IsStepFor
      <4> QED BY <1>1, <3>1, <4>1
    <3> QED BY <1>3, <3>1
  <2>2. element.endpoints[i].id = id /\ i \in DOMAIN element.endpoints
    BY <1>5, <1>7, <2>1 DEF IsStepFor
  <2>3. i = k
    BY <1>4, <2>2, SameId
  <2> QED BY <2>1, <2>3
<1>8. StepFor(events', first[k], element, endpoint)
  <2>1. k \in DOMAIN first /\ first[k].element = endpoint
    BY <1>4, <1>5
  <2>2. c = 0 <=> element.creation = 0
    BY DEF Arranged
  <2>3. first[k].guid = g
    BY <1>5, <2>1, <2>2 DEF KnownBeforehand, ConfiguredGuid
  <2>4. c # 0 => c \in DOMAIN events' /\ events'[c].time = Second * element.creation
    BY DEF Arranged, CreateParticipantEvent
  <2> QED BY <1>5, <2>1, <2>2, <2>3, <2>4 DEF StepFor
<1>9. StepsArePlanned(element, endpoint)'
  <2>1. ASSUME NEW i \in DOMAIN todo', IsStepFor(i, id)'
        PROVE  ~Awaited(g)' /\ StepFor(events, todo[i], element, endpoint)'
    BY <1>7, <1>8, <2>1 DEF StepFor
  <2>2. \A i, j \in DOMAIN todo' : IsStepFor(i, id)' /\ IsStepFor(j, id)' => i = j
    BY <1>7
  <2> QED BY <2>1, <2>2 DEF StepsArePlanned
<1>10. EndpointAwaited(element, endpoint)'
  <2>1. k \in DOMAIN todo' /\ todo'[k].what = "endpoint" /\ todo'[k].element = endpoint
    BY <1>4, <1>5, <1>6
  <2> QED BY <2>1 DEF EndpointAwaited, IsStepFor
<1>11. Unmade(id)'
  BY <1>1, UnmadeKept
<1> QED BY <1>9, <1>10, <1>11 DEF EndpointPlanned

\* When an endpoint that is loaded will be created.
LEMMA CreationIsStart ==
    ASSUME config \in Configuration, NEW element \in Elements,
           NEW endpoint \in EndpointsOf(element), PlannedEndpoint(element, endpoint),
           NEW step, StepFor(events, step, element, endpoint)
    PROVE  EndpointCreation(step.element, step.owner) = StartTime(element, endpoint)
<1>1. step.element = endpoint
  BY DEF StepFor
<1>2. CASE endpoint.creation # {}
  BY <1>1, <1>2 DEF EndpointCreation, StartTime
<1>3. CASE endpoint.creation = {} /\ element.creation = 0
  <2>1. step.owner = 0
    BY <1>3 DEF StepFor
  <2> QED BY <1>1, <1>3, <2>1 DEF EndpointCreation, StartTime
<1>4. CASE endpoint.creation = {} /\ element.creation # 0
  <2>1. element.kind # "server"
    BY <1>4 DEF PlannedEndpoint
  <2>2. step.owner # 0 /\ events[step.owner].time = Second * element.creation
    BY <1>4, <2>1 DEF StepFor
  <2> QED BY <1>1, <1>4, <2>2 DEF EndpointCreation, StartTime
<1> QED BY <1>2, <1>3, <1>4

\* The events of the endpoint that is loaded.
LEMMA LoadedEvents ==
    ASSUME Typed, NEW element \in Elements, NEW endpoint \in EndpointsOf(element),
           PlannedEndpoint(element, endpoint), Unmade(endpoint.id),
           NEW step, StepFor(events, step, element, endpoint), NEW F, NEW c, NEW d,
           LoadedAs(step, F, c, d)
    PROVE  EndpointEvents(element, endpoint, c, d)'
<1> DEFINE start == StartTime(element, endpoint)
<1>1. EndpointCreation(step.element, step.owner) = start /\ step.element = endpoint
      /\ step.guid = element.guid
  BY CreationIsStart DEF StepFor, Typed
<1> HIDE DEF start
<1>2. (c = 0 <=> start = 0) /\ (d = 0 <=> endpoint.removal = 0)
  BY <1>1 DEF LoadedAs
<1>3. c # 0 => /\ c \in DOMAIN events' /\ events'[c].what = "createEndpoint"
               /\ events'[c].element = endpoint /\ events'[c].guid = element.guid
               /\ events'[c].removal = d /\ events'[c].time = start
  BY <1>1 DEF LoadedAs, CreateEndpointEvent
<1>4. d # 0 => /\ d \in DOMAIN events' \ DOMAIN events /\ events'[d].what = "destroyEndpoint"
               /\ events'[d].time = Second * endpoint.removal
  BY <1>1 DEF LoadedAs
<1>5. ASSUME NEW i \in DOMAIN events', events'[i].what = "createEndpoint"
      PROVE  /\ events'[i].element.id = endpoint.id => i = c
             /\ d # 0 /\ events'[i].removal = d => i = c
  <2>1. CASE i \in DOMAIN events
    <3>1. events'[i] = events[i]
      BY <2>1 DEF LoadedAs
    <3>2. events[i].element.id # endpoint.id
      BY <1>5, <2>1, <3>1 DEF Unmade
    <3>3. events[i].removal # 0 => events[i].removal \in DOMAIN events
      BY <1>5, <2>1, <3>1 DEF Typed, IsList, LinkedIn
    <3> QED BY <1>4, <3>1, <3>2, <3>3
  <2>2. CASE i \notin DOMAIN events
    <3>1. i = c \/ i = d
      BY <2>2 DEF LoadedAs
    <3>2. i # 0
      BY DEF LoadedAs, Onward, Kept, IsList
    <3> QED BY <1>4, <1>5, <3>1, <3>2
  <2> QED BY <2>1, <2>2
<1>6. (StartTime(element, endpoint) = start)'
  BY DEF start, StartTime
<1> QED BY <1>2, <1>3, <1>4, <1>5, <1>6 DEF EndpointEvents

\* The step for an endpoint leaves it on plan.
LEMMA PlannedWhenLoaded ==
    ASSUME Typed, Consistent, done = {}, done' = {}, NEW element \in Elements, WellPlanned(element),
           Planned(element), ToldUsed(element.guid),
           NEW endpoint \in EndpointsOf(element), PlannedEndpoint(element, endpoint),
           EndpointPlanned(element, endpoint), todo # <<>>, IsStepFor(1, endpoint.id),
           todo' \in Seq(Step), Moved(todo, <<>>, todo'),
           Awaited(element.guid)' => Awaited(element.guid), NEW F, NEW c \in Nat, NEW d \in Nat,
           LoadedAs(todo[1], F, c, d)
    PROVE  EndpointPlanned(element, endpoint)'
<1> DEFINE g == element.guid
           id == endpoint.id
           step == todo[1]
<1>1. 1 \in DOMAIN todo
  BY DEF Typed
<1>2. /\ ~Awaited(g) /\ StepFor(events, step, element, endpoint)
      /\ \A i \in DOMAIN todo : IsStepFor(i, id) => i = 1
      /\ Unmade(id)
  BY <1>1 DEF EndpointPlanned, StepsArePlanned, EndpointAwaited
<1>3. ~Awaited(g)' /\ \A i \in DOMAIN todo' : ~IsStepFor(i, id)'
  <2>1. ASSUME NEW i \in DOMAIN todo', IsStepFor(i, id)' PROVE FALSE
    <3>1. PICK k \in DOMAIN todo \ {1} : todo'[i] = todo[k]
      BY DEF Moved
    <3>2. IsStepFor(k, id)
      BY <2>1, <3>1 DEF IsStepFor
    <3> QED BY <1>2, <3>1, <3>2
  <2> QED BY <1>2, <2>1
<1>4. EndpointEvents(element, endpoint, c, d)'
  BY <1>2, LoadedEvents
<1>5. /\ Made(endpoint, g, F) /\ step.element = endpoint /\ step.guid = g
      /\ 0 \notin DOMAIN events'
  BY <1>2 DEF LoadedAs, StepFor, Onward, Kept, IsList
<1>6. CASE c # 0
  <2>1. F = {} /\ (d # 0 => events'[d].guid = Unknown)
    BY <1>6 DEF LoadedAs
  <2>2. \A e \in DOMAIN endpoints' : endpoints'[e] # id
    BY <1>2, <1>5, <2>1 DEF Made, Unmade
  <2>3. EndpointOnPlan(element, endpoint, c, d)'
    BY <1>4, <1>6, <2>1, <2>2 DEF EndpointOnPlan, NotMadeYet
  <2> QED BY <1>3, <2>3 DEF EndpointPlanned, StepsArePlanned, EndpointAwaited
<1>7. CASE c = 0
  <2>1. g \in DOMAIN members /\ g \in DOMAIN existing
    <3>1. element.creation = 0
      <4>1. StartTime(element, endpoint) = 0
        BY <1>4, <1>7 DEF EndpointEvents, StartTime
      <4>2. element.creation # 0 => Second * element.creation < StartTime(element, endpoint)
        BY StartTimes DEF Typed
      <4>3. Second * element.creation \in Nat
        <5>1. element.creation \in Nat
          BY ElementTyped DEF Typed
        <5> QED BY <5>1, SecondAssumption
      <4> QED BY <4>1, <4>2, <4>3
    <3>2. PICK C \in Nat, D \in Nat : OnPlan(element, C, D)
      BY <1>2 DEF Planned
    <3>3. g \in DOMAIN members
      BY <3>1, <3>2 DEF OnPlan
    <3> QED BY <3>3 DEF Consistent, Agreement
  <2>2. PICK e \in F : F = {e}
    <3>1. F # {}
      BY <1>5, <1>7, <2>1 DEF LoadedAs, PlannedEndpoint
    <3> QED BY <1>5, <3>1 DEF Made
  <2>3. /\ e \in Endpoint /\ Owner[e] = g /\ endpoints'[e] = id /\ e \in DOMAIN endpoints'
        /\ e \notin existing[g].used /\ e \in existing'[g].used
    BY <1>5, <2>2 DEF Made
  <2>4. d # 0 => events'[d].guid = e
    BY <2>2 DEF LoadedAs
  <2>5. ASSUME NEW i \in DOMAIN events', events'[i].what = "destroyEndpoint", events'[i].guid = e
        PROVE  i = d
    <3>1. CASE i \in DOMAIN events
      <4>1. events[i].what = "destroyEndpoint" /\ events[i].guid = e /\ e # Unknown
        BY <2>3, <2>5, <3>1, UnknownAssumption DEF LoadedAs
      <4> QED BY <2>1, <2>3, <3>1, <4>1 DEF ToldUsed
    <3>2. CASE i \notin DOMAIN events
      BY <1>5, <1>7, <3>2 DEF LoadedAs
    <3> QED BY <3>1, <3>2
  <2>6. ASSUME NEW f \in DOMAIN endpoints' PROVE endpoints'[f] = id <=> f = e
    BY <1>2, <1>5, <2>2, <2>3 DEF Made, Unmade
  <2>7. g \in DOMAIN members'
    BY <1>5, <2>1 DEF Made
  <2>8. MadeAs(e, g, id, d)'
    BY <2>3, <2>4, <2>5, <2>6, <2>7 DEF MadeAs
  <2>9. EndpointOnPlan(element, endpoint, c, d)'
    BY <1>4, <1>7, <2>3, <2>8 DEF EndpointOnPlan
  <2> QED BY <1>3, <2>9 DEF EndpointPlanned, StepsArePlanned, EndpointAwaited
<1> QED BY <1>6, <1>7

\* All that holds when a step is loaded.
Loading ==
    /\ Typed /\ Consistent /\ StepsAreElements /\ UniqueIds /\ Numbered /\ AllTold /\ AllPlanned
    /\ \A element \in Elements : WellPlanned(element) => Planned(element)
    /\ done = {} /\ todo # <<>>

Known(element, endpoint) ==
    /\ element \in Elements /\ WellPlanned(element) /\ KnownBeforehand(element)
    /\ endpoint \in EndpointsOf(element) /\ PlannedEndpoint(element, endpoint)

\* What a step has to do to keep everything.
GoesOn(F) ==
    /\ Onward(F)
    /\ \A g : Coming(g)' => Coming(g)
    /\ \A g \in DOMAIN existing' : g \in DOMAIN existing \/ Coming(g)
    /\ \A element, endpoint : Known(element, endpoint) => EndpointPlanned(element, endpoint)'

\* And everything is kept.
LEMMA AllKept ==
    ASSUME Typed, Consistent, Consistent', Numbered, AllTold, NEW F, GoesOn(F), config' = config,
           \A element \in Elements : WellPlanned(element) => Planned(element)
    PROVE  Numbered' /\ AllTold' /\ AllPlanned'
<1>1. Onward(F)
  BY DEF GoesOn
<1>2. Numbered'
  BY <1>1, NumberedKept
<1>3. AllTold'
  BY <1>1, AllToldKept DEF GoesOn
<1>4. ASSUME NEW element \in Elements', WellPlanned(element)', KnownBeforehand(element)',
             NEW endpoint \in EndpointsOf(element)', PlannedEndpoint(element, endpoint)'
      PROVE  EndpointPlanned(element, endpoint)'
  <2>1. Known(element, endpoint)
    BY <1>4 DEF Known, Elements, WellPlanned, KnownBeforehand, EndpointsOf, PlannedEndpoint
  <2> QED BY <2>1 DEF GoesOn
<1> QED BY <1>2, <1>3, <1>4 DEF AllPlanned

\* What is awaited when the step of something else goes.
LEMMA AwaitedElse ==
    ASSUME Typed, StepsAreElements, config' = config, todo # <<>>, todo' \in Seq(Step),
           NEW first \in Seq(EndpointsToLoad), Moved(todo, first, todo')
    PROVE  \A g : /\ Awaited(g)' => Awaited(g)
                  /\ ~IsStepOf(1, g) => (Awaited(g)' <=> Awaited(g))
<1>1. \A g : Awaited(g)' <=> \E i \in DOMAIN todo \ {1} : IsStepOf(i, g)
  BY StepsRest
<1> QED BY <1>1 DEF Awaited

\* An element that is not accepted is not a planned one's.
LEMMA PassedOverOther ==
    ASSUME Loading, todo[1].what = "participant", PassedOver(todo[1].element),
           NEW element \in Elements, WellPlanned(element)
    PROVE  element.guid # todo[1].element.guid
<1> DEFINE other == todo[1].element
<1>1. /\ ~Usable(other) \/ (other.kind = "server" /\ SharesPrefix(other))
      /\ other \in Elements /\ 1 \in DOMAIN todo
  BY HeadStep DEF PassedOver, Loading, StepsAreElements
<1> SUFFICES ASSUME element.guid = other.guid PROVE FALSE
  OBVIOUS
<1>2. other = element
  BY <1>1, SameGuid
<1>3. SharesPrefix(element)
  BY <1>1, <1>2 DEF WellPlanned
<1>4. Awaited(element.guid)
  BY <1>1, <1>2 DEF Awaited, IsStepOf
<1>5. element.guid \notin DOMAIN members
  BY <1>4 DEF Loading, Planned, Untouched
<1>6. Unknown \notin DOMAIN members
  BY UnknownAssumption DEF Loading, Typed, Consistent, Agreement
<1> QED BY <1>3, <1>5, <1>6 DEF SharesPrefix, ConfiguredGuid

\* Nothing is kept of a participant that is passed over.
LEMMA PassedOverGoesOn ==
    ASSUME Loading, todo' \in Seq(Step), done' = {}, config' = config,
           todo[1].what = "participant", PassedOver(todo[1].element)
    PROVE  GoesOn({})
<1> DEFINE none == <<>>
<1>1. /\ Typed /\ Consistent /\ StepsAreElements /\ todo # <<>> /\ done = {} /\ Numbered
      /\ IsList(events)
  BY DEF Loading, Typed
<1>2. todo' = Tail(todo) /\ UNCHANGED <<members, existing, endpoints, events>>
  BY DEF PassedOver, Skip, entities
<1>3. none \in Seq(EndpointsToLoad) /\ Moved(todo, none, todo')
  BY <1>1, <1>2, TodoTail
<1>4. \A j \in DOMAIN none : FALSE
  OBVIOUS
<1> HIDE DEF none
<1>5. Quietly
  BY <1>1, <1>2, KeptSame DEF Quietly
<1>6. Onward({}) /\ \A id : Elsewhere({}, id)
  BY <1>1, <1>2, <1>5, SameOnward
<1>7. \A g : /\ Awaited(g)' => Awaited(g)
             /\ ~IsStepOf(1, g) => (Awaited(g)' <=> Awaited(g))
  BY <1>1, <1>3, AwaitedElse
<1>8. \A g : Coming(g)' => Coming(g)
  BY <1>1, <1>2, <1>5, <1>7, ComingKept DEF Quietly
<1>9. ASSUME NEW element, NEW endpoint, Known(element, endpoint)
      PROVE  EndpointPlanned(element, endpoint)'
  <2>1. element.guid # todo[1].element.guid
    BY <1>9, PassedOverOther DEF Known
  <2>2. LoadsOther(element, endpoint, {}, none)
    BY <1>2, <1>4, <1>6, <1>7, <2>1 DEF LoadsOther, IsStepOf, IsStepFor
  <2>3. EndpointPlanned(element, endpoint)
    BY <1>9 DEF Known, Loading, AllPlanned
  <2> QED BY <1>1, <1>3, <2>2, <2>3, PlannedElsewhere
<1> QED BY <1>2, <1>6, <1>8, <1>9 DEF GoesOn

\* A participant that is accepted.
LEMMA AcceptedGoesOn ==
    ASSUME Loading, Typed', done' = {}, config' = config, todo[1].what = "participant",
           Accepted(todo[1].element)
    PROVE  GoesOn({})
<1> DEFINE other == todo[1].element
<1>1. /\ Typed /\ Consistent /\ StepsAreElements /\ todo # <<>> /\ done = {} /\ Numbered
      /\ IsList(events) /\ todo' \in Seq(Step) /\ UniqueIds /\ config \in Configuration
  BY DEF Loading, Typed
<1>2. 1 \in DOMAIN todo /\ other \in Elements /\ IsStepOf(1, other.guid)
  BY <1>1, HeadStep DEF StepsAreElements, IsStepOf
<1>3. PICK c \in Nat, d \in Nat, first \in Seq(EndpointsToLoad) :
         /\ Arranged(events, events', other, c, d)
         /\ Followed(other, c, first)
         /\ todo' = first \o Tail(todo)
  BY DEF Accepted
<1>4. Moved(todo, first, todo')
  BY <1>1, <1>3, TodoRest
<1>5. \A i \in DOMAIN events' \ DOMAIN events :
         /\ events'[i].what \in {"create", "destroy"}
         /\ events'[i].what = "create" => events'[i].element = other
  <2> SUFFICES ASSUME NEW i \in DOMAIN events' \ DOMAIN events
               PROVE  /\ events'[i].what \in {"create", "destroy"}
                      /\ events'[i].what = "create" => events'[i].element = other
    OBVIOUS
  <2>1. i # 0
    BY <1>3 DEF Arranged, Kept, IsList
  <2>2. CASE i = c
    BY <1>3, <2>1, <2>2 DEF Arranged, CreateParticipantEvent
  <2>3. CASE i = d
    BY <1>3, <2>1, <2>3 DEF Arranged, DestroyParticipantEvent
  <2> QED BY <1>3, <2>2, <2>3 DEF Arranged
<1>6. Quietly /\ Kept(events, events') /\ \A i \in DOMAIN events : events'[i] = events[i]
  BY <1>3, <1>5 DEF Quietly, Arranged
<1>7. /\ Onward({}) /\ \A id : Elsewhere({}, id)
      /\ endpoints' = endpoints
      /\ \A g : g # other.guid => /\ g \in DOMAIN members' <=> g \in DOMAIN members
                                  /\ g \in DOMAIN existing' <=> g \in DOMAIN existing
  <2>1. CASE Joins(other)
    <3>1. /\ endpoints' = endpoints /\ DOMAIN members' = DOMAIN members \cup {other.guid}
          /\ DOMAIN existing' = DOMAIN existing \cup {other.guid}
      BY <2>1 DEF Joins, Put
    <3> QED BY <1>1, <1>6, <2>1, <3>1, JoinsOnward
  <2>2. CASE UNCHANGED entities
    <3>1. UNCHANGED <<members, existing, endpoints>>
      BY <2>2 DEF entities
    <3> QED BY <1>1, <1>6, <3>1, SameOnward
  <2> QED BY <2>1, <2>2 DEF Accepted, Arrives
<1>8. \A g : /\ Awaited(g)' => Awaited(g)
             /\ ~IsStepOf(1, g) => (Awaited(g)' <=> Awaited(g))
  BY <1>1, <1>4, AwaitedElse
<1>9. Awaited(other.guid)
  BY <1>2 DEF Awaited
<1>10. \A g : Coming(g)' => Coming(g)
  <2> SUFFICES ASSUME NEW g PROVE Coming(g)' => Coming(g)
    OBVIOUS
  <2>1. \A i \in DOMAIN events' \ DOMAIN events :
           events'[i].what = "create" /\ events'[i].element.guid = g => Awaited(g)
    BY <1>5, <1>9
  <2> QED BY <1>1, <1>6, <1>8, <2>1, ComingKept
<1>11. \A g \in DOMAIN existing' : g \in DOMAIN existing \/ Coming(g)
  BY <1>7, <1>9 DEF Coming
<1>12. ASSUME NEW element, NEW endpoint, Known(element, endpoint)
       PROVE  EndpointPlanned(element, endpoint)'
  <2> DEFINE g == element.guid
  <2>1. /\ element \in Elements /\ WellPlanned(element) /\ KnownBeforehand(element)
        /\ endpoint \in EndpointsOf(element)
        /\ EndpointPlanned(element, endpoint)
    BY <1>12 DEF Known, Loading, AllPlanned
  <2>2. CASE g = other.guid
    <3>1. other = element
      BY <1>2, <2>1, <2>2, SameGuid
    <3>2. ~Awaited(g)'
      <4>1. \A i \in DOMAIN todo : IsStepOf(i, g) => i = 1
        BY <1>1, <1>2, <2>1, <2>2 DEF StepsAreElements
      <4>2. Awaited(g)' <=> \E i \in DOMAIN todo \ {1} : IsStepOf(i, g)
        BY <1>1, <1>4, StepsRest
      <4> QED BY <4>1, <4>2
    <3>3. Arranged(events, events', element, c, d) /\ Followed(element, c, first)
      BY <1>3, <3>1
    <3> QED BY <1>1, <1>4, <1>7, <1>9, <2>1, <2>2, <3>2, <3>3, PlannedWithParticipant
  <2>3. CASE g # other.guid
    <3>1. \A j \in DOMAIN first : first[j].element.id # endpoint.id
      <4> SUFFICES ASSUME NEW j \in DOMAIN first, first[j].element.id = endpoint.id PROVE FALSE
        OBVIOUS
      <4>1. j \in DOMAIN other.endpoints /\ first[j].element = other.endpoints[j]
        BY <1>3 DEF Followed, EndpointSteps
      <4>2. other = element
        BY <1>1, <1>2, <2>1, <4>1, SameId
      <4> QED BY <2>3, <4>2
    <3>2. ~IsStepOf(1, g) /\ ~IsStepFor(1, endpoint.id)
      BY <2>3 DEF IsStepOf, IsStepFor
    <3>3. LoadsOther(element, endpoint, {}, first)
      BY <1>6, <1>7, <1>8, <2>3, <3>1, <3>2 DEF LoadsOther
    <3> QED BY <1>1, <1>4, <2>1, <3>3, PlannedElsewhere
  <2> QED BY <2>2, <2>3
<1> QED BY <1>7, <1>10, <1>11, <1>12 DEF GoesOn

\* An endpoint, its own or another's.
LEMMA EndpointStepGoesOn ==
    ASSUME Loading, done' = {}, config' = config, todo[1].what = "endpoint",
           LoadEndpoint(todo[1]), crashed' # TRUE
    PROVE  \E F \in SUBSET Endpoint : GoesOn(F)
<1> DEFINE none == <<>>
           step == todo[1]
<1>1. /\ Typed /\ Consistent /\ StepsAreElements /\ todo # <<>> /\ done = {} /\ Numbered
      /\ step \in Step /\ OwnedIn(events, step)
  BY HeadStep DEF Loading
<1>2. step \in EndpointsToLoad
  BY <1>1, StepKinds
<1>3. todo' = Tail(todo)
  BY DEF LoadEndpoint
<1>4. none \in Seq(EndpointsToLoad) /\ todo' \in Seq(Step) /\ Moved(todo, none, todo')
  BY <1>1, <1>3, TodoTail
<1>5. none = <<>> /\ \A j \in DOMAIN none : FALSE
  OBVIOUS
<1> HIDE DEF none
<1>6. PICK F \in SUBSET Endpoint : \E c, d \in Nat : LoadedAs(step, F, c, d)
  BY <1>1, <1>2, LoadsEndpointAs
<1>7. PICK c \in Nat, d \in Nat : LoadedAs(step, F, c, d)
  BY <1>6
<1>8. Onward(F) /\ Kept(events, events') /\ \A i \in DOMAIN events : events'[i] = events[i]
  BY <1>7 DEF LoadedAs, Onward
<1>9. \A g : /\ Awaited(g)' => Awaited(g)
             /\ ~IsStepOf(1, g) => (Awaited(g)' <=> Awaited(g))
  BY <1>1, <1>4, AwaitedElse
<1>10. \A i \in DOMAIN events' \ DOMAIN events :
          /\ events'[i].what \in {"createEndpoint", "destroyEndpoint"}
          /\ events'[i].what = "createEndpoint" => events'[i].element = step.element
  <2> SUFFICES ASSUME NEW i \in DOMAIN events' \ DOMAIN events
               PROVE  /\ events'[i].what \in {"createEndpoint", "destroyEndpoint"}
                      /\ events'[i].what = "createEndpoint" => events'[i].element = step.element
    OBVIOUS
  <2>1. i # 0
    BY <1>8 DEF Kept, IsList
  <2>2. CASE i = c
    BY <1>7, <2>1, <2>2 DEF LoadedAs, CreateEndpointEvent
  <2>3. CASE i = d
    BY <1>7, <2>1, <2>3 DEF LoadedAs
  <2> QED BY <1>7, <2>2, <2>3 DEF LoadedAs
<1>11. \A g : Coming(g)' => Coming(g)
  <2>1. \A i \in DOMAIN events' \ DOMAIN events : events'[i].what # "create"
    BY <1>10
  <2> QED BY <1>1, <1>8, <1>9, <2>1, ComingKept
<1>12. /\ members' = members /\ DOMAIN existing' = DOMAIN existing
       /\ DOMAIN endpoints' = DOMAIN endpoints \cup F
       /\ \A f \in F : endpoints'[f] = step.element.id
  BY <1>7 DEF LoadedAs, Made
<1>13. ASSUME NEW element, NEW endpoint, Known(element, endpoint)
       PROVE  EndpointPlanned(element, endpoint)'
  <2> DEFINE g == element.guid
             id == endpoint.id
  <2>1. /\ element \in Elements /\ WellPlanned(element) /\ endpoint \in EndpointsOf(element)
        /\ PlannedEndpoint(element, endpoint) /\ EndpointPlanned(element, endpoint)
        /\ Planned(element) /\ ToldUsed(g)
    BY <1>13 DEF Known, Loading, AllPlanned, AllTold
  <2>2. CASE step.element.id = id
    <3>1. IsStepFor(1, id) /\ Moved(todo, <<>>, todo') /\ (Awaited(g)' => Awaited(g))
      BY <1>4, <1>5, <1>9, <2>2 DEF IsStepFor
    <3> QED BY <1>1, <1>4, <1>7, <2>1, <3>1, PlannedWhenLoaded
  <2>3. CASE step.element.id # id
    <3>1. Elsewhere(F, id)
      BY <1>10, <1>12, <2>3 DEF Elsewhere
    <3>2. ~IsStepOf(1, g) /\ ~IsStepFor(1, id)
      BY <2>3 DEF IsStepOf, IsStepFor
    <3>3. LoadsOther(element, endpoint, F, none)
      BY <1>5, <1>8, <1>9, <1>12, <3>1, <3>2 DEF LoadsOther
    <3> QED BY <1>1, <1>4, <2>1, <3>3, PlannedElsewhere
  <2> QED BY <2>2, <2>3
<1>14. GoesOn(F)
  BY <1>8, <1>11, <1>12, <1>13 DEF GoesOn
<1> QED BY <1>14

\* A snapshot.
LEMMA SnapshotStepGoesOn ==
    ASSUME Loading, done' = {}, config' = config, todo[1].what = "snapshot",
           loadSnapshot(todo[1].element)
    PROVE  GoesOn({})
<1> DEFINE none == <<>>
           step == todo[1]
<1>1. /\ Typed /\ Consistent /\ StepsAreElements /\ todo # <<>> /\ done = {} /\ Numbered
      /\ step \in Step /\ IsList(events)
  BY HeadStep DEF Loading, Typed
<1>2. step.element \in SnapshotElement
  BY <1>1, StepKinds DEF SnapshotSteps
<1>3. /\ UNCHANGED <<members, existing, endpoints>>
      /\ todo' = Tail(todo)
      /\ Kept(events, events')
      /\ \A i \in DOMAIN events : events'[i] = events[i]
      /\ \A i \in DOMAIN events' \ DOMAIN events : events'[i].what = "snapshot"
  BY <1>1, <1>2, LoadsSnapshot DEF entities
<1>4. none \in Seq(EndpointsToLoad) /\ todo' \in Seq(Step) /\ Moved(todo, none, todo')
  BY <1>1, <1>3, TodoTail
<1>5. \A j \in DOMAIN none : FALSE
  OBVIOUS
<1> HIDE DEF none
<1>6. Quietly
  BY <1>3 DEF Quietly
<1>7. Onward({}) /\ \A id : Elsewhere({}, id)
  BY <1>1, <1>3, <1>6, SameOnward
<1>8. \A g : /\ Awaited(g)' => Awaited(g)
             /\ ~IsStepOf(1, g) => (Awaited(g)' <=> Awaited(g))
  BY <1>1, <1>4, AwaitedElse
<1>9. \A g : Coming(g)' => Coming(g)
  <2>1. \A i \in DOMAIN events' \ DOMAIN events : events'[i].what # "create"
    BY <1>3
  <2> QED BY <1>1, <1>3, <1>8, <2>1, ComingKept
<1>10. ASSUME NEW element, NEW endpoint, Known(element, endpoint)
       PROVE  EndpointPlanned(element, endpoint)'
  <2>1. EndpointPlanned(element, endpoint)
    BY <1>10 DEF Known, Loading, AllPlanned
  <2>2. ~IsStepOf(1, element.guid) /\ ~IsStepFor(1, endpoint.id)
    BY DEF IsStepOf, IsStepFor
  <2>3. LoadsOther(element, endpoint, {}, none)
    BY <1>3, <1>5, <1>7, <1>8, <2>2 DEF LoadsOther
  <2> QED BY <1>1, <1>4, <2>1, <2>3, PlannedElsewhere
<1> QED BY <1>3, <1>7, <1>9, <1>10 DEF GoesOn

\* Whatever the constructor loads.
LEMMA LoadGoesOn ==
    ASSUME Loading, Typed', done' = {}, config' = config, crashed' # TRUE, LoadElement
    PROVE  \E F \in SUBSET Endpoint : GoesOn(F)
<1>1. Typed /\ todo # <<>> /\ Head(todo) = todo[1] /\ todo[1] \in Step
  BY HeadStep DEF Loading
<1>2. ASSUME GoesOn({}) PROVE \E F \in SUBSET Endpoint : GoesOn(F)
  BY <1>2
<1>3. CASE /\ todo[1].what = "participant"
           /\ \/ loadServer(todo[1].element)
              \/ loadClient(todo[1].element)
              \/ loadSimple(todo[1].element)
  <2>1. todo[1].element \in ParticipantElement
    BY <1>1, <1>3, StepKinds DEF ParticipantSteps
  <2>2. PassedOver(todo[1].element) \/ Accepted(todo[1].element)
    BY <1>1, <1>3, <2>1, LoadParticipant DEF Refused
  <2>3. todo' \in Seq(Step)
    BY DEF Typed
  <2> QED BY <1>2, <1>3, <2>2, <2>3, PassedOverGoesOn, AcceptedGoesOn
<1>4. CASE todo[1].what = "endpoint" /\ (loadPublisher(todo[1]) \/ loadSubscriber(todo[1]))
  BY <1>4, EndpointStepGoesOn DEF loadPublisher, loadSubscriber
<1>5. CASE todo[1].what = "snapshot" /\ loadSnapshot(todo[1].element)
  BY <1>2, <1>5, SnapshotStepGoesOn
<1> QED BY <1>1, <1>3, <1>4, <1>5 DEF LoadElement

-----------------------------------------------------------------------------
(* The events run.                                                         *)

Running(i) ==
    /\ Typed /\ InOrder /\ Consistent /\ Numbered
    /\ i \in Pending /\ RunEvent(i) /\ crashed' # TRUE

\* What ran was due before the event that runs, and what is left is due after it.
LEMMA RunningFacts ==
    ASSUME NEW i, Running(i)
    PROVE  /\ i \in DOMAIN events /\ i \notin done /\ i # 0 /\ Execute(i, events[i])
           /\ done' = done \cup {i} /\ IsList(events)
           /\ events[i].what \in {"create", "destroy", "createEndpoint", "destroyEndpoint",
                                  "snapshot"}
           /\ \A j \in DOMAIN events : events[j].time \in Nat
           /\ \A j \in done : events[j].time <= events[i].time
           /\ \A j \in DOMAIN events \ done : events[i].time <= events[j].time
<1>1. /\ i \in DOMAIN events /\ i \notin done /\ i # 0 /\ Execute(i, events[i])
      /\ done' = done \cup {i} /\ IsList(events) /\ done \subseteq DOMAIN events /\ now \in Nat
      /\ \A j \in Pending : events[i].time <= events[j].time
  BY DEF Running, Pending, RunEvent, Due, Typed, IsList
<1>2. \A j \in DOMAIN events : events[j] \in Event
  BY <1>1 DEF IsList
<1>3. \A j \in DOMAIN events : events[j].time \in Nat
  BY <1>2, EventKinds
<1>4. events[i].what \in {"create", "destroy", "createEndpoint", "destroyEndpoint", "snapshot"}
  BY <1>1, <1>2, EventKinds
<1>5. ASSUME NEW j \in done PROVE events[j].time <= events[i].time
  <2>1. events[j].time <= now /\ now <= events[i].time
    BY DEF Running, InOrder
  <2> QED BY <1>1, <1>3, <2>1
<1> QED BY <1>1, <1>3, <1>4, <1>5 DEF Pending

\* A participant with an endpoint that was made, or is made now, has come; and it
\* goes, as the endpoint does, after that.
LEMMA CreatedBetween ==
    ASSUME NEW i, Running(i), NEW element, NEW endpoint, Known(element, endpoint),
           NEW C \in Nat, NEW D \in Nat, OnPlan(element, C, D), NEW c \in Nat, NEW d \in Nat,
           EndpointEvents(element, endpoint, c, d)
    PROVE  /\ C # 0 => c # 0 /\ events[C].time < events[c].time
           /\ c # 0 /\ D # 0 => events[c].time < events[D].time
           /\ c # 0 /\ d # 0 => events[c].time < events[d].time
<1> DEFINE start == StartTime(element, endpoint)
<1>1. /\ start \in Nat
      /\ element.creation # 0 => Second * element.creation < start
      /\ element.removal # 0 => start < Second * element.removal
      /\ endpoint.removal # 0 => start < Second * endpoint.removal
  BY StartTimes DEF Known, Running, Typed
<1>2. /\ C = 0 <=> element.creation = 0
      /\ D = 0 <=> element.removal = 0
      /\ C # 0 => events[C].time = Second * element.creation
      /\ D # 0 => events[D].time = Second * element.removal
  BY DEF OnPlan
<1>3. /\ c = 0 <=> start = 0
      /\ d = 0 <=> endpoint.removal = 0
      /\ c # 0 => events[c].time = start
      /\ d # 0 => events[d].time = Second * endpoint.removal
  BY DEF EndpointEvents
<1>4. Second * element.creation \in Nat
  <2>1. element.creation \in Nat
    BY ElementTyped DEF Known, Running, Typed
  <2> QED BY <2>1, SecondAssumption
<1> HIDE DEF start
<1> QED BY <1>1, <1>2, <1>3, <1>4

\* An event that is not about the endpoint, its participant or its creation.
LEMMA RunsQuietly ==
    ASSUME NEW i, Running(i), NEW element, NEW endpoint, NEW c \in Nat, NEW d \in Nat,
           EndpointOnPlan(element, endpoint, c, d), NEW F, Onward(F), Elsewhere(F, endpoint.id),
           i # c, i # d, d # 0 => events'[d].guid = events[d].guid,
           \A e \in DOMAIN endpoints : e \in DOMAIN endpoints',
           c = 0 \/ c \in done =>
              /\ element.guid \in DOMAIN existing' => element.guid \in DOMAIN existing
              /\ element.guid \in DOMAIN members' <=> element.guid \in DOMAIN members
    PROVE  EndpointOnPlan(element, endpoint, c, d)'
<1> DEFINE g == element.guid
           id == endpoint.id
<1>1. done' = done \cup {i}
  BY RunningFacts
<1>2. ASSUME c = 0 \/ c \in done PROVE StaysAs(g, id, d)
  <2> SUFFICES ASSUME NEW e \in Endpoint, MadeAs(e, g, id, d)
               PROVE  e \in DOMAIN endpoints' <=> g \in DOMAIN members' /\ (d = 0 \/ d \notin done')
    BY DEF StaysAs
  <2>1. e \in DOMAIN endpoints' <=> e \in DOMAIN endpoints
    <3>1. CASE e \in F
      <4>1. Owner[e] = g /\ g \in DOMAIN existing /\ e \notin existing[g].used
        BY <3>1 DEF Onward, MadeAs
      <4> QED BY <4>1 DEF MadeAs
    <3>2. CASE e \notin F
      BY <3>2 DEF Onward
    <3> QED BY <3>1, <3>2
  <2>2. d \in done' <=> d \in done
    BY <1>1
  <2> QED BY <1>2, <2>1, <2>2 DEF MadeAs
<1>3. c # 0 => (c \in done' <=> c \in done)
  BY <1>1
<1> QED BY <1>2, <1>3, EndpointOnPlanKept

\* A participant comes, before its endpoints do.
LEMMA RunsParticipantCreation ==
    ASSUME NEW i, Running(i), events[i].what = "create",
           NEW element, NEW endpoint, Known(element, endpoint),
           NEW C \in Nat, NEW D \in Nat, OnPlan(element, C, D), NEW c \in Nat, NEW d \in Nat,
           EndpointOnPlan(element, endpoint, c, d)
    PROVE  EndpointOnPlan(element, endpoint, c, d)'
<1> DEFINE g == element.guid
           other == events[i].element
<1>1. /\ i \in DOMAIN events /\ i \notin done /\ i # 0 /\ Execute(i, events[i]) /\ Typed
      /\ IsList(events) /\ Numbered
  BY RunningFacts DEF Running
<1>2. Joins(other) /\ Announced(i, other, events[i].removal)
  BY <1>1, RunsCreation DEF Running
<1>3. Onward({}) /\ \A id : Elsewhere({}, id)
  BY <1>1, <1>2, CreationOnward
<1>4. /\ endpoints' = endpoints
      /\ \A h : h # other.guid => /\ h \in DOMAIN members' <=> h \in DOMAIN members
                                  /\ h \in DOMAIN existing' <=> h \in DOMAIN existing
  BY <1>2 DEF Joins, Put
<1>5. EndpointEvents(element, endpoint, c, d)
  BY DEF EndpointOnPlan
<1>6. i # c /\ i # d
  BY <1>1, <1>5 DEF EndpointEvents
<1>7. d # 0 => events'[d].guid = events[d].guid
  <2>1. events[i].removal # 0 => events[events[i].removal].what = "destroy"
    BY <1>1 DEF IsList, LinkedIn
  <2> QED BY <1>2, <1>5, <1>6, <2>1 DEF Announced, EndpointEvents
<1>8. ASSUME c = 0 \/ c \in done PROVE other.guid # g
  <2> SUFFICES ASSUME other.guid = g PROVE FALSE
    OBVIOUS
  <2>1. i = C
    BY <1>1 DEF OnPlan
  <2>2. c # 0 /\ events[i].time < events[c].time
    BY <1>1, <1>5, <2>1, CreatedBetween
  <2>3. events[c].time <= events[i].time
    BY <1>8, <2>2, RunningFacts
  <2>4. events[c].time \in Nat /\ events[i].time \in Nat
    BY <1>1, <1>5, <2>2, RunningFacts DEF EndpointEvents
  <2> QED BY <2>2, <2>3, <2>4
<1> QED BY <1>3, <1>4, <1>6, <1>7, <1>8, RunsQuietly

\* A participant goes, and takes its endpoints with it.
LEMMA RunsParticipantDestruction ==
    ASSUME NEW i, Running(i), events[i].what = "destroy", NEW element, NEW endpoint,
           NEW c \in Nat, NEW d \in Nat, EndpointOnPlan(element, endpoint, c, d)
    PROVE  EndpointOnPlan(element, endpoint, c, d)'
<1> DEFINE g == element.guid
           id == endpoint.id
           h == events[i].guid
<1>1. i \in DOMAIN events /\ done' = done \cup {i} /\ DestroyParticipant(h)
  <2>1. i \in DOMAIN events /\ done' = done \cup {i} /\ Execute(i, events[i])
    BY RunningFacts
  <2> QED BY <2>1 DEF Execute
<1>2. /\ Onward({}) /\ Elsewhere({}, id)
      /\ DOMAIN endpoints' = {e \in DOMAIN endpoints : Owner[e] # h}
      /\ DOMAIN existing' = DOMAIN existing \ {h}
      /\ DOMAIN members' = DOMAIN members \ {h}
      /\ events' = events
  BY <1>1, DestructionOnward DEF Running
<1>3. EndpointEvents(element, endpoint, c, d)
  BY DEF EndpointOnPlan
<1>4. (c # 0 => i # c) /\ (d # 0 => i # d)
  BY <1>1, <1>3 DEF EndpointEvents
<1>5. StaysAs(g, id, d)
  <2> SUFFICES ASSUME NEW e \in Endpoint, MadeAs(e, g, id, d)
               PROVE  e \in DOMAIN endpoints' <=> g \in DOMAIN members' /\ (d = 0 \/ d \notin done')
    BY DEF StaysAs
  <2>1. d # 0 => (d \in done' <=> d \in done)
    BY <1>1, <1>4
  <2> QED BY <1>2, <2>1 DEF MadeAs
<1>6. c # 0 => (c \in done' <=> c \in done)
  BY <1>1, <1>4
<1> QED BY <1>2, <1>5, <1>6, EndpointOnPlanKept

\* An endpoint goes, when its own removal event runs and only then.
LEMMA RunsEndpointDestruction ==
    ASSUME NEW i, Running(i), events[i].what = "destroyEndpoint", NEW element, NEW endpoint,
           NEW c \in Nat, NEW d \in Nat, EndpointOnPlan(element, endpoint, c, d)
    PROVE  EndpointOnPlan(element, endpoint, c, d)'
<1> DEFINE g == element.guid
           id == endpoint.id
           x == events[i].guid
<1>1. i \in DOMAIN events /\ done' = done \cup {i} /\ DestroyEndpoint(x) /\ i # 0
  <2>1. i \in DOMAIN events /\ done' = done \cup {i} /\ Execute(i, events[i]) /\ i # 0
    BY RunningFacts
  <2> QED BY <2>1 DEF Execute
<1>2. /\ Onward({}) /\ Elsewhere({}, id)
      /\ DOMAIN endpoints' = DOMAIN endpoints \ {x}
      /\ UNCHANGED <<members, existing, events>>
  BY <1>1, EndpointDestructionOnward DEF Running
<1>3. EndpointEvents(element, endpoint, c, d)
  BY DEF EndpointOnPlan
<1>4. c # 0 => i # c
  BY <1>1, <1>3 DEF EndpointEvents
<1>5. StaysAs(g, id, d)
  <2> SUFFICES ASSUME NEW e \in Endpoint, MadeAs(e, g, id, d)
               PROVE  e \in DOMAIN endpoints' <=> g \in DOMAIN members' /\ (d = 0 \/ d \notin done')
    BY DEF StaysAs
  <2>1. x = e => i = d
    BY <1>1 DEF MadeAs
  <2>2. i = d => x = e
    BY <1>1 DEF MadeAs
  <2>3. CASE i = d
    BY <1>1, <1>2, <2>2, <2>3
  <2>4. CASE i # d
    <3>1. d \in done' <=> d \in done
      BY <1>1, <2>4
    <3>2. e \in DOMAIN endpoints' <=> e \in DOMAIN endpoints
      BY <1>2, <2>1, <2>4
    <3> QED BY <1>2, <3>1, <3>2 DEF MadeAs
  <2> QED BY <2>3, <2>4
<1>6. c # 0 => (c \in done' <=> c \in done)
  BY <1>1, <1>4
<1> QED BY <1>2, <1>5, <1>6, EndpointOnPlanKept

\* Another endpoint is created.
LEMMA RunsOtherCreation ==
    ASSUME NEW i, Running(i), events[i].what = "createEndpoint", NEW F, RanAs(i, F),
           NEW element, NEW endpoint, NEW c \in Nat, NEW d \in Nat, i # c,
           EndpointOnPlan(element, endpoint, c, d)
    PROVE  EndpointOnPlan(element, endpoint, c, d)'
<1>1. i \in DOMAIN events /\ i # 0
  BY RunningFacts
<1>2. EndpointEvents(element, endpoint, c, d)
  BY DEF EndpointOnPlan
<1>3. /\ events[i].element.id # endpoint.id
      /\ d # 0 => d \in DOMAIN events /\ d # events[i].removal /\ events[d].what = "destroyEndpoint"
  BY <1>1, <1>2 DEF EndpointEvents
<1>4. i # d
  BY <1>1, <1>3
<1>5. /\ members' = members /\ DOMAIN existing' = DOMAIN existing
      /\ DOMAIN endpoints' = DOMAIN endpoints \cup F
      /\ \A f \in F : endpoints'[f] = events[i].element.id
      /\ Onward(F)
      /\ DOMAIN events' = DOMAIN events
      /\ d # 0 => events'[d] = events[d]
  BY <1>3 DEF RanAs, Made, Told
<1>6. Elsewhere(F, endpoint.id)
  BY <1>3, <1>5 DEF Elsewhere
<1> QED BY <1>4, <1>5, <1>6, RunsQuietly

\* A participant whose endpoint is to be created is there.
LEMMA OwnerIsThere ==
    ASSUME NEW i, Running(i), NEW element, NEW endpoint, Known(element, endpoint),
           NEW C \in Nat, NEW D \in Nat, OnPlan(element, C, D), NEW d \in Nat,
           EndpointEvents(element, endpoint, i, d)
    PROVE  /\ element.guid \in DOMAIN members
           /\ d # 0 => d \notin done
<1>1. /\ i \in DOMAIN events /\ i # 0 /\ i \in Nat
      /\ \A j \in DOMAIN events : events[j].time \in Nat
      /\ \A j \in done : events[j].time <= events[i].time
      /\ \A j \in DOMAIN events \ done : events[i].time <= events[j].time
  BY RunningFacts DEF IsList
<1>2. /\ C # 0 => events[C].time < events[i].time
      /\ D # 0 => events[i].time < events[D].time
      /\ d # 0 => events[i].time < events[d].time
  BY <1>1, CreatedBetween
<1>3. /\ C # 0 => C \in DOMAIN events
      /\ D # 0 => D \in DOMAIN events
      /\ d # 0 => d \in DOMAIN events
  BY DEF OnPlan, EndpointEvents
<1>4. C = 0 \/ C \in done
  <2> SUFFICES ASSUME C # 0, C \notin done PROVE FALSE
    OBVIOUS
  <2>1. events[C].time < events[i].time /\ events[i].time <= events[C].time
    BY <1>1, <1>2, <1>3
  <2> QED BY <1>1, <1>3, <2>1
<1>5. ASSUME NEW j \in DOMAIN events, events[i].time < events[j].time PROVE j \notin done
  <2> SUFFICES ASSUME j \in done PROVE FALSE
    OBVIOUS
  <2>1. events[j].time <= events[i].time
    BY <1>1
  <2> QED BY <1>1, <1>5, <2>1
<1>6. D = 0 \/ D \notin done
  BY <1>2, <1>3, <1>5
<1>7. d # 0 => d \notin done
  BY <1>2, <1>3, <1>5
<1> QED BY <1>4, <1>6, <1>7 DEF OnPlan

\* An endpoint is created, and its removal event told so.
LEMMA RunsOwnCreation ==
    ASSUME NEW i \in Nat, Running(i), events[i].what = "createEndpoint", NEW F, RanAs(i, F),
           NEW element, NEW endpoint, Known(element, endpoint), ToldUsed(element.guid),
           NEW C \in Nat, NEW D \in Nat, OnPlan(element, C, D), NEW d \in Nat,
           EndpointOnPlan(element, endpoint, i, d)
    PROVE  EndpointOnPlan(element, endpoint, i, d)'
<1> DEFINE g == element.guid
           id == endpoint.id
<1>1. i \in DOMAIN events /\ i \notin done /\ i # 0 /\ done' = done \cup {i}
  BY RunningFacts
<1>2. EndpointEvents(element, endpoint, i, d) /\ NotMadeYet(id, d)
  BY <1>1 DEF EndpointOnPlan
<1>3. /\ events[i].element = endpoint /\ events[i].guid = g /\ events[i].removal = d
      /\ d # 0 => /\ d \in DOMAIN events /\ events[d].what = "destroyEndpoint"
                  /\ events[d].guid = Unknown
  BY <1>1, <1>2 DEF EndpointEvents, NotMadeYet
<1>4. g \in DOMAIN members /\ g \in DOMAIN existing /\ (d # 0 => d \notin done)
  <2>1. g \in DOMAIN members /\ (d # 0 => d \notin done)
    BY <1>2, OwnerIsThere
  <2> QED BY <2>1 DEF Running, Consistent, Agreement
<1>5. /\ Made(endpoint, g, F) /\ Onward(F) /\ Told(events, events', d, F)
      /\ F # {}
  BY <1>3, <1>4 DEF RanAs, Known, PlannedEndpoint
<1>6. PICK e \in F : F = {e}
  BY <1>5 DEF Made
<1>7. /\ e \in Endpoint /\ Owner[e] = g /\ endpoints'[e] = id /\ e \in DOMAIN endpoints'
      /\ e \notin existing[g].used /\ e \in existing'[g].used /\ members' = members
  BY <1>5, <1>6 DEF Made
<1>8. DOMAIN events' = DOMAIN events /\ (d # 0 => events'[d].guid = e)
  BY <1>3, <1>5, <1>6 DEF Told
<1>9. Elsewhere({}, id)
  BY <1>8 DEF Elsewhere
<1>10. EndpointEvents(element, endpoint, i, d)'
  BY <1>2, <1>5, <1>9, EndpointEventsKept
<1>11. ASSUME NEW j \in DOMAIN events', events'[j].what = "destroyEndpoint", events'[j].guid = e
       PROVE  j = d
  <2> SUFFICES ASSUME j # d PROVE FALSE
    OBVIOUS
  <2>1. events'[j] = events[j] /\ j \in DOMAIN events
    BY <1>5, <1>8 DEF Told
  <2>2. e # Unknown
    BY <1>7, UnknownAssumption
  <2>3. e \in existing[g].used
    BY <1>4, <1>7, <1>11, <2>1, <2>2 DEF ToldUsed
  <2> QED BY <1>7, <2>3
<1>12. ASSUME NEW f \in DOMAIN endpoints' PROVE endpoints'[f] = id <=> f = e
  BY <1>2, <1>5, <1>6, <1>7 DEF Made, NotMadeYet
<1>13. d # 0 => d \notin done'
  <2>1. d # 0 => d # i
    BY <1>3
  <2> QED BY <1>1, <1>4, <2>1
<1>14. MadeAs(e, g, id, d)'
  BY <1>4, <1>7, <1>8, <1>11, <1>12, <1>13 DEF MadeAs
<1> QED BY <1>1, <1>7, <1>10, <1>14 DEF EndpointOnPlan

\* Whatever runs.
LEMMA RunGoesOn ==
    ASSUME NEW i \in Nat, Running(i), todo = <<>>, todo' = <<>>, AllTold, AllPlanned,
           \A element \in Elements : WellPlanned(element) => Planned(element)
    PROVE  \E F \in SUBSET Endpoint : GoesOn(F)
<1>1. /\ i \in DOMAIN events /\ i \notin done /\ i # 0 /\ Execute(i, events[i])
      /\ done' = done \cup {i}
      /\ events[i].what \in {"create", "destroy", "createEndpoint", "destroyEndpoint", "snapshot"}
      /\ Typed /\ Consistent /\ Numbered /\ IsList(events)
  BY RunningFacts DEF Running
<1>2. \A g : ~Awaited(g) /\ ~Awaited(g)'
  BY DEF Awaited
<1>3. ASSUME NEW element, NEW endpoint, Known(element, endpoint)
      PROVE  /\ \E C, D \in Nat : OnPlan(element, C, D)
             /\ \E c, d \in Nat : EndpointOnPlan(element, endpoint, c, d)
             /\ ToldUsed(element.guid)
             /\ ~EndpointAwaited(element, endpoint)
  <2>1. ~EndpointAwaited(element, endpoint)
    BY <1>2 DEF EndpointAwaited
  <2>2. Planned(element) /\ EndpointPlanned(element, endpoint) /\ ToldUsed(element.guid)
    BY <1>3 DEF Known, AllPlanned, AllTold
  <2> QED BY <1>2, <2>1, <2>2 DEF Planned, EndpointPlanned
<1>4. ASSUME NEW element, NEW endpoint,
             \E c, d \in Nat : EndpointOnPlan(element, endpoint, c, d)'
      PROVE  EndpointPlanned(element, endpoint)'
  <2>1. StepsArePlanned(element, endpoint)' /\ ~EndpointAwaited(element, endpoint)'
    BY <1>2 DEF StepsArePlanned, EndpointAwaited
  <2> QED BY <1>4, <2>1 DEF EndpointPlanned
<1>5. ASSUME NEW F \in SUBSET Endpoint, Onward(F), DOMAIN events' = DOMAIN events,
             \A g \in DOMAIN existing' : g \in DOMAIN existing \/ Coming(g),
             \A element, endpoint : Known(element, endpoint) =>
                \E c, d \in Nat : EndpointOnPlan(element, endpoint, c, d)'
      PROVE  GoesOn(F)
  <2>1. Kept(events, events') /\ done \subseteq done'
    BY <1>1, <1>5 DEF Onward
  <2>2. \A g : Coming(g)' => Coming(g)
    BY <1>2, <1>5, <2>1, ComingKept
  <2> QED BY <1>4, <1>5, <2>2 DEF GoesOn
<1>6. {} \in SUBSET Endpoint
  OBVIOUS
<1>7. CASE events[i].what = "create"
  <2> DEFINE other == events[i].element
  <2>1. Joins(other) /\ Announced(i, other, events[i].removal)
    BY <1>1, <1>7, RunsCreation DEF Running
  <2>2. Onward({})
    BY <1>1, <1>7, <2>1, CreationOnward
  <2>3. DOMAIN events' = DOMAIN events /\ DOMAIN existing' = DOMAIN existing \cup {other.guid}
    BY <2>1 DEF Announced, Joins, Put
  <2>4. Coming(other.guid)
    BY <1>1, <1>7 DEF Coming, Pending
  <2>5. ASSUME NEW element, NEW endpoint, Known(element, endpoint)
        PROVE  \E c, d \in Nat : EndpointOnPlan(element, endpoint, c, d)'
    BY <1>3, <1>7, <2>5, RunsParticipantCreation
  <2> QED BY <1>5, <1>6, <2>2, <2>3, <2>4, <2>5
<1>8. CASE events[i].what = "destroy"
  <2>1. DestroyParticipant(events[i].guid)
    BY <1>1, <1>8 DEF Execute
  <2>2. /\ Onward({}) /\ events' = events
        /\ \A g \in DOMAIN existing' : g \in DOMAIN existing
    BY <1>1, <2>1, DestructionOnward
  <2>3. ASSUME NEW element, NEW endpoint, Known(element, endpoint)
        PROVE  \E c, d \in Nat : EndpointOnPlan(element, endpoint, c, d)'
    BY <1>3, <1>8, <2>3, RunsParticipantDestruction
  <2> QED BY <1>5, <1>6, <2>2, <2>3
<1>9. CASE events[i].what = "createEndpoint"
  <2>1. PICK F \in SUBSET Endpoint : RanAs(i, F)
    BY <1>1, <1>9, EndpointCreationOnward DEF Running
  <2>2. /\ Onward(F) /\ DOMAIN events' = DOMAIN events
        /\ DOMAIN existing' = DOMAIN existing
    BY <2>1 DEF RanAs, Told, Made
  <2>3. ASSUME NEW element, NEW endpoint, Known(element, endpoint)
        PROVE  \E c, d \in Nat : EndpointOnPlan(element, endpoint, c, d)'
    <3>1. PICK c \in Nat, d \in Nat : EndpointOnPlan(element, endpoint, c, d)
      BY <1>3, <2>3
    <3>2. PICK C \in Nat, D \in Nat : OnPlan(element, C, D)
      BY <1>3, <2>3
    <3>3. ToldUsed(element.guid)
      BY <1>3, <2>3
    <3>4. EndpointOnPlan(element, endpoint, c, d)'
      <4>1. CASE i = c
        <5>1. EndpointOnPlan(element, endpoint, i, d)
          BY <3>1, <4>1
        <5>2. EndpointOnPlan(element, endpoint, i, d)'
          BY <1>9, <2>1, <2>3, <3>2, <3>3, <5>1, RunsOwnCreation
        <5> QED BY <4>1, <5>2
      <4>2. CASE i # c
        BY <1>9, <2>1, <3>1, <4>2, RunsOtherCreation
      <4> QED BY <4>1, <4>2
    <3> QED BY <3>4
  <2>4. GoesOn(F)
    BY <1>5, <2>2, <2>3
  <2> QED BY <2>4
<1>10. CASE events[i].what = "destroyEndpoint"
  <2>1. DestroyEndpoint(events[i].guid)
    BY <1>1, <1>10 DEF Execute
  <2>2. Onward({}) /\ UNCHANGED <<members, existing, events>>
    BY <1>1, <2>1, EndpointDestructionOnward
  <2>3. ASSUME NEW element, NEW endpoint, Known(element, endpoint)
        PROVE  \E c, d \in Nat : EndpointOnPlan(element, endpoint, c, d)'
    BY <1>3, <1>10, <2>3, RunsEndpointDestruction
  <2> QED BY <1>5, <1>6, <2>2, <2>3
<1>11. CASE events[i].what = "snapshot"
  <2>1. UNCHANGED <<members, existing, endpoints, events>>
    BY <1>1, <1>11 DEF Execute, TakeSnapshot, entities
  <2>2. Quietly
    BY <1>1, <2>1, KeptSame DEF Quietly
  <2>3. Onward({}) /\ \A id : Elsewhere({}, id)
    BY <1>1, <2>1, <2>2, SameOnward
  <2>4. ASSUME NEW element, NEW endpoint, Known(element, endpoint)
        PROVE  \E c, d \in Nat : EndpointOnPlan(element, endpoint, c, d)'
    <3>1. PICK c \in Nat, d \in Nat : EndpointOnPlan(element, endpoint, c, d)
      BY <1>3, <2>4
    <3>2. i # c /\ i # d
      BY <1>1, <1>11, <3>1 DEF EndpointOnPlan, EndpointEvents
    <3>3. EndpointOnPlan(element, endpoint, c, d)'
      BY <2>1, <2>3, <3>1, <3>2, RunsQuietly
    <3> QED BY <3>3
  <2> QED BY <1>5, <1>6, <2>1, <2>3, <2>4
<1> QED BY <1>1, <1>7, <1>8, <1>9, <1>10, <1>11


-----------------------------------------------------------------------------
(* The steps of the tool.                                                  *)

\* The constructor starts: nothing is there, and every participant is to come before
\* its endpoints.
LEMMA StartEndpointInv ==
    ASSUME config \in Configuration, config' = config, UniqueIds, events' = <<>>, todo' = AllSteps,
           DOMAIN existing' = {}, DOMAIN endpoints' = {}
    PROVE  EndpointInv'
<1> DEFINE n == Len(config.participants)
           m == Len(config.snapshots)
<1>1. /\ n \in Nat /\ DOMAIN config.participants = 1 .. n
      /\ todo' \in Seq(Step) /\ Len(todo') = n + m /\ m \in Nat
      /\ \A i \in 1 .. n : todo'[i] = [what |-> "participant", element |-> config.participants[i]]
      /\ \A i \in DOMAIN todo' :
            \/ i \in 1 .. n
            \/ i - n \in 1 .. m /\ todo'[i] = [what |-> "snapshot",
                                               element |-> config.snapshots[i - n]]
  BY AllStepsFacts, Zenon
<1> HIDE DEF n, m
<1>2. \A i \in DOMAIN config.participants :
         /\ i \in DOMAIN todo' /\ todo'[i].what = "participant"
         /\ todo'[i].element = config.participants[i]
  <2> SUFFICES ASSUME NEW i \in 1 .. n
               PROVE  /\ i \in DOMAIN todo' /\ todo'[i].what = "participant"
                      /\ todo'[i].element = config.participants[i]
    BY <1>1
  <2>1. i \in DOMAIN todo'
    BY <1>1
  <2>2. todo'[i] = [what |-> "participant", element |-> config.participants[i]]
    BY <1>1, Zenon
  <2> QED BY <2>1, <2>2
<1>3. \A i \in DOMAIN todo' : todo'[i].what # "endpoint"
  <2> SUFFICES ASSUME NEW i \in DOMAIN todo' PROVE todo'[i].what # "endpoint"
    OBVIOUS
  <2>1. CASE i \in 1 .. n
    <3>1. todo'[i] = [what |-> "participant", element |-> config.participants[i]]
      BY <1>1, <2>1, Zenon
    <3> QED BY <3>1
  <2>2. CASE i \notin 1 .. n
    <3>1. todo'[i] = [what |-> "snapshot", element |-> config.snapshots[i - n]]
      BY <1>1, <2>2, Zenon
    <3> QED BY <3>1
  <2> QED BY <2>1, <2>2
<1>4. DOMAIN events' = {}
  BY NoEvents
<1>5. Numbered' /\ AllTold'
  BY <1>4 DEF Numbered, AllTold, ToldUsed
<1>6. ASSUME NEW element \in Elements', NEW endpoint PROVE EndpointPlanned(element, endpoint)'
  <2>1. EndpointAwaited(element, endpoint)'
    BY <1>2 DEF Elements, EndpointAwaited, Awaited, IsStepOf
  <2>2. StepsArePlanned(element, endpoint)'
    BY <1>3 DEF StepsArePlanned, IsStepFor
  <2>3. Unmade(endpoint.id)'
    BY <1>4 DEF Unmade
  <2> QED BY <2>1, <2>2, <2>3 DEF EndpointPlanned
<1>7. UniqueIds'
  BY DEF UniqueIds
<1> QED BY <1>5, <1>6, <1>7 DEF EndpointInv, AllPlanned

\* A step that leaves the endpoints and their events alone.
LEMMA UnchangedEndpoints ==
    ASSUME EndpointInv,
           UNCHANGED <<config, events, todo, done, members, existing, endpoints>>,
           Scheduling' /\ ~crashed' => Scheduling /\ ~crashed
    PROVE  EndpointInv'
<1>1. UniqueIds'
  BY DEF EndpointInv, UniqueIds
<1>2. SUFFICES ASSUME Scheduling, ~crashed PROVE Numbered' /\ AllTold' /\ AllPlanned'
  BY <1>1 DEF EndpointInv
<1>3. Numbered /\ AllTold /\ AllPlanned
  BY <1>2 DEF EndpointInv
<1>4. Numbered'
  BY <1>3 DEF Numbered
<1>5. Elements' = Elements /\ \A element : WellPlanned(element)' <=> WellPlanned(element)
  BY DEF Elements, WellPlanned
<1>6. \A g : (Awaited(g)' <=> Awaited(g)) /\ (Coming(g)' <=> Coming(g))
  BY DEF Awaited, IsStepOf, Coming, Pending
<1>7. AllTold'
  BY <1>3, <1>5, <1>6 DEF AllTold, ToldUsed
<1>8. ASSUME NEW element, NEW endpoint, EndpointPlanned(element, endpoint)
      PROVE  EndpointPlanned(element, endpoint)'
  <2>1. /\ StepsArePlanned(element, endpoint)'
        /\ EndpointAwaited(element, endpoint)' <=> EndpointAwaited(element, endpoint)
    BY <1>6, <1>8 DEF EndpointPlanned, StepsArePlanned, EndpointAwaited, IsStepFor, StepFor
  <2>2. Unmade(endpoint.id) => Unmade(endpoint.id)'
    BY DEF Unmade
  <2>3. ASSUME NEW c, NEW d, EndpointOnPlan(element, endpoint, c, d)
        PROVE  EndpointOnPlan(element, endpoint, c, d)'
    BY <2>3 DEF EndpointOnPlan, EndpointEvents, NotMadeYet, MadeAs, StartTime
  <2> QED BY <1>8, <2>1, <2>2, <2>3 DEF EndpointPlanned
<1>9. AllPlanned'
  BY <1>3, <1>5, <1>8 DEF AllPlanned, KnownBeforehand, EndpointsOf, PlannedEndpoint
<1> QED BY <1>4, <1>7, <1>9

\* What remains to be shown of a step when nothing is scheduled after it.
LEMMA NoEndpoints ==
    ASSUME EndpointInv, config' = config, ~Scheduling'
    PROVE  EndpointInv'
BY DEF EndpointInv, UniqueIds

\* Every step keeps planned endpoints on plan.
LEMMA NextEndpointInv ==
    /\ ScheduleInv /\ ScheduleInv' /\ PlanInv /\ PlanInv' /\ EndpointInv
    /\ [Next]_serverVars
    => EndpointInv'
<1> SUFFICES ASSUME ScheduleInv, ScheduleInv', PlanInv, EndpointInv, [Next]_serverVars
             PROVE  EndpointInv'
  OBVIOUS
<1>1. Typed /\ Typed' /\ InPhase /\ InPhase' /\ IInv /\ IInv' /\ UniqueIds
  BY DEF ScheduleInv, EndpointInv
<1>2. CASE UNCHANGED serverVars
  BY <1>2, UnchangedEndpoints DEF serverVars, mainVars, entities, Scheduling
<1>3. CASE ~crashed /\ ReadFile
  <2>1. /\ phase = "start"
        /\ UNCHANGED <<existing, endpoints, events, config, created>>
    BY <1>3 DEF ReadFile, entities
  <2>2. events = <<>> /\ created = FALSE /\ DOMAIN existing = {}
    BY <1>1, <2>1 DEF InPhase
  <2>3. CASE phase' = "load" /\ todo' = AllSteps
    <3>1. DOMAIN endpoints = {}
      BY <1>1, <2>1, <2>2 DEF IInv, Live, Consistent, Agreement
    <3> QED BY <1>1, <2>1, <2>2, <2>3, <3>1, StartEndpointInv DEF Typed
  <2>4. CASE phase' = "run"
    <3>1. ~Scheduling'
      BY <2>1, <2>2, <2>4 DEF Scheduling
    <3> QED BY <2>1, <3>1, NoEndpoints
  <2> QED BY <1>3, <2>3, <2>4 DEF ReadFile, AllSteps
<1>4. CASE ~crashed /\ LoadElement
  <2>1. /\ todo # <<>> /\ phase = "load" /\ UNCHANGED <<done, config, phase>>
    BY <1>4 DEF LoadElement
  <2>2. done = {} /\ Scheduling
    BY <1>1, <2>1 DEF InPhase, Scheduling
  <2>3. Consistent /\ Consistent'
    BY <1>1, <2>1 DEF IInv, Live
  <2>4. Loading
    BY <1>1, <1>4, <2>1, <2>2, <2>3 DEF Loading, EndpointInv, PlanInv
  <2>5. UniqueIds'
    BY <1>1, <2>1 DEF UniqueIds
  <2>6. CASE crashed' = TRUE
    BY <2>5, <2>6 DEF EndpointInv
  <2>7. CASE crashed' # TRUE
    <3>1. PICK F \in SUBSET Endpoint : GoesOn(F)
      BY <1>1, <1>4, <2>1, <2>2, <2>4, <2>7, LoadGoesOn
    <3>2. Numbered' /\ AllTold' /\ AllPlanned'
      BY <2>1, <2>3, <2>4, <3>1, AllKept DEF Loading
    <3> QED BY <2>5, <3>2 DEF EndpointInv
  <2> QED BY <2>6, <2>7
<1>5. CASE ~crashed /\ Loaded
  <2>1. /\ phase = "load"
        /\ UNCHANGED <<config, events, todo, done, members, existing, endpoints>>
    BY <1>5 DEF Loaded, entities
  <2>2. Scheduling /\ ~crashed
    BY <1>5, <2>1 DEF Scheduling
  <2> QED BY <2>1, <2>2, UnchangedEndpoints
<1>6. CASE ~crashed /\ RunEvents
  <2>1. PICK i \in Pending : RunEvent(i)
    BY <1>6 DEF RunEvents
  <2>2. phase = "run" /\ UNCHANGED <<phase, config, todo, created>>
    BY <1>6 DEF RunEvents, mainVars
  <2>3. todo = <<>> /\ todo' = <<>> /\ Consistent /\ Consistent'
    BY <1>1, <2>2 DEF IInv, Live, InPhase
  <2>4. UniqueIds'
    BY <1>1, <2>2 DEF UniqueIds
  <2>5. CASE crashed' = TRUE \/ ~Scheduling'
    BY <2>4, <2>5 DEF EndpointInv
  <2>6. CASE crashed' # TRUE /\ Scheduling'
    <3>1. Scheduling
      BY <2>2, <2>6 DEF Scheduling
    <3>2. /\ Numbered /\ AllTold /\ AllPlanned
          /\ \A element \in Elements : WellPlanned(element) => Planned(element)
      BY <1>6, <3>1 DEF EndpointInv, PlanInv
    <3>3. i \in Nat
      BY <1>1 DEF Pending, Typed, IsList
    <3>4. Running(i)
      BY <1>1, <2>1, <2>3, <2>6, <3>2 DEF Running, PlanInv
    <3>5. PICK F \in SUBSET Endpoint : GoesOn(F)
      BY <2>3, <3>2, <3>3, <3>4, RunGoesOn
    <3>6. Numbered' /\ AllTold' /\ AllPlanned'
      BY <1>1, <2>2, <2>3, <3>2, <3>5, AllKept
    <3> QED BY <2>4, <3>6 DEF EndpointInv
  <2> QED BY <2>5, <2>6
<1>7. CASE ~crashed /\ (UserShutdown \/ Validate \/ KeyPressed \/ Exit)
  <2>1. phase' \in {"key", "validated", "exited"} /\ config' = config
    BY <1>7 DEF UserShutdown, Validate, KeyPressed, Conclude, Exit
  <2>2. ~Scheduling'
    BY <2>1 DEF Scheduling
  <2> QED BY <2>1, <2>2, NoEndpoints
<1>8. CASE ~crashed /\ Terminate
  <2>1. phase' = "terminated" /\ config' = config
    BY <1>8 DEF Terminate
  <2>2. ~Scheduling'
    BY <2>1 DEF Scheduling
  <2> QED BY <2>1, <2>2, NoEndpoints
<1>9. ASSUME NEW s, NEW p, on_participant_discovery(s, p) PROVE EndpointInv'
  <2>1. /\ UNCHANGED <<config, events, todo, done, members, existing, endpoints>>
        /\ UNCHANGED <<crashed, phase, created>>
    BY <1>9 DEF on_participant_discovery, entities, mainVars
  <2> QED BY <2>1, UnchangedEndpoints DEF Scheduling
<1>10. CASE StartAgain
  <2>1. PICK option \in BOOLEAN : config' = FileConfiguration(option)
    BY <1>10 DEF StartAgain
  <2>2. DOMAIN config'.participants = {} /\ phase' = "start"
    BY <1>10, <2>1, NoEvents DEF FileConfiguration, StartAgain
  <2>3. UniqueIds' /\ ~Scheduling'
    BY <2>2 DEF UniqueIds, Scheduling
  <2> QED BY <2>3 DEF EndpointInv
<1> QED BY <1>2, <1>3, <1>4, <1>5, <1>6, <1>7, <1>8, <1>9, <1>10 DEF Next, Main

\* Before the configuration is read its endpoints are told apart by their ids.
LEMMA InitEndpointInv == Init => EndpointInv
<1> SUFFICES ASSUME Init PROVE UniqueIds /\ ~Scheduling
  BY DEF EndpointInv
<1>1. ~Scheduling
  BY DEF Init, Scheduling
<1>2. CASE config \in Configurations
  BY <1>1, <1>2, IdsAssumption DEF UniqueIds
<1>3. CASE \E option \in BOOLEAN : config = FileConfiguration(option)
  <2>1. DOMAIN config.participants = {}
    BY <1>3, NoEvents DEF FileConfiguration
  <2> QED BY <1>1, <2>1 DEF UniqueIds
<1> QED BY <1>1, <1>2, <1>3 DEF Init

\* The inductive invariant: of every planned endpoint that is found by a GUID known
\* beforehand there is at most one creation and one removal event, and only its removal
\* event is told its GUID, which is used once.
THEOREM EndpointInvHolds == Spec => [](ScheduleInv /\ PlanInv /\ EndpointInv)
<1>1. Init => ScheduleInv /\ PlanInv /\ EndpointInv
  BY InitScheduleInv, InitPlanInv, InitEndpointInv
<1>2. (ScheduleInv /\ PlanInv /\ EndpointInv) /\ [Next]_serverVars
         => (ScheduleInv /\ PlanInv /\ EndpointInv)'
  BY NextScheduleInv, NextPlanInv, NextEndpointInv
<1> QED BY <1>1, <1>2, PTL DEF Spec

\* An endpoint has started when its start time is not after now.
LEMMA StartedAtStart ==
    ASSUME config \in Configuration, now \in Nat, NEW element \in Elements,
           NEW endpoint \in EndpointsOf(element)
    PROVE  EndpointStarted(element, endpoint) <=> StartTime(element, endpoint) <= now
<1> DEFINE t == CHOOSE t \in endpoint.creation : TRUE
<1>1. element.creation \in Nat /\ Second * element.creation \in Nat
  BY ElementTyped, SecondAssumption
<1>2. CASE endpoint.creation # {}
  <2>1. t \in endpoint.creation
    BY <1>2
  <2>2. StartTime(element, endpoint) = Second * t
    BY <1>2 DEF StartTime
  <2> HIDE DEF t
  <2>3. \A s \in endpoint.creation : s = t
    BY <2>1, EndpointTyped
  <2> QED BY <1>2, <2>1, <2>2, <2>3 DEF EndpointStarted
<1>3. CASE endpoint.creation = {} /\ element.creation # 0
  BY <1>1, <1>3 DEF EndpointStarted, StartTime
<1>4. CASE endpoint.creation = {} /\ element.creation = 0
  BY <1>4 DEF EndpointStarted, StartTime
<1> QED BY <1>2, <1>3, <1>4

\* For every configuration, every order of the events of one time and every order of
\* callbacks: an endpoint whose schedule makes sense exists from its creation until its
\* removal or that of its participant.
THEOREM EndpointsAlwaysFollow == Spec => []EndpointsFollowSchedule
<1>1. ScheduleInv /\ PlanInv /\ EndpointInv => EndpointsFollowSchedule
  <2> SUFFICES ASSUME ScheduleInv, PlanInv, EndpointInv, ScheduleIsFollowed,
                      config.root = "config", created, Quiet,
                      NEW element \in Elements, WellPlanned(element), KnownBeforehand(element),
                      NEW endpoint \in EndpointsOf(element), PlannedEndpoint(element, endpoint)
               PROVE  (\E e \in DOMAIN endpoints : endpoints[e] = endpoint.id)
                         <=> /\ EndpointStarted(element, endpoint)
                             /\ Within(element.creation, element.removal)
                             /\ endpoint.removal = 0 \/ now < Second * endpoint.removal
    BY PlannedAreFollowed DEF EndpointsFollowSchedule
  <2> DEFINE start == StartTime(element, endpoint)
  <2>1. /\ Typed /\ todo = <<>> /\ phase = "run" /\ ~crashed
        /\ \A i \in Pending : events[i].time > now
    BY DEF Quiet, ScheduleInv, InPhase
  <2>2. ~EndpointAwaited(element, endpoint) /\ Scheduling
    <3>1. created = TRUE
      BY DEF ScheduleInv, InPhase
    <3> QED BY <2>1, <3>1 DEF EndpointAwaited, Awaited, Scheduling
  <2>3. PICK c \in Nat, d \in Nat : EndpointOnPlan(element, endpoint, c, d)
    BY <2>1, <2>2 DEF EndpointInv, AllPlanned, EndpointPlanned
  <2>4. start \in Nat /\ endpoint.removal \in Nat /\ now \in Nat /\ config \in Configuration
    BY <2>1, StartTimes, EndpointTyped DEF Typed
  <2>5. Second * endpoint.removal \in Nat
    BY <2>4, SecondAssumption
  <2>6. EndpointStarted(element, endpoint) <=> start <= now
    BY <2>4, StartedAtStart
  <2> HIDE DEF start
  <2>7. EndpointEvents(element, endpoint, c, d)
    BY <2>3 DEF EndpointOnPlan
  <2>8. /\ c = 0 <=> start = 0
        /\ c # 0 => c \in DOMAIN events /\ events[c].time = start
        /\ d = 0 <=> endpoint.removal = 0
        /\ d # 0 => d \in DOMAIN events /\ events[d].time = Second * endpoint.removal
    BY <2>7 DEF EndpointEvents, start
  <2>9. ASSUME NEW i \in DOMAIN events PROVE i \in done <=> events[i].time <= now
    <3>1. events[i].time \in Nat
      BY <2>1, EventKinds DEF Typed, IsList
    <3>2. CASE i \in done
      BY <3>2 DEF PlanInv, InOrder
    <3>3. CASE i \notin done
      BY <2>1, <2>4, <3>1, <3>3 DEF Pending
    <3> QED BY <3>2, <3>3
  <2>10. (c = 0 \/ c \in done) <=> start <= now
    BY <2>4, <2>8, <2>9
  <2>11. (d = 0 \/ d \notin done) <=> (endpoint.removal = 0 \/ now < Second * endpoint.removal)
    BY <2>4, <2>5, <2>8, <2>9
  <2>12. element.guid \in DOMAIN members <=> Within(element.creation, element.removal)
    BY DEF ScheduleIsFollowed
  <2>13. CASE c # 0 /\ c \notin done
    <3>1. \A e \in DOMAIN endpoints : endpoints[e] # endpoint.id
      BY <2>3, <2>13 DEF EndpointOnPlan, NotMadeYet
    <3> QED BY <2>6, <2>10, <2>13, <3>1
  <2>14. CASE c = 0 \/ c \in done
    <3>1. PICK e \in Endpoint : MadeAs(e, element.guid, endpoint.id, d)
      BY <2>3, <2>14 DEF EndpointOnPlan
    <3>2. /\ \A f \in DOMAIN endpoints : endpoints[f] = endpoint.id <=> f = e
          /\ e \in DOMAIN endpoints <=> element.guid \in DOMAIN members /\ (d = 0 \/ d \notin done)
      BY <3>1 DEF MadeAs
    <3>3. (\E f \in DOMAIN endpoints : endpoints[f] = endpoint.id) <=> e \in DOMAIN endpoints
      BY <3>2
    <3> QED BY <2>6, <2>10, <2>11, <2>12, <2>14, <3>2, <3>3
  <2> QED BY <2>13, <2>14
<1> QED BY <1>1, EndpointInvHolds, PTL
=============================================================================
