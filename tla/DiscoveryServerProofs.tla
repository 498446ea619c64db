----------------------- MODULE DiscoveryServerProofs -----------------------
(***************************************************************************)
(* The maps of the manager and what exists in Fast DDS agree, for every    *)
(* configuration and every order of events and callbacks.                  *)
(***************************************************************************)
EXTENDS DiscoveryServer, TLAPS

\* Every participant and every entry of entity_map has its topics.
Shapes ==
    /\ \A g \in DOMAIN existing : "topics" \in DOMAIN existing[g]
    /\ \A g \in DOMAIN entityMap : "topics" \in DOMAIN entityMap[g]

(***************************************************************************)
(* Inductive: a null entry of entity_map never belongs to a participant    *)
(* that exists, so nothing is ever found through it, and every endpoint    *)
(* goes with its participant.                                              *)
(***************************************************************************)
Agreement ==
    /\ DOMAIN members = DOMAIN existing
    /\ \A g \in DOMAIN existing : /\ g \in DOMAIN entityMap
                                  /\ entityMap[g].valid = TRUE
                                  /\ entityMap[g].topics = existing[g].topics
    /\ \A g \in DOMAIN entityMap : /\ entityMap[g].valid \in BOOLEAN
                                   /\ entityMap[g].valid = TRUE => g \in DOMAIN existing
    /\ listed = DOMAIN endpoints
    /\ \A e \in DOMAIN endpoints : Owner[e] \in DOMAIN existing

Consistent == Shapes /\ Agreement

Over == phase \in {"terminated", "exited"}

Empty == /\ DOMAIN existing = {}
         /\ DOMAIN endpoints = {}
         /\ DOMAIN entityMap = {}
         /\ listed = {}

IInv == /\ Live \/ Over
        /\ Live => Consistent
        /\ Over => Empty

-----------------------------------------------------------------------------

\* What erasing one entry of a map leaves.
LEMMA EraseFacts ==
    ASSUME NEW f, NEW k
    PROVE  /\ DOMAIN Erase(f, k) = DOMAIN f \ {k}
           /\ \A x \in DOMAIN f : x # k => Erase(f, k)[x] = f[x]
  BY DEF Erase

\* operator[] changes nothing for the entries that are there.
LEMMA IndexedFacts ==
    ASSUME NEW g
    PROVE  /\ DOMAIN Indexed(g) = DOMAIN entityMap \cup {g}
           /\ \A x \in DOMAIN entityMap : Indexed(g)[x] = entityMap[x]
           /\ g \notin DOMAIN entityMap => Indexed(g)[g] = NoInfo
  BY DEF Indexed, Put

-----------------------------------------------------------------------------
\* DelayedParticipantCreation: the new entry replaces a null one.
LEMMA CreateParticipantConsistent ==
    ASSUME Consistent, NEW element, NEW list, NEW removal,
           CreateParticipant(element, list, removal)
    PROVE  Consistent'
  <1> DEFINE g == element.guid
  <1>1. CASE g \in DOMAIN existing /\ Crash
    BY <1>1 DEF Consistent, Shapes, Agreement, Crash, entities
  <1>2. CASE /\ g \notin DOMAIN existing
             /\ existing' = Put(existing, g, [topics |-> {}, used |-> {}])
             /\ members' = Put(members, g, element.kind)
             /\ entityMap' = WithInfo(g)
             /\ UNCHANGED <<listed, endpoints>>
    <2>1. /\ DOMAIN existing' = DOMAIN existing \cup {g}
          /\ existing'[g] = [topics |-> {}, used |-> {}]
          /\ \A x \in DOMAIN existing : x # g => existing'[x] = existing[x]
      BY <1>2 DEF Put
    <2>2. /\ DOMAIN entityMap' = DOMAIN entityMap \cup {g}
          /\ entityMap'[g] = [valid |-> TRUE, topics |-> {}]
          /\ \A x \in DOMAIN entityMap : x # g => entityMap'[x] = entityMap[x]
      BY <1>2 DEF WithInfo, Put
    <2>3. DOMAIN members' = DOMAIN members \cup {g}
      BY <1>2 DEF Put
    <2>4. Shapes'
      BY <2>1, <2>2 DEF Consistent, Shapes
    <2>5. Agreement'
      <3>1. DOMAIN members' = DOMAIN existing'
        BY <2>1, <2>3 DEF Consistent, Agreement
      <3>2. ASSUME NEW x \in DOMAIN existing'
            PROVE  /\ x \in DOMAIN entityMap' /\ entityMap'[x].valid = TRUE
                   /\ entityMap'[x].topics = existing'[x].topics
        <4>1. CASE x = g
          BY <4>1, <2>1, <2>2
        <4>2. CASE x # g
          BY <4>2, <2>1, <2>2 DEF Consistent, Agreement
        <4>. QED  BY <4>1, <4>2
      <3>3. ASSUME NEW x \in DOMAIN entityMap'
            PROVE  /\ entityMap'[x].valid \in BOOLEAN
                   /\ entityMap'[x].valid = TRUE => x \in DOMAIN existing'
        <4>1. CASE x = g
          BY <4>1, <2>1, <2>2
        <4>2. CASE x # g
          BY <4>2, <2>1, <2>2 DEF Consistent, Agreement
        <4>. QED  BY <4>1, <4>2
      <3>4. /\ listed' = DOMAIN endpoints'
            /\ \A e \in DOMAIN endpoints' : Owner[e] \in DOMAIN existing'
        BY <1>2, <2>1 DEF Consistent, Agreement
      <3>. QED  BY <3>1, <3>2, <3>3, <3>4 DEF Agreement
    <2>. QED  BY <2>4, <2>5 DEF Consistent
  <1>. QED  BY <1>1, <1>2 DEF CreateParticipant

\* DelayedParticipantDestruction: the endpoints of the participant go with it, in
\* the maps and in Fast DDS.
LEMMA DestroyParticipantConsistent ==
    ASSUME Consistent, NEW g, DestroyParticipant(g)
    PROVE  Consistent'
  <1>1. listed' = {e \in listed : Owner[e] # g}
    BY DEF DestroyParticipant, ListedWithout
  <1>2. CASE g \in DOMAIN members
    <2>1. /\ members' = Erase(members, g)
          /\ entityMap' = Erase(entityMap, g)
          /\ existing' = Erase(existing, g)
          /\ endpoints' = [e \in {e \in DOMAIN endpoints : Owner[e] # g} |-> endpoints[e]]
      BY <1>2 DEF DestroyParticipant
    <2>2. /\ DOMAIN existing' = DOMAIN existing \ {g}
          /\ \A x \in DOMAIN existing : x # g => existing'[x] = existing[x]
      BY <2>1, EraseFacts
    <2>3. /\ DOMAIN entityMap' = DOMAIN entityMap \ {g}
          /\ \A x \in DOMAIN entityMap : x # g => entityMap'[x] = entityMap[x]
      BY <2>1, EraseFacts
    <2>4. DOMAIN members' = DOMAIN members \ {g}
      BY <2>1, EraseFacts
    <2>5. DOMAIN endpoints' = {e \in DOMAIN endpoints : Owner[e] # g}
      BY <2>1
    <2>6. Shapes'
      BY <2>2, <2>3 DEF Consistent, Shapes
    <2>7. Agreement'
      BY <1>1, <2>2, <2>3, <2>4, <2>5 DEF Consistent, Agreement
    <2>. QED  BY <2>6, <2>7 DEF Consistent
  <1>3. CASE g \notin DOMAIN members
    <2>1. UNCHANGED <<members, entityMap, existing, endpoints>>
      BY <1>3 DEF DestroyParticipant
    <2>2. listed' = listed
      BY <1>1, <1>3 DEF Consistent, Agreement
    <2>. QED  BY <2>1, <2>2 DEF Consistent, Shapes, Agreement
  <1>. QED  BY <1>2, <1>3

\* DelayedEndpointCreation: a topic is recorded as soon as it is created, whether
\* the endpoint follows or not.
LEMMA CreateEndpointConsistent ==
    ASSUME Consistent, NEW element, NEW g, NEW owner, NEW list, NEW removal,
           CreateEndpoint(element, g, owner, list, removal)
    PROVE  Consistent'
  <1>1. ASSUME entityMap' = Indexed(g), UNCHANGED <<members, listed, existing, endpoints>>
        PROVE  Consistent'
    <2>1. \A x \in DOMAIN entityMap' :
             \/ x \in DOMAIN entityMap /\ entityMap'[x] = entityMap[x]
             \/ entityMap'[x] = [valid |-> FALSE, topics |-> {}]
      BY <1>1, IndexedFacts DEF NoInfo
    <2>2. \A x \in DOMAIN entityMap : x \in DOMAIN entityMap' /\ entityMap'[x] = entityMap[x]
      BY <1>1, IndexedFacts
    <2>3. Shapes'
      BY <1>1, <2>1 DEF Consistent, Shapes
    <2>4. ASSUME NEW x \in DOMAIN entityMap'
          PROVE  /\ entityMap'[x].valid \in BOOLEAN
                 /\ entityMap'[x].valid = TRUE => x \in DOMAIN existing'
      <3>1. CASE x \in DOMAIN entityMap /\ entityMap'[x] = entityMap[x]
        BY <1>1, <3>1 DEF Consistent, Agreement
      <3>2. CASE entityMap'[x] = [valid |-> FALSE, topics |-> {}]
        BY <3>2
      <3>. QED  BY <2>1, <3>1, <3>2
    <2>5. Agreement'
      BY <1>1, <2>2, <2>4 DEF Consistent, Agreement
    <2>. QED  BY <2>3, <2>5 DEF Consistent
  <1>2. ASSUME Crash PROVE Consistent'
    BY <1>2 DEF Consistent, Shapes, Agreement, Crash, entities
  <1>3. ASSUME /\ Indexed(g)[g].valid
               /\ entityMap' = IF HasTopic(g, element.topic)
                               THEN WithTopic(entityMap, g, element.topic) ELSE entityMap
               /\ members' = members,
               \/ /\ HasTopic(g, element.topic)
                  /\ \E e \in Fresh(g, element) :
                        /\ existing' = [existing EXCEPT ![g].topics = @ \cup element.topic,
                                                        ![g].used = @ \cup {e}]
                        /\ endpoints' = Put(endpoints, e, element.id)
                        /\ listed' = ListedWith(e)
               \/ /\ existing' = IF HasTopic(g, element.topic)
                                 THEN [existing EXCEPT ![g].topics = @ \cup element.topic]
                                 ELSE existing
                  /\ UNCHANGED <<endpoints, listed>>
        PROVE  Consistent'
    <2>1. g \in DOMAIN entityMap /\ g \in DOMAIN existing
      <3>1. CASE g \in DOMAIN entityMap
        <4>1. entityMap[g].valid
          BY <1>3, <3>1 DEF Indexed
        <4>. QED  BY <3>1, <4>1 DEF Consistent, Agreement
      <3>2. CASE g \notin DOMAIN entityMap
        <4>1. Indexed(g)[g] = [valid |-> FALSE, topics |-> {}]
          BY <3>2, IndexedFacts DEF NoInfo
        <4>. QED  BY <1>3, <4>1
      <3>. QED  BY <3>1, <3>2
    <2>2. /\ DOMAIN endpoints' = listed'
          /\ \A e \in DOMAIN endpoints' : e \in DOMAIN endpoints \/ Owner[e] = g
      BY <1>3 DEF Consistent, Agreement, ListedWith, Fresh, Put
    <2>3. DOMAIN existing' = DOMAIN existing /\ DOMAIN entityMap' = DOMAIN entityMap
      BY <1>3 DEF WithTopic
    <2>4. \A x \in DOMAIN existing : x # g => existing'[x] = existing[x]
      BY <1>3
    <2>5. \A x \in DOMAIN entityMap : x # g => entityMap'[x] = entityMap[x]
      BY <1>3 DEF WithTopic
    <2>6. /\ "topics" \in DOMAIN existing'[g] /\ "topics" \in DOMAIN entityMap'[g]
          /\ entityMap'[g].valid = entityMap[g].valid
          /\ entityMap'[g].topics = existing'[g].topics
      <3>0. /\ "topics" \in DOMAIN existing[g] /\ "topics" \in DOMAIN entityMap[g]
            /\ entityMap[g].topics = existing[g].topics
        BY <2>1 DEF Consistent, Shapes, Agreement
      <3>1. CASE HasTopic(g, element.topic)
        <4>1. /\ "topics" \in DOMAIN existing'[g]
              /\ existing'[g].topics = existing[g].topics \cup element.topic
          BY <1>3, <2>1, <3>0, <3>1
        <4>2. /\ "topics" \in DOMAIN entityMap'[g]
              /\ entityMap'[g].valid = entityMap[g].valid
              /\ entityMap'[g].topics = entityMap[g].topics \cup element.topic
          <5>1. entityMap' = [entityMap EXCEPT ![g].topics = @ \cup element.topic]
            BY <1>3, <3>1 DEF WithTopic
          <5>2. entityMap'[g] = [entityMap[g] EXCEPT !.topics = @ \cup element.topic]
            BY <2>1, <5>1
          <5>. QED  BY <3>0, <5>2
        <4>. QED  BY <3>0, <4>1, <4>2
      <3>2. CASE ~HasTopic(g, element.topic)
        BY <1>3, <3>0, <3>2
      <3>. QED  BY <3>1, <3>2
    <2>7. Shapes'
      BY <2>3, <2>4, <2>5, <2>6 DEF Consistent, Shapes
    <2>8. Agreement'
      BY <1>3, <2>1, <2>2, <2>3, <2>4, <2>5, <2>6 DEF Consistent, Agreement
    <2>. QED  BY <2>7, <2>8 DEF Consistent
  <1>. QED  BY <1>1, <1>2, <1>3 DEF CreateEndpoint, EndpointMade

\* DelayedEndpointDestruction: a listed endpoint can always be deleted.
LEMMA DestroyEndpointConsistent ==
    ASSUME Consistent, NEW e, DestroyEndpoint(e)
    PROVE  Consistent'
  <1>1. CASE e \in listed
    <2>1. Owner[e] \in DOMAIN entityMap /\ entityMap[Owner[e]].valid = TRUE
      BY <1>1 DEF Consistent, Agreement
    <2>2. Indexed(Owner[e]) = entityMap /\ CanDelete(e)
      BY <2>1 DEF Indexed, CanDelete
    <2>3. /\ listed' = listed \ {e}
          /\ DOMAIN endpoints' = DOMAIN endpoints \ {e}
          /\ UNCHANGED <<members, existing, entityMap>>
      BY <1>1, <2>2, EraseFacts DEF DestroyEndpoint, Unlisted
    <2>. QED  BY <2>3 DEF Consistent, Shapes, Agreement
  <1>2. CASE e \notin listed
    BY <1>2 DEF DestroyEndpoint, Consistent, Shapes, Agreement
  <1>. QED  BY <1>1, <1>2

-----------------------------------------------------------------------------
\* A step that leaves the maps and Fast DDS alone keeps them consistent.
LEMMA UnchangedConsistent ==
    ASSUME Consistent, UNCHANGED entities
    PROVE  Consistent'
  BY DEF Consistent, Shapes, Agreement, entities

\* One event.
LEMMA ExecuteConsistent ==
    ASSUME Consistent, NEW i, NEW event, Execute(i, event)
    PROVE  Consistent'
  <1>1. CASE event.what = "create"
    BY <1>1, CreateParticipantConsistent DEF Execute
  <1>2. CASE event.what = "destroy"
    BY <1>2, DestroyParticipantConsistent DEF Execute
  <1>3. CASE event.what = "createEndpoint"
    BY <1>3, CreateEndpointConsistent DEF Execute
  <1>4. CASE event.what = "destroyEndpoint"
    BY <1>4, DestroyEndpointConsistent DEF Execute
  <1>5. CASE event.what = "snapshot"
    BY <1>5, UnchangedConsistent DEF Execute, TakeSnapshot
  <1>. QED  BY <1>1, <1>2, <1>3, <1>4, <1>5 DEF Execute

\* One element of the configuration.
LEMMA LoadConsistent ==
    ASSUME Consistent, LoadElement
    PROVE  Consistent'
  <1>1. ASSUME NEW element, LoadLinked(element) PROVE Consistent'
    BY <1>1, CreateParticipantConsistent, UnchangedConsistent DEF LoadLinked, Skip, Fail, Crash
  <1>2. ASSUME NEW element, loadServer(element) PROVE Consistent'
    BY <1>2, CreateParticipantConsistent, UnchangedConsistent DEF loadServer, Skip, Fail, Crash
  <1>3. ASSUME NEW step, LoadEndpoint(step) PROVE Consistent'
    BY <1>3, CreateEndpointConsistent, UnchangedConsistent DEF LoadEndpoint, Crash
  <1>4. ASSUME NEW element, loadSnapshot(element) PROVE Consistent'
    BY <1>4, UnchangedConsistent DEF loadSnapshot, Skip, Fail, Crash
  <1>. QED
    BY <1>1, <1>2, <1>3, <1>4
       DEF LoadElement, loadClient, loadSimple, loadPublisher, loadSubscriber

-----------------------------------------------------------------------------
\* Before the configuration is read there is nothing.
LEMMA InitIInv == Init => IInv
  BY DEF Init, IInv, Live, Over, Consistent, Shapes, Agreement

\* Every step of main, of the user and of Fast DDS preserves the invariant.
LEMMA NextIInv == IInv /\ [Next]_serverVars => IInv'
  <1> SUFFICES ASSUME IInv, [Next]_serverVars PROVE IInv'
    OBVIOUS
  <1>1. CASE UNCHANGED serverVars
    BY <1>1 DEF serverVars, mainVars, entities, IInv, Live, Over, Consistent, Shapes, Agreement,
                Empty
  <1>2. ASSUME Live, Live', Consistent' PROVE IInv'
    BY <1>2 DEF IInv, Live, Over
  <1>3. CASE ReadFile
    <2>1. Live /\ Live' /\ UNCHANGED entities
      BY <1>3 DEF ReadFile, Live
    <2>. QED  BY <1>2, <2>1, UnchangedConsistent DEF IInv
  <1>4. CASE LoadElement
    <2>1. Live /\ Live'
      BY <1>4 DEF LoadElement, Live
    <2>. QED  BY <1>2, <1>4, <2>1, LoadConsistent DEF IInv
  <1>5. CASE Loaded
    <2>1. Live /\ Live' /\ UNCHANGED entities
      BY <1>5 DEF Loaded, Live
    <2>. QED  BY <1>2, <2>1, UnchangedConsistent DEF IInv
  <1>6. CASE RunEvents
    <2>1. Live /\ Live'
      BY <1>6 DEF RunEvents, Live, mainVars
    <2>2. PICK i \in Pending : RunEvent(i)
      BY <1>6 DEF RunEvents
    <2>3. Execute(i, events[i])
      BY <2>2 DEF RunEvent
    <2>. QED  BY <1>2, <2>1, <2>3, ExecuteConsistent DEF IInv
  <1>7. CASE UserShutdown
    <2>1. Live /\ Live' /\ UNCHANGED entities
      BY <1>7 DEF UserShutdown, AllRun, Live
    <2>. QED  BY <1>2, <2>1, UnchangedConsistent DEF IInv
  <1>8. CASE Validate \/ KeyPressed
    <2>1. Live /\ Live' /\ UNCHANGED entities
      BY <1>8 DEF Validate, KeyPressed, Conclude, AllRun, Live
    <2>. QED  BY <1>2, <2>1, UnchangedConsistent DEF IInv
  <1>9. CASE Terminate
    <2>1. Consistent
      BY <1>9 DEF Terminate, IInv, Live
    <2>2. Empty'
      BY <1>9, <2>1 DEF Terminate, Remaining, Consistent, Agreement, Empty
    <2>. QED  BY <1>9, <2>2 DEF Terminate, IInv, Live, Over
  <1>10. CASE Exit
    BY <1>10 DEF Exit, IInv, Live, Over, Empty, entities
  <1>11. ASSUME NEW s, NEW p, on_participant_discovery(s, p) PROVE IInv'
    <2>1. Live /\ Live' /\ UNCHANGED entities
      BY <1>11 DEF on_participant_discovery, mainVars, Live
    <2>. QED  BY <1>2, <2>1, UnchangedConsistent DEF IInv
  <1>12. CASE StartAgain
    <2>1. Empty
      BY <1>12 DEF StartAgain, IInv, Over
    <2>2. /\ DOMAIN members' = {} /\ DOMAIN existing' = {} /\ DOMAIN endpoints' = {}
          /\ DOMAIN entityMap' = {} /\ listed' = {} /\ phase' = "start"
      BY <1>12, <2>1 DEF StartAgain, Empty
    <2>3. Consistent'
      BY <2>2 DEF Consistent, Shapes, Agreement
    <2>. QED  BY <2>2, <2>3 DEF IInv, Live, Over
  <1>. QED  BY <1>1, <1>3, <1>4, <1>5, <1>6, <1>7, <1>8, <1>9, <1>10, <1>11, <1>12
               DEF Next, Main

\* The inductive invariant, for every configuration: the maps of the manager and
\* Fast DDS are consistent while the manager runs, and empty after onTerminate.
THEOREM InvariantHolds == Spec => []IInv
  BY InitIInv, NextIInv, PTL DEF Spec

\* Whatever the configuration, the order of the events and the GUIDs that operator[]
\* has put in entity_map, getParticipant finds exactly the participants that exist.
THEOREM RegisteredAlwaysFound == Spec => []RegisteredAreFound
  <1>1. IInv => RegisteredAreFound
    <2> SUFFICES ASSUME IInv, Live PROVE RegisteredAreFound
      BY DEF RegisteredAreFound
    <2>1. DOMAIN members = DOMAIN existing
      BY DEF IInv, Consistent, Agreement
    <2>2. ASSUME NEW g PROVE Found(entityMap, g) <=> g \in DOMAIN existing
      <3>1. CASE g \in DOMAIN entityMap
        BY <3>1 DEF IInv, Consistent, Agreement, Found
      <3>2. CASE g \notin DOMAIN entityMap
        BY <3>2 DEF IInv, Consistent, Agreement, Found
      <3>. QED  BY <3>1, <3>2
    <2>. QED  BY <2>1, <2>2 DEF RegisteredAreFound
  <1>. QED  BY <1>1, InvariantHolds, PTL

\* data_readers and data_writers hold the endpoints that exist, for every
\* configuration: none is forgotten and no pointer outlives its endpoint.
THEOREM ListedAlwaysTheEndpoints == Spec => []ListedAreTheEndpoints
  <1>1. IInv => ListedAreTheEndpoints
    BY DEF IInv, Consistent, Agreement, ListedAreTheEndpoints
  <1>. QED  BY <1>1, InvariantHolds, PTL

\* The topics recorded for a participant are the topics it has, for every number of
\* topics, participants and endpoints.
THEOREM TopicsAlwaysRegistered == Spec => []TopicsAreRegistered
  <1>1. IInv => TopicsAreRegistered
    BY DEF IInv, Consistent, Agreement, TopicsAreRegistered
  <1>. QED  BY <1>1, InvariantHolds, PTL

\* onTerminate deletes every participant and with it every endpoint.
THEOREM NothingEverLeft == Spec => []NothingIsLeft
  <1>1. IInv => NothingIsLeft
    BY DEF IInv, Over, Empty, NothingIsLeft
  <1>. QED  BY <1>1, InvariantHolds, PTL

=============================================================================
