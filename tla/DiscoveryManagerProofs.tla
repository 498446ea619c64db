----------------------- MODULE DiscoveryManagerProofs -----------------------
(***************************************************************************)
(* The manager, for every number of participants, endpoints and callbacks: *)
(* its threads are reports to the database in some order, no callback      *)
(* reaches the database or the maps when it should not, and a database     *)
(* that has settled says what Fast DDS has told it.                        *)
(***************************************************************************)
EXTENDS DiscoveryManager, TLAPS

\* TypeOK, the items of the databases excepted.
Fields ==
    /\ DOMAIN image \subseteq Managed
    /\ existing \subseteq Participant
    /\ listening \subseteq Managed /\ pending \subseteq Managed /\ members \subseteq Managed
    /\ entityMap \subseteq Managed /\ ignored \subseteq Managed
    /\ noCallbacks \in BOOLEAN /\ locked \in BOOLEAN
    /\ main \in [stage : {"idle", "terminate", "done"}]
                    \cup [stage : {"register", "inform", "detach", "delete", "destroy"},
                          who : Managed]
    /\ callback \in [Managed -> ReportType \cup {Idle}]
    /\ seen \in [Managed -> Knowledge] /\ told \in [Managed -> Knowledge]

\* A participant is reported by others only, and an endpoint report names one.
Subjects ==
    \A s \in Managed :
        /\ s \notin seen[s].participants
        /\ callback[s].stage # "idle" =>
              /\ callback[s].about = "participant" => callback[s].who \in Participant \ {s}
              /\ callback[s].about = "endpoint" => callback[s].who \in Endpoint

\* Until it is registered a participant is in no map, and none of its callbacks
\* has got past getParticipant.
NotYet ==
    \A s \in Managed : Unregistered(s) =>
        /\ s \notin members /\ s \notin entityMap /\ s \notin DOMAIN image
        /\ callback[s].stage \in {"idle", "origin"}
        /\ told[s] = NothingSeen

\* What the event thread may rely on at each of its steps.
Stages ==
    /\ At("register") => main.who \notin pending /\ main.who \in existing
    /\ At("inform") => main.who \in members
    /\ At("detach") \/ At("delete") => main.who \notin members
    /\ At("terminate") \/ At("destroy") \/ At("done") => noCallbacks
    /\ ~noCallbacks => members \subseteq existing

IInv == Fields /\ Subjects /\ NotYet /\ Stages

-----------------------------------------------------------------------------
\* A callback that runs has a report.
LEMMA Running ==
    ASSUME Fields, NEW s \in Managed, callback[s].stage # "idle"
    PROVE  callback[s] \in ReportType
  BY DEF Fields, Idle

\* The initial states satisfy the invariant.
LEMMA InitInv == Init => IInv
  <1> SUFFICES ASSUME Init PROVE IInv
    OBVIOUS
  <1>1. NothingSeen \in Knowledge /\ NothingSeen.participants = {}
    BY DEF NothingSeen, Knowledge
  <1>2. Idle.stage = "idle" /\ main = Idle /\ \A s \in Managed : callback[s] = Idle
    BY DEF Init, Idle
  <1>3. Idle \in [stage : {"idle", "terminate", "done"}]
    BY DEF Idle
  <1>4. Fields
    BY <1>1, <1>2, <1>3 DEF Init, Fields
  <1>5. Subjects
    BY <1>1, <1>2 DEF Init, Subjects
  <1>6. NotYet
    BY <1>2 DEF Init, NotYet
  <1>7. Stages
    BY <1>2 DEF Init, Stages, At
  <1>. QED  BY <1>4, <1>5, <1>6, <1>7 DEF IInv

\* What a report that is heard leaves.
LEMMA HeardFacts ==
    ASSUME NEW known \in Knowledge, NEW report \in ReportType,
           report.about = "participant" => report.who \in Participant,
           report.about = "endpoint" => report.who \in Endpoint
    PROVE  /\ Heard(known, report) \in Knowledge
           /\ report.about = "participant" =>
                 /\ Heard(known, report).endpoints = known.endpoints
                 /\ Heard(known, report).participants =
                       IF report.found THEN known.participants \cup {report.who}
                       ELSE known.participants \ {report.who}
           /\ report.about = "endpoint" =>
                 /\ Heard(known, report).participants = known.participants
                 /\ Heard(known, report).endpoints =
                       IF report.found THEN known.endpoints \cup {report.who}
                       ELSE known.endpoints \ {report.who}
  BY DEF Heard, Knowledge, ReportType

-----------------------------------------------------------------------------
(* The event thread.                                                       *)

\* create_participant.
LEMMA CreateStep ==
    ASSUME IInv, NEW p \in Managed, CreateParticipant(p)
    PROVE  IInv'
  <1>1. Fields'
    BY ManagedAssumption DEF CreateParticipant, GoTo, history, IInv, Fields
  <1>2. Subjects'
    BY DEF CreateParticipant, IInv, Subjects
  <1>3. main' = [stage |-> "register", who |-> p]
    BY DEF CreateParticipant, GoTo
  <1>4. NotYet'
    BY <1>3 DEF CreateParticipant, history, IInv, NotYet, Unregistered, At
  <1>5. Stages'
    BY <1>3 DEF CreateParticipant, IInv, Stages, At
  <1>. QED  BY <1>1, <1>2, <1>4, <1>5 DEF IInv

\* addServer, addClient and addSimple.
LEMMA RegisterStep ==
    ASSUME IInv, RegisterParticipant
    PROVE  IInv'
  <1>1. main.who \in Managed
    BY DEF RegisterParticipant, At, IInv, Fields
  <1>2. main' = [stage |-> "inform", who |-> main.who]
    BY DEF RegisterParticipant, GoTo
  <1>3. Fields'
    BY <1>1, <1>2 DEF RegisterParticipant, history, world, IInv, Fields
  <1>4. Subjects'
    BY DEF RegisterParticipant, world, IInv, Subjects
  <1>5. NotYet'
    BY <1>1, <1>2 DEF RegisterParticipant, history, IInv, NotYet, Stages, Unregistered, At
  <1>6. Stages'
    BY <1>2 DEF RegisterParticipant, world, IInv, Stages, At
  <1>. QED  BY <1>3, <1>4, <1>5, <1>6 DEF IInv

\* setParticipantInfo.
LEMMA InformStep ==
    ASSUME IInv, SetParticipantInfo
    PROVE  IInv'
  <1>1. main.who \in Managed
    BY DEF SetParticipantInfo, At, IInv, Fields
  <1>2. main' = [stage |-> "idle"]
    BY DEF SetParticipantInfo, Idle
  <1>3. Fields'
    BY <1>1, <1>2 DEF SetParticipantInfo, history, world, IInv, Fields
  <1>4. Subjects'
    BY DEF SetParticipantInfo, world, IInv, Subjects
  <1>5. NotYet'
    BY <1>1, <1>2 DEF SetParticipantInfo, history, IInv, NotYet, Stages, Unregistered, At
  <1>6. Stages'
    BY <1>2 DEF SetParticipantInfo, world, IInv, Stages, At
  <1>. QED  BY <1>3, <1>4, <1>5, <1>6 DEF IInv

\* removeParticipant.
LEMMA UnregisterStep ==
    ASSUME IInv, NEW p \in Managed, UnregisterParticipant(p)
    PROVE  IInv'
  <1>1. main' = [stage |-> "detach", who |-> p]
    BY DEF UnregisterParticipant, GoTo
  <1>2. DOMAIN image' = DOMAIN image \ {p}
    BY DEF UnregisterParticipant, RemoveReporter, Erase
  <1>3. NothingSeen \in Knowledge
    BY DEF NothingSeen, Knowledge
  <1>4. Fields'
    BY <1>1, <1>2, <1>3 DEF UnregisterParticipant, world, IInv, Fields
  <1>5. Subjects'
    BY DEF UnregisterParticipant, world, IInv, Subjects
  <1>6. NotYet'
    BY <1>1, <1>2 DEF UnregisterParticipant, IInv, NotYet, Fields, Unregistered, At
  <1>7. Stages'
    BY <1>1 DEF UnregisterParticipant, world, IInv, Stages, At
  <1>. QED  BY <1>4, <1>5, <1>6, <1>7 DEF IInv

\* deleteParticipant up to the release of management_mutex.
LEMMA DetachStep ==
    ASSUME IInv, DetachParticipant
    PROVE  IInv'
  <1>1. main.who \in Managed
    BY DEF DetachParticipant, At, IInv, Fields
  <1>2. main' = [stage |-> "delete", who |-> main.who]
    BY DEF DetachParticipant, GoTo
  <1>3. Fields'
    BY <1>1, <1>2 DEF DetachParticipant, history, IInv, Fields
  <1>4. Subjects'
    BY DEF DetachParticipant, IInv, Subjects
  <1>5. NotYet'
    BY <1>2 DEF DetachParticipant, history, IInv, NotYet, Unregistered, At
  <1>6. Stages'
    BY <1>2 DEF DetachParticipant, IInv, Stages, At
  <1>. QED  BY <1>3, <1>4, <1>5, <1>6 DEF IInv

\* delete_participant.
LEMMA DeleteStep ==
    ASSUME IInv, DeleteParticipant
    PROVE  IInv'
  <1>1. main' = [stage |-> "idle"]
    BY DEF DeleteParticipant, Idle
  <1>2. Fields'
    BY <1>1 DEF DeleteParticipant, history, registry, IInv, Fields
  <1>3. Subjects'
    BY DEF DeleteParticipant, IInv, Subjects
  <1>4. NotYet'
    BY <1>1 DEF DeleteParticipant, history, registry, IInv, NotYet, Unregistered, At
  <1>5. Stages'
    BY <1>1 DEF DeleteParticipant, registry, IInv, Stages, At
  <1>. QED  BY <1>2, <1>3, <1>4, <1>5 DEF IInv

-----------------------------------------------------------------------------
(* onTerminate.                                                            *)

\* no_callbacks is set.
LEMMA StartTerminationStep ==
    ASSUME IInv, StartTermination
    PROVE  IInv'
  <1>1. main' = [stage |-> "terminate"]
    BY DEF StartTermination
  <1>2. Fields'
    BY <1>1 DEF StartTermination, history, world, IInv, Fields
  <1>3. Subjects'
    BY DEF StartTermination, world, IInv, Subjects
  <1>4. NotYet'
    BY <1>1 DEF StartTermination, history, IInv, NotYet, Unregistered, At
  <1>5. Stages'
    BY <1>1 DEF StartTermination, IInv, Stages, At
  <1>. QED  BY <1>2, <1>3, <1>4, <1>5 DEF IInv

\* A participant loses its listener.
LEMMA TerminateDetachStep ==
    ASSUME IInv, NEW p \in Managed, TerminateDetach(p)
    PROVE  IInv'
  <1>1. main' = [stage |-> "destroy", who |-> p]
    BY DEF TerminateDetach, GoTo
  <1>2. Fields'
    BY <1>1 DEF TerminateDetach, history, registry, IInv, Fields
  <1>3. Subjects'
    BY DEF TerminateDetach, IInv, Subjects
  <1>4. NotYet'
    BY <1>1 DEF TerminateDetach, history, registry, IInv, NotYet, Unregistered, At
  <1>5. Stages'
    BY <1>1 DEF TerminateDetach, registry, IInv, Stages, At
  <1>. QED  BY <1>2, <1>3, <1>4, <1>5 DEF IInv

\* A participant is deleted and stays in its map.
LEMMA TerminateDeleteStep ==
    ASSUME IInv, TerminateDelete
    PROVE  IInv'
  <1>1. main' = [stage |-> "terminate"]
    BY DEF TerminateDelete
  <1>2. Fields'
    BY <1>1 DEF TerminateDelete, history, registry, IInv, Fields
  <1>3. Subjects'
    BY DEF TerminateDelete, IInv, Subjects
  <1>4. NotYet'
    BY <1>1 DEF TerminateDelete, history, registry, IInv, NotYet, Unregistered, At
  <1>5. Stages'
    BY <1>1 DEF TerminateDelete, registry, IInv, Stages, At
  <1>. QED  BY <1>2, <1>3, <1>4, <1>5 DEF IInv

\* The maps are cleared.
LEMMA FinishTerminationStep ==
    ASSUME IInv, FinishTermination
    PROVE  IInv'
  <1>1. main' = [stage |-> "done"]
    BY DEF FinishTermination
  <1>2. Fields'
    BY <1>1 DEF FinishTermination, history, world, IInv, Fields
  <1>3. Subjects'
    BY DEF FinishTermination, world, IInv, Subjects
  <1>4. NotYet'
    BY <1>1 DEF FinishTermination, history, IInv, NotYet, Unregistered, At
  <1>5. Stages'
    BY <1>1 DEF FinishTermination, world, IInv, Stages, At
  <1>. QED  BY <1>2, <1>3, <1>4, <1>5 DEF IInv

-----------------------------------------------------------------------------
(* The callbacks: the event thread does not move meanwhile.                *)

\* A step that leaves the maps and the event thread alone leaves its stages alone.
LEMMA SameThread ==
    ASSUME IInv, UNCHANGED <<registry, existing, main>>
    PROVE  /\ Stages'
           /\ \A s \in Managed : Unregistered(s)' <=> Unregistered(s)
  BY DEF IInv, Stages, At, Unregistered, registry

\* Fast DDS starts a callback.
LEMMA DeliverStep ==
    ASSUME IInv, NEW s \in Managed, NEW report \in ReportType,
           report.stage = "origin",
           report.about = "participant" => report.who \in Participant \ {s},
           report.about = "endpoint" => report.who \in Endpoint,
           Deliver(s, report)
    PROVE  IInv'
  <1>1. /\ seen' = [seen EXCEPT ![s] = Heard(seen[s], report)]
        /\ callback' = [callback EXCEPT ![s] = report]
        /\ UNCHANGED <<image, existing, listening, registry, locked, main, history>>
    BY DEF Deliver
  <1>2. /\ Heard(seen[s], report) \in Knowledge
        /\ s \notin Heard(seen[s], report).participants
    <2>1. seen[s] \in Knowledge /\ s \notin seen[s].participants
      BY DEF IInv, Fields, Subjects
    <2>2. report.about = "participant" => report.who \in Participant /\ report.who # s
      OBVIOUS
    <2>3. /\ Heard(seen[s], report) \in Knowledge
          /\ report.about = "participant" =>
                Heard(seen[s], report).participants =
                    IF report.found THEN seen[s].participants \cup {report.who}
                    ELSE seen[s].participants \ {report.who}
          /\ report.about = "endpoint" =>
                Heard(seen[s], report).participants = seen[s].participants
      BY <2>1, <2>2, HeardFacts
    <2>. QED  BY <2>1, <2>2, <2>3 DEF ReportType
  <1>3. Fields'
    BY <1>1, <1>2 DEF IInv, Fields, registry, history
  <1>4. Subjects'
    BY <1>1, <1>2 DEF IInv, Fields, Subjects
  <1>5. NotYet'
    BY <1>1, SameThread DEF IInv, Fields, NotYet, registry, history
  <1>. QED  BY <1>1, <1>3, <1>4, <1>5, SameThread DEF IInv

\* Callbacks about participants and about endpoints start.
LEMMA DeliverySteps ==
    ASSUME IInv, NEW s \in Managed,
           \/ \E p \in Participant : DeliverParticipant(s, p)
           \/ \E e \in Endpoint : DeliverEndpoint(s, e)
    PROVE  IInv'
  <1>1. ASSUME NEW p \in Participant, DeliverParticipant(s, p) PROVE IInv'
    <2>1. p # s
      BY <1>1 DEF DeliverParticipant, IInv, Subjects
    <2>2. ASSUME NEW found \in BOOLEAN
          PROVE  /\ Report("participant", p, found) \in ReportType
                 /\ Report("participant", p, found).stage = "origin"
                 /\ Report("participant", p, found).about = "participant"
                 /\ Report("participant", p, found).who = p
      BY DEF Report, ReportType
    <2>. QED  BY <1>1, <2>1, <2>2, DeliverStep DEF DeliverParticipant
  <1>2. ASSUME NEW e \in Endpoint, DeliverEndpoint(s, e) PROVE IInv'
    <2>1. ASSUME NEW found \in BOOLEAN
          PROVE  /\ Report("endpoint", e, found) \in ReportType
                 /\ Report("endpoint", e, found).stage = "origin"
                 /\ Report("endpoint", e, found).about = "endpoint"
                 /\ Report("endpoint", e, found).who = e
      BY DEF Report, ReportType
    <2>. QED  BY <1>2, <2>1, DeliverStep DEF DeliverEndpoint
  <1>. QED  BY <1>1, <1>2

\* A step of the callback of s that changes none of the maps, and the database of s
\* at most.
LEMMA CallbackMoves ==
    ASSUME IInv, NEW s \in Managed, NEW report \in ReportType \cup {Idle},
           callback' = [callback EXCEPT ![s] = report],
           report.stage # "idle" => /\ callback[s].stage # "idle"
                                    /\ report.about = callback[s].about
                                    /\ report.who = callback[s].who,
           Unregistered(s) => report.stage \in {"idle", "origin"},
           DOMAIN image' \subseteq DOMAIN image \cup {s},
           Unregistered(s) => s \notin DOMAIN image',
           told' \in [Managed -> Knowledge],
           \A t \in Managed : Unregistered(t) => told'[t] = told[t],
           ignored' \subseteq Managed, locked' \in BOOLEAN,
           UNCHANGED <<world, registry, main>>
    PROVE  IInv'
  <1>1. Fields'
    BY DEF IInv, Fields, world, registry
  <1>2. Subjects'
    BY DEF IInv, Fields, Subjects, world
  <1>3. Stages' /\ \A t \in Managed : Unregistered(t)' <=> Unregistered(t)
    BY SameThread DEF world
  <1>4. NotYet'
    BY <1>3 DEF IInv, Fields, NotYet, registry
  <1>. QED  BY <1>1, <1>2, <1>3, <1>4 DEF IInv

\* The origin of a callback is looked up.
LEMMA CheckOriginStep ==
    ASSUME IInv, NEW s \in Managed, CheckOrigin(s)
    PROVE  IInv'
  <1>1. callback[s] \in ReportType
    BY Running DEF CheckOrigin, IInv
  <1>2. CASE IsKnown(s)
    <2> DEFINE report == [callback[s] EXCEPT !.stage = "update"]
    <2>1. /\ report \in ReportType /\ report.stage = "update"
          /\ report.about = callback[s].about /\ report.who = callback[s].who
      BY <1>1 DEF ReportType
    <2>2. callback' = [callback EXCEPT ![s] = report]
      BY <1>2 DEF CheckOrigin
    <2>3. ~Unregistered(s)
      BY <1>2 DEF IsKnown, IInv, NotYet
    <2>4. ignored' \subseteq Managed /\ locked' \in BOOLEAN /\ told' \in [Managed -> Knowledge]
      BY <1>2 DEF CheckOrigin, IInv, Fields
    <2> HIDE DEF report
    <2>. QED  BY <2>1, <2>2, <2>3, <2>4, CallbackMoves DEF CheckOrigin
  <1>3. CASE ~IsKnown(s)
    <2>1. callback' = [callback EXCEPT ![s] = Idle] /\ Idle.stage = "idle"
      BY <1>3 DEF CheckOrigin, Idle
    <2>2. ignored' \subseteq Managed /\ locked' \in BOOLEAN /\ told' \in [Managed -> Knowledge]
      BY <1>3 DEF CheckOrigin, IInv, Fields
    <2>3. Unregistered(s) => s \notin DOMAIN image
      BY DEF IInv, NotYet
    <2>. QED  BY <2>1, <2>2, <2>3, CallbackMoves DEF CheckOrigin
  <1>. QED  BY <1>2, <1>3

\* The part of a callback under management_mutex.
LEMMA UpdateUnderLockStep ==
    ASSUME IInv, NEW s \in Managed, UpdateUnderLock(s)
    PROVE  IInv'
  <1>1. callback[s] \in ReportType /\ ~Unregistered(s)
    BY Running DEF UpdateUnderLock, IInv, NotYet
  <1>2. locked' \in BOOLEAN /\ ignored' \subseteq Managed /\ told' \in [Managed -> Knowledge]
    BY DEF UpdateUnderLock, history, IInv, Fields
  <1>3. PICK stage \in {"apply", "names"}, server \in BOOLEAN, items \in SUBSET Managed :
            callback' = [callback EXCEPT ![s].stage = stage, ![s].server = server,
                                         ![s].items = items]
    <2>1. CASE callback[s].about = "participant"
      <3> DEFINE isServer == callback[s].who \in Searched(members \cap Server)
      <3>1. callback' = [callback EXCEPT ![s].stage = "apply",
                  ![s].server = isServer, ![s].items = callback[s].items]
        BY <1>1, <2>1 DEF UpdateUnderLock, ReportType, IInv, Fields
      <3>2. isServer \in BOOLEAN
        OBVIOUS
      <3> HIDE DEF isServer
      <3>. QED  BY <1>1, <3>1, <3>2 DEF ReportType
    <2>2. CASE callback[s].about = "endpoint" /\ ~noCallbacks
      <3>1. callback' = [callback EXCEPT ![s].stage = "apply",
                  ![s].server = callback[s].server, ![s].items = callback[s].items]
        BY <1>1, <2>2 DEF UpdateUnderLock, ReportType, IInv, Fields
      <3>. QED  BY <1>1, <3>1 DEF ReportType
    <2>3. CASE callback[s].about = "endpoint" /\ noCallbacks
      <3> DEFINE found == {t \in DOMAIN image : Owner[callback[s].who] \in DOMAIN image[t]}
      <3>1. found \in SUBSET Managed
        BY DEF IInv, Fields
      <3>2. callback' = [callback EXCEPT ![s].stage = "names",
                  ![s].server = callback[s].server, ![s].items = found]
        BY <1>1, <2>3 DEF UpdateUnderLock, ReportType, IInv, Fields
      <3> HIDE DEF found
      <3>. QED  BY <1>1, <3>1, <3>2 DEF ReportType
    <2>. QED  BY <1>1, <2>1, <2>2, <2>3 DEF UpdateUnderLock
  <1> DEFINE report == [callback[s] EXCEPT !.stage = stage, !.server = server, !.items = items]
  <1>4. /\ report \in ReportType /\ report.stage = stage
        /\ report.about = callback[s].about /\ report.who = callback[s].who
    BY <1>1 DEF ReportType
  <1>5. callback' = [callback EXCEPT ![s] = report]
    BY <1>3 DEF IInv, Fields
  <1>6. /\ callback[s].stage # "idle"
        /\ UNCHANGED <<image, world, registry, main, told>>
    BY DEF UpdateUnderLock, history
  <1> HIDE DEF report
  <1>. QED  BY <1>1, <1>2, <1>4, <1>5, <1>6, CallbackMoves

\* The names of the participant are read from the database.
LEMMA ReadNamesStep ==
    ASSUME IInv, NEW s \in Managed, ReadNames(s)
    PROVE  IInv'
  <1>1. callback[s] \in ReportType /\ ~Unregistered(s)
    BY Running DEF ReadNames, IInv, NotYet
  <1> DEFINE report == [callback[s] EXCEPT !.stage = "apply", !.items = {}]
  <1>2. /\ report \in ReportType /\ report.stage = "apply"
        /\ report.about = callback[s].about /\ report.who = callback[s].who
    BY <1>1 DEF ReportType
  <1>3. callback' = [callback EXCEPT ![s] = report]
    BY DEF ReadNames, IInv, Fields
  <1>4. /\ callback[s].stage # "idle"
        /\ locked' \in BOOLEAN /\ ignored' \subseteq Managed /\ told' \in [Managed -> Knowledge]
        /\ UNCHANGED <<image, world, registry, main, told>>
    BY DEF ReadNames, history, IInv, Fields
  <1> HIDE DEF report
  <1>. QED  BY <1>1, <1>2, <1>3, <1>4, CallbackMoves

\* The database of the reporter is the only one an update creates.
LEMMA UpdateDomain ==
    ASSUME NEW s, NEW report, UpdateDatabase(s, report)
    PROVE  DOMAIN image' \subseteq DOMAIN image \cup {s}
  BY DEF UpdateDatabase, AddParticipant, RemoveParticipant, AddEndPoint, RemoveEndPoint, Put

\* A callback updates the database and ends.
LEMMA ApplyReportStep ==
    ASSUME IInv, NEW s \in Managed, ApplyReport(s)
    PROVE  IInv'
  <1>1. callback[s] \in ReportType /\ ~Unregistered(s)
    BY Running DEF ApplyReport, IInv, NotYet
  <1>2. told' = [told EXCEPT ![s] = Heard(told[s], callback[s])]
    BY DEF ApplyReport
  <1>3. Heard(told[s], callback[s]) \in Knowledge
    BY <1>1, HeardFacts DEF ApplyReport, IInv, Fields, Subjects
  <1>4. told' \in [Managed -> Knowledge] /\ \A t \in Managed : t # s => told'[t] = told[t]
    BY <1>2, <1>3 DEF IInv, Fields
  <1>5. callback' = [callback EXCEPT ![s] = Idle] /\ Idle.stage = "idle"
    BY DEF ApplyReport, Idle
  <1>6. DOMAIN image' \subseteq DOMAIN image \cup {s}
    BY UpdateDomain DEF ApplyReport
  <1>7. /\ locked' \in BOOLEAN /\ ignored' \subseteq Managed
        /\ UNCHANGED <<world, registry, main>>
    BY DEF ApplyReport, IInv, Fields
  <1>. QED  BY <1>1, <1>4, <1>5, <1>6, <1>7, CallbackMoves

\* on_liveliness_changed.
LEMMA LivelinessStep ==
    ASSUME IInv, NEW r \in Reader, NEW matched \in BOOLEAN, LivelinessChanged(r, matched)
    PROVE  IInv'
  <1>1. DOMAIN image' = DOMAIN image
    BY DEF LivelinessChanged, UpdateSubLiveliness, Holds, Put
  <1>2. UNCHANGED <<world, registry, locked, main, callback, history>>
    BY DEF LivelinessChanged
  <1>3. Fields' /\ Subjects'
    BY <1>1, <1>2 DEF IInv, Fields, Subjects, world, registry, history
  <1>4. Stages' /\ \A s \in Managed : Unregistered(s)' <=> Unregistered(s)
    BY <1>2, SameThread DEF world
  <1>5. NotYet'
    BY <1>1, <1>2, <1>4 DEF IInv, NotYet, registry, history
  <1>. QED  BY <1>3, <1>4, <1>5 DEF IInv

\* Every step preserves the invariant.
LEMMA NextInv == IInv /\ [Next]_vars => IInv'
  <1> SUFFICES ASSUME IInv, [Next]_vars PROVE IInv'
    OBVIOUS
  <1>1. CASE UNCHANGED vars
    BY <1>1 DEF vars, world, registry, history, IInv, Fields, Subjects, NotYet, Stages,
                Unregistered, At
  <1>2. ASSUME NEW p \in Managed, CreateParticipant(p) \/ UnregisterParticipant(p) PROVE IInv'
    BY <1>2, CreateStep, UnregisterStep
  <1>3. CASE EventStep
    BY <1>3, RegisterStep, InformStep, DetachStep, DeleteStep DEF EventStep
  <1>4. CASE StartTermination \/ TerminationStep
    BY <1>4, StartTerminationStep, TerminateDetachStep, TerminateDeleteStep,
       FinishTerminationStep DEF TerminationStep
  <1>5. ASSUME NEW s \in Managed,
               \/ \E p \in Participant : DeliverParticipant(s, p)
               \/ \E e \in Endpoint : DeliverEndpoint(s, e)
        PROVE  IInv'
    BY <1>5, DeliverySteps
  <1>6. ASSUME NEW s \in Managed, CallbackStep(s) PROVE IInv'
    BY <1>6, CheckOriginStep, UpdateUnderLockStep, ReadNamesStep, ApplyReportStep
       DEF CallbackStep
  <1>7. ASSUME NEW r \in Reader, NEW matched \in BOOLEAN, LivelinessChanged(r, matched)
        PROVE  IInv'
    BY <1>7, LivelinessStep
  <1>8. CASE Done
    BY <1>1, <1>8 DEF Done
  <1>. QED  BY <1>1, <1>2, <1>3, <1>4, <1>5, <1>6, <1>7, <1>8 DEF Next

\* The inductive invariant, for every number of participants and callbacks: what stage
\* the event thread is in says who is registered, and a callback that passed the
\* origin check belongs to a participant that was registered.
THEOREM InvariantHolds == Spec => []IInv
  BY InitInv, NextInv, PTL DEF Spec

\* For every number of participants and callbacks: a callback of a participant that
\* addServer, addClient or addSimple has not registered never reaches the database.
THEOREM OnlyRegisteredEverReport == Spec => []OnlyRegisteredReport
  <1>1. IInv => OnlyRegisteredReport
    BY DEF IInv, Fields, NotYet, OnlyRegisteredReport
  <1>. QED  BY <1>1, InvariantHolds, PTL

\* For every interleaving of the event thread, onTerminate and the callbacks, what a
\* callback finds in the maps still exists.
THEOREM DereferencesAreSafe == Spec => []SafeDereference
  <1>1. IInv => SafeDereference
    BY DEF IInv, Stages, SafeDereference, Dereferenced, Searched
  <1>. QED  BY <1>1, InvariantHolds, PTL

-----------------------------------------------------------------------------
(***************************************************************************)
(* The threads implement reports in some order.  What each report takes    *)
(* for granted, that a participant is not reported to itself, is Subjects. *)
(***************************************************************************)

\* What Abstract says of an operation of the database is that operation.
LEMMA SameOperations ==
    ASSUME NEW s, NEW who, NEW flag
    PROVE  /\ Abstract!AddParticipant(s, who, flag) <=> AddParticipant(s, who, flag)
           /\ Abstract!RemoveParticipant(s, who) <=> RemoveParticipant(s, who)
           /\ Abstract!AddEndPoint(s, who) <=> AddEndPoint(s, who)
           /\ Abstract!RemoveEndPoint(s, who) <=> RemoveEndPoint(s, who)
           /\ Abstract!RemoveReporter(s) <=> RemoveReporter(s)
           /\ Abstract!UpdateSubLiveliness(who, flag) <=> UpdateSubLiveliness(who, flag)
  BY DEF AddParticipant, Abstract!AddParticipant, RemoveParticipant, Abstract!RemoveParticipant,
         AddEndPoint, Abstract!AddEndPoint, RemoveEndPoint, Abstract!RemoveEndPoint,
         UpdateSubLiveliness, Abstract!UpdateSubLiveliness, RemoveReporter,
         Abstract!RemoveReporter, WithParticipant, Abstract!WithParticipant, WithoutParticipant,
         Abstract!WithoutParticipant, WithEndpoint, Abstract!WithEndpoint, WithoutEndpoint,
         Abstract!WithoutEndpoint, WithLiveliness, Abstract!WithLiveliness, Put, Abstract!Put,
         Erase, Abstract!Erase, DatabaseOf, Abstract!DatabaseOf, EmptyDatabase,
         Abstract!EmptyDatabase, NewItem, Abstract!NewItem, Acknowledged, Abstract!Acknowledged,
         ItemWith, Abstract!ItemWith, ItemWithout, Abstract!ItemWithout, Holds, Abstract!Holds,
         EntryOrNew, Abstract!EntryOrNew, Receiver, Abstract!Receiver, ReceiverItem,
         Abstract!ReceiverItem, EmplacesOwner, Abstract!EmplacesOwner, LowerBound,
         Abstract!LowerBound, NotBefore, Abstract!NotBefore

\* Only the history of the reporter changes.
LEMMA HistoryOfOne ==
    ASSUME Fields, NEW s \in Managed, NEW known \in Knowledge,
           told' = [told EXCEPT ![s] = known]
    PROVE  /\ known.participants = told[s].participants =>
                  knownParticipants' = knownParticipants
           /\ known.endpoints = told[s].endpoints => knownEndpoints' = knownEndpoints
           /\ \A p \in Participant :
                 /\ known.participants = told[s].participants \cup {p} =>
                       knownParticipants' = knownParticipants \cup {<<s, p>>}
                 /\ known.participants = told[s].participants \ {p} =>
                       knownParticipants' = knownParticipants \ {<<s, p>>}
           /\ \A e \in Endpoint :
                 /\ known.endpoints = told[s].endpoints \cup {e} =>
                       knownEndpoints' = knownEndpoints \cup {<<s, e>>}
                 /\ known.endpoints = told[s].endpoints \ {e} =>
                       knownEndpoints' = knownEndpoints \ {<<s, e>>}
           /\ known = NothingSeen =>
                 /\ knownParticipants' = {k \in knownParticipants : k[1] # s}
                 /\ knownEndpoints' = {k \in knownEndpoints : k[1] # s}
  <1>1. /\ told'[s] = known
        /\ \A t \in Managed : t # s => told'[t] = told[t]
    BY DEF Fields
  <1>2. ASSUME known.participants = told[s].participants
        PROVE  knownParticipants' = knownParticipants
    BY <1>1, <1>2 DEF knownParticipants
  <1>3. ASSUME known.endpoints = told[s].endpoints
        PROVE  knownEndpoints' = knownEndpoints
    BY <1>1, <1>3 DEF knownEndpoints
  <1>4. ASSUME NEW p \in Participant, known.participants = told[s].participants \cup {p}
        PROVE  knownParticipants' = knownParticipants \cup {<<s, p>>}
    BY <1>1, <1>4 DEF knownParticipants
  <1>5. ASSUME NEW p \in Participant, known.participants = told[s].participants \ {p}
        PROVE  knownParticipants' = knownParticipants \ {<<s, p>>}
    BY <1>1, <1>5 DEF knownParticipants
  <1>6. ASSUME NEW e \in Endpoint, known.endpoints = told[s].endpoints \cup {e}
        PROVE  knownEndpoints' = knownEndpoints \cup {<<s, e>>}
    BY <1>1, <1>6 DEF knownEndpoints
  <1>7. ASSUME NEW e \in Endpoint, known.endpoints = told[s].endpoints \ {e}
        PROVE  knownEndpoints' = knownEndpoints \ {<<s, e>>}
    BY <1>1, <1>7 DEF knownEndpoints
  <1>8. ASSUME known = NothingSeen
        PROVE  /\ knownParticipants' = {k \in knownParticipants : k[1] # s}
               /\ knownEndpoints' = {k \in knownEndpoints : k[1] # s}
    BY <1>1, <1>8 DEF knownParticipants, knownEndpoints, NothingSeen
  <1>. QED  BY <1>2, <1>3, <1>4, <1>5, <1>6, <1>7, <1>8

\* A callback that ends is one report.
LEMMA ApplyIsAReport ==
    ASSUME IInv, NEW s \in Managed, ApplyReport(s)
    PROVE  Abstract!AnyOrderNext
  <1> DEFINE report == callback[s]
             known == Heard(told[s], report)
  <1>1. /\ report \in ReportType
        /\ report.about = "participant" => report.who \in Participant /\ report.who # s
        /\ report.about = "endpoint" => report.who \in Endpoint
    BY Running DEF ApplyReport, IInv, Subjects
  <1>2. told' = [told EXCEPT ![s] = known] /\ UpdateDatabase(s, report)
    BY DEF ApplyReport
  <1>3. told[s] \in Knowledge
    BY DEF IInv, Fields
  <1>4. /\ known \in Knowledge
        /\ report.about = "participant" =>
              /\ known.endpoints = told[s].endpoints
              /\ known.participants = IF report.found THEN told[s].participants \cup {report.who}
                                      ELSE told[s].participants \ {report.who}
        /\ report.about = "endpoint" =>
              /\ known.participants = told[s].participants
              /\ known.endpoints = IF report.found THEN told[s].endpoints \cup {report.who}
                                   ELSE told[s].endpoints \ {report.who}
    BY <1>1, <1>3, HeardFacts
  <1>5. Fields
    BY DEF IInv
  <1> HIDE DEF report, known
  <1>6. report.about \in {"participant", "endpoint"} /\ report.found \in BOOLEAN
        /\ report.server \in BOOLEAN
    BY <1>1 DEF ReportType
  <1>7. CASE report.about = "participant" /\ report.found
    <2>1. AddParticipant(s, report.who, report.server)
      BY <1>2, <1>7 DEF UpdateDatabase
    <2>2. /\ knownParticipants' = knownParticipants \cup {<<s, report.who>>}
          /\ knownEndpoints' = knownEndpoints
      BY <1>1, <1>2, <1>4, <1>5, <1>7, HistoryOfOne
    <2>3. Abstract!ParticipantDiscovered(s, report.who, report.server)
      BY <1>1, <1>7, <2>1, <2>2, SameOperations DEF Abstract!ParticipantDiscovered
    <2>. QED  BY <1>1, <1>6, <1>7, <2>3
                 DEF Abstract!AnyOrderNext, Abstract!OtherReport, Abstract!ParticipantReport
  <1>8. CASE report.about = "participant" /\ ~report.found
    <2>1. RemoveParticipant(s, report.who)
      BY <1>2, <1>8 DEF UpdateDatabase
    <2>2. /\ knownParticipants' = knownParticipants \ {<<s, report.who>>}
          /\ knownEndpoints' = knownEndpoints
      BY <1>1, <1>2, <1>4, <1>5, <1>8, HistoryOfOne
    <2>3. Abstract!ParticipantLost(s, report.who)
      BY <1>1, <1>8, <2>1, <2>2, SameOperations DEF Abstract!ParticipantLost
    <2>. QED  BY <1>1, <1>8, <2>3
                 DEF Abstract!AnyOrderNext, Abstract!OtherReport, Abstract!ParticipantReport
  <1>9. CASE report.about = "endpoint" /\ report.found
    <2>1. AddEndPoint(s, report.who)
      BY <1>2, <1>9 DEF UpdateDatabase
    <2>2. /\ knownEndpoints' = knownEndpoints \cup {<<s, report.who>>}
          /\ knownParticipants' = knownParticipants
      BY <1>1, <1>2, <1>4, <1>5, <1>9, HistoryOfOne
    <2>3. Abstract!EndpointDiscovered(s, report.who)
      BY <2>1, <2>2, SameOperations DEF Abstract!EndpointDiscovered
    <2>. QED  BY <1>1, <1>9, <2>3 DEF Abstract!AnyOrderNext
  <1>10. CASE report.about = "endpoint" /\ ~report.found
    <2>1. RemoveEndPoint(s, report.who)
      BY <1>2, <1>10 DEF UpdateDatabase
    <2>2. /\ knownEndpoints' = knownEndpoints \ {<<s, report.who>>}
          /\ knownParticipants' = knownParticipants
      BY <1>1, <1>2, <1>4, <1>5, <1>10, HistoryOfOne
    <2>3. Abstract!EndpointLost(s, report.who)
      BY <2>1, <2>2, SameOperations DEF Abstract!EndpointLost
    <2>. QED  BY <1>1, <1>10, <2>3 DEF Abstract!AnyOrderNext, Abstract!OtherReport
  <1>. QED  BY <1>6, <1>7, <1>8, <1>9, <1>10

\* removeParticipant is one report, too.
LEMMA UnregisterIsAReport ==
    ASSUME IInv, NEW p \in Managed, UnregisterParticipant(p)
    PROVE  Abstract!AnyOrderNext
  <1>1. told' = [told EXCEPT ![p] = NothingSeen] /\ RemoveReporter(p)
    BY DEF UnregisterParticipant
  <1>2. NothingSeen \in Knowledge /\ Fields
    BY DEF NothingSeen, Knowledge, IInv
  <1>3. /\ knownParticipants' = {k \in knownParticipants : k[1] # p}
        /\ knownEndpoints' = {k \in knownEndpoints : k[1] # p}
    BY <1>1, <1>2, HistoryOfOne
  <1>4. Abstract!ReporterRemoved(p)
    BY <1>1, <1>3, SameOperations DEF Abstract!ReporterRemoved
  <1>. QED  BY <1>4 DEF Abstract!AnyOrderNext, Abstract!OtherReport

\* on_liveliness_changed is one report.
LEMMA LivelinessIsAReport ==
    ASSUME IInv, NEW r \in Reader, NEW matched \in BOOLEAN, LivelinessChanged(r, matched)
    PROVE  Abstract!AnyOrderNext
  <1>1. Owner[r] \in Managed /\ told' = told /\ UpdateSubLiveliness(r, matched)
    BY DEF LivelinessChanged, history, IInv, Fields
  <1>2. Abstract!LivelinessChanged(r, matched)
    BY <1>1, SameOperations
       DEF Abstract!LivelinessChanged, knownParticipants, knownEndpoints
  <1>. QED  BY <1>1, <1>2 DEF Abstract!AnyOrderNext, Abstract!OtherReport

\* Every other step leaves the database and its history alone.
LEMMA OtherStepsAreNone ==
    ASSUME UNCHANGED <<image, told>>
    PROVE  UNCHANGED Abstract!vars
  BY DEF Abstract!vars, knownParticipants, knownEndpoints

\* Every step is one report or none.
LEMMA StepsAreReports ==
    ASSUME IInv, [Next]_vars
    PROVE  [Abstract!AnyOrderNext]_Abstract!vars
  <1>1. ASSUME UNCHANGED <<image, told>> PROVE UNCHANGED Abstract!vars
    BY <1>1, OtherStepsAreNone
  <1>2. CASE UNCHANGED vars \/ Done
    BY <1>1, <1>2 DEF vars, history, Done
  <1>3. ASSUME NEW p \in Managed, CreateParticipant(p) \/ UnregisterParticipant(p)
        PROVE  [Abstract!AnyOrderNext]_Abstract!vars
    BY <1>1, <1>3, UnregisterIsAReport DEF CreateParticipant, history
  <1>4. CASE EventStep
    BY <1>1, <1>4 DEF EventStep, RegisterParticipant, SetParticipantInfo, DetachParticipant,
                      DeleteParticipant, history
  <1>5. CASE StartTermination \/ TerminationStep
    BY <1>1, <1>5 DEF TerminationStep, StartTermination, TerminateDetach, TerminateDelete,
                      FinishTermination, history
  <1>6. ASSUME NEW s \in Managed,
               \/ \E p \in Participant : DeliverParticipant(s, p)
               \/ \E e \in Endpoint : DeliverEndpoint(s, e)
        PROVE  UNCHANGED Abstract!vars
    BY <1>1, <1>6 DEF DeliverParticipant, DeliverEndpoint, Deliver, history
  <1>7. ASSUME NEW s \in Managed, CallbackStep(s)
        PROVE  [Abstract!AnyOrderNext]_Abstract!vars
    BY <1>1, <1>7, ApplyIsAReport
       DEF CallbackStep, CheckOrigin, UpdateUnderLock, ReadNames, history
  <1>8. ASSUME NEW r \in Reader, NEW matched \in BOOLEAN, LivelinessChanged(r, matched)
        PROVE  Abstract!AnyOrderNext
    BY <1>8, LivelinessIsAReport
  <1>. QED  BY <1>2, <1>3, <1>4, <1>5, <1>6, <1>7, <1>8 DEF Next

\* Refinement, for every instance: the manager with its threads, locks and callbacks
\* implements the database under reports that arrive one by one, in some order.
THEOREM ManagerImplementsReports == Spec => ImplementsReports
  <1>1. Init => Abstract!Init
    BY DEF Init, Abstract!Init, knownParticipants, knownEndpoints, NothingSeen,
           EmptyDatabase, Abstract!EmptyDatabase, NewItem, Abstract!NewItem
  <1>2. IInv /\ [Next]_vars => [Abstract!AnyOrderNext]_Abstract!vars
    BY StepsAreReports
  <1>. QED  BY <1>1, <1>2, InvariantHolds, PTL
               DEF Spec, ImplementsReports, Abstract!AnyOrderSpec

-----------------------------------------------------------------------------
(* What is proved of the database under reports in any order holds of the  *)
(* database of the manager.                                                *)

Proved == INSTANCE DiscoveryReportsProofs WITH Reporter <- Managed

\* The specification proved about is the one implemented.
LEMMA SameReports ==
    /\ Proved!Init <=> Abstract!Init
    /\ [Proved!AnyOrderNext]_Proved!vars <=> [Abstract!AnyOrderNext]_Abstract!vars
  <1>1. Proved!Init <=> Abstract!Init
    BY DEF Proved!Init, Abstract!Init, Proved!EmptyDatabase, Abstract!EmptyDatabase,
           Proved!NewItem, Abstract!NewItem
  <1>2. Proved!AnyOrderNext <=> Abstract!AnyOrderNext
    BY DEF Proved!AnyOrderNext, Abstract!AnyOrderNext, Proved!OtherReport, Abstract!OtherReport,
           Proved!ParticipantReport, Abstract!ParticipantReport, Proved!ParticipantDiscovered,
           Abstract!ParticipantDiscovered, Proved!ParticipantLost, Abstract!ParticipantLost,
           Proved!EndpointDiscovered, Abstract!EndpointDiscovered, Proved!EndpointLost,
           Abstract!EndpointLost, Proved!LivelinessChanged, Abstract!LivelinessChanged,
           Proved!ReporterRemoved, Abstract!ReporterRemoved, Proved!AddParticipant,
           Abstract!AddParticipant, Proved!RemoveParticipant, Abstract!RemoveParticipant,
           Proved!AddEndPoint, Abstract!AddEndPoint, Proved!RemoveEndPoint,
           Abstract!RemoveEndPoint, Proved!UpdateSubLiveliness, Abstract!UpdateSubLiveliness,
           Proved!RemoveReporter, Abstract!RemoveReporter, Proved!WithParticipant,
           Abstract!WithParticipant, Proved!WithoutParticipant, Abstract!WithoutParticipant,
           Proved!WithEndpoint, Abstract!WithEndpoint, Proved!WithoutEndpoint,
           Abstract!WithoutEndpoint, Proved!WithLiveliness, Abstract!WithLiveliness, Proved!Put,
           Abstract!Put, Proved!Erase, Abstract!Erase, Proved!DatabaseOf, Abstract!DatabaseOf,
           Proved!EmptyDatabase, Abstract!EmptyDatabase, Proved!NewItem, Abstract!NewItem,
           Proved!Acknowledged, Abstract!Acknowledged, Proved!ItemWith, Abstract!ItemWith,
           Proved!ItemWithout, Abstract!ItemWithout, Proved!Holds, Abstract!Holds,
           Proved!EntryOrNew, Abstract!EntryOrNew, Proved!Receiver, Abstract!Receiver,
           Proved!ReceiverItem, Abstract!ReceiverItem, Proved!EmplacesOwner,
           Abstract!EmplacesOwner, Proved!LowerBound, Abstract!LowerBound, Proved!NotBefore,
           Abstract!NotBefore
  <1>3. Proved!vars = Abstract!vars /\ Proved!vars' = Abstract!vars'
    BY DEF Proved!vars, Abstract!vars
  <1>. QED  BY <1>1, <1>2, <1>3

\* The database of the manager is one under reports in some order.
LEMMA ReportsApply == Spec => Proved!AnyOrderSpec
  BY SameReports, ManagerImplementsReports, PTL
     DEF ImplementsReports, Abstract!AnyOrderSpec, Proved!AnyOrderSpec

\* Type correctness of the manager, for every instance: in particular no interleaving
\* gives a database an item that is not well formed.
THEOREM TypeCorrect == Spec => []TypeOK
  <1>1. Proved!AnyOrderSpec => []Proved!TypeOK
    BY Proved!TypeCorrectness, ManagedAssumption, ParticipantAssumption, EndpointAssumption, PTL
  <1>2. IInv /\ Proved!TypeOK => TypeOK
    <2> SUFFICES ASSUME IInv, Proved!TypeOK PROVE TypeOK
      OBVIOUS
    <2>1. \A s \in DOMAIN image : IsDatabase(image[s])
      BY DEF Proved!TypeOK, Proved!IsDatabase, IsDatabase, Proved!ParticipantItem, ParticipantItem
    <2>. QED  BY <2>1 DEF IInv, Fields, TypeOK
  <1>. QED  BY <1>1, <1>2, ReportsApply, InvariantHolds, PTL

-----------------------------------------------------------------------------
(***************************************************************************)
(* The assert of AddParticipant.  Fast DDS does not discover a participant *)
(* twice without losing it in between; that the database does not hear of  *)
(* it twice, although callbacks are ignored at times, is what Accounts     *)
(* says: a report is only ignored when there is nothing to take back, or   *)
(* when no other will follow.                                              *)
(***************************************************************************)
Listening ==
    \A s \in listening : \/ s \in members
                         \/ At("register") /\ main.who = s
                         \/ At("detach") /\ main.who = s /\ s \in entityMap

MapsAgree ==
    ~noCallbacks => \A s \in members : s \in entityMap \/ (At("inform") /\ main.who = s)

About(s, found) == /\ callback[s].stage # "idle"
                   /\ callback[s].about = "participant"
                   /\ callback[s].found = found

Account(s) ==
    /\ s \in listening \/ callback[s].stage # "idle" =>
          \A p \in told[s].participants :
              p \in seen[s].participants \/ (About(s, FALSE) /\ callback[s].who = p)
    /\ About(s, TRUE) => /\ callback[s].who \in seen[s].participants
                         /\ callback[s].who \notin told[s].participants

Accounts == \A s \in Managed : Account(s)

Ledger == Listening /\ MapsAgree /\ Accounts

\* Nothing has been told initially.
LEMMA LedgerInit == Init => Ledger
  BY DEF Init, Ledger, Listening, MapsAgree, Accounts, Account, About, Idle, NothingSeen

\* The event thread and onTerminate do not touch the callbacks.
LEMMA SameAccounts ==
    ASSUME Ledger, UNCHANGED <<callback, seen>>,
           \A s \in Managed : /\ told'[s] = told[s] \/ told'[s] = NothingSeen
                              /\ s \in listening' => s \in listening \/ told'[s] = NothingSeen
    PROVE  Accounts'
  <1> SUFFICES ASSUME NEW s \in Managed PROVE Account(s)'
    BY DEF Accounts
  <1>1. Account(s)
    BY DEF Ledger, Accounts
  <1>2. CASE told'[s] = NothingSeen
    <2>1. told'[s].participants = {}
      BY <1>2 DEF NothingSeen
    <2>2. callback'[s] = callback[s] /\ seen'[s] = seen[s]
      OBVIOUS
    <2>. QED  BY <1>1, <2>1, <2>2 DEF Account, About
  <1>3. CASE told'[s] = told[s] /\ (s \in listening' => s \in listening)
    <2>1. callback'[s] = callback[s] /\ seen'[s] = seen[s]
      OBVIOUS
    <2>. QED  BY <1>1, <1>3, <2>1 DEF Account, About
  <1>. QED  BY <1>2, <1>3

\* Outside creation and destruction, those who listen are registered.
LEMMA ListeningMembers ==
    ASSUME Ledger, main.stage # "register", main.stage # "detach"
    PROVE  listening \subseteq members
  BY DEF Ledger, Listening, At

\* The event thread and onTerminate keep the ledger.
LEMMA LedgerThread ==
    ASSUME IInv, Ledger,
           \/ \E p \in Managed : CreateParticipant(p) \/ UnregisterParticipant(p)
           \/ EventStep \/ StartTermination \/ TerminationStep
    PROVE  Ledger'
  <1>1. ASSUME NEW p \in Managed, CreateParticipant(p) PROVE Ledger'
    <2>1. main' = [stage |-> "register", who |-> p] /\ main.stage = "idle"
      BY <1>1 DEF CreateParticipant, GoTo, At
    <2>2. told[p] = NothingSeen
      BY <1>1 DEF CreateParticipant, IInv, NotYet, Unregistered
    <2>3. Accounts'
      BY <1>1, <2>2, SameAccounts DEF CreateParticipant, history
    <2>4. Listening'
      BY <1>1, <2>1, ListeningMembers DEF CreateParticipant, Ledger, Listening, At
    <2>5. MapsAgree'
      BY <1>1, <2>1 DEF CreateParticipant, Ledger, MapsAgree, At
    <2>. QED  BY <2>3, <2>4, <2>5 DEF Ledger
  <1>2. ASSUME NEW p \in Managed, UnregisterParticipant(p) PROVE Ledger'
    <2>1. main' = [stage |-> "detach", who |-> p] /\ main.stage = "idle"
      BY <1>2 DEF UnregisterParticipant, GoTo, At
    <2>2. \A s \in Managed : told'[s] = told[s] \/ told'[s] = NothingSeen
      BY <1>2 DEF UnregisterParticipant, IInv, Fields
    <2>3. Accounts'
      BY <1>2, <2>2, SameAccounts DEF UnregisterParticipant, world
    <2>4. Listening'
      BY <1>2, <2>1, ListeningMembers DEF UnregisterParticipant, world, Ledger, Listening, MapsAgree, At
    <2>5. MapsAgree'
      BY <1>2, <2>1 DEF UnregisterParticipant, Ledger, MapsAgree, At
    <2>. QED  BY <2>3, <2>4, <2>5 DEF Ledger
  <1>3. CASE RegisterParticipant
    <2>1. main' = [stage |-> "inform", who |-> main.who] /\ main.stage = "register"
      BY <1>3 DEF RegisterParticipant, GoTo, At
    <2>2. Accounts'
      BY <1>3, SameAccounts DEF RegisterParticipant, world, history
    <2>3. Listening' /\ MapsAgree'
      BY <1>3, <2>1 DEF RegisterParticipant, world, Ledger, Listening, MapsAgree, At
    <2>. QED  BY <2>2, <2>3 DEF Ledger
  <1>4. CASE SetParticipantInfo
    <2>1. main' = [stage |-> "idle"] /\ main.stage = "inform"
      BY <1>4 DEF SetParticipantInfo, Idle, At
    <2>2. Accounts'
      BY <1>4, SameAccounts DEF SetParticipantInfo, world, history
    <2>3. Listening' /\ MapsAgree'
      BY <1>4, <2>1, ListeningMembers DEF SetParticipantInfo, world, Ledger, Listening, MapsAgree, At
    <2>. QED  BY <2>2, <2>3 DEF Ledger
  <1>5. CASE DetachParticipant
    <2>1. main' = [stage |-> "delete", who |-> main.who] /\ main.stage = "detach"
      BY <1>5 DEF DetachParticipant, GoTo, At
    <2>2. Accounts'
      BY <1>5, SameAccounts DEF DetachParticipant, history
    <2>3. main.who \notin members
      BY <2>1 DEF IInv, Stages, At
    <2>4. Listening' /\ MapsAgree'
      BY <1>5, <2>1, <2>3 DEF DetachParticipant, Ledger, Listening, MapsAgree, At
    <2>. QED  BY <2>2, <2>4 DEF Ledger
  <1>6. CASE DeleteParticipant
    <2>1. main' = [stage |-> "idle"] /\ main.stage = "delete"
      BY <1>6 DEF DeleteParticipant, Idle, At
    <2>2. Accounts'
      BY <1>6, SameAccounts DEF DeleteParticipant, history
    <2>3. Listening' /\ MapsAgree'
      BY <1>6, <2>1, ListeningMembers DEF DeleteParticipant, registry, Ledger, Listening, MapsAgree, At
    <2>. QED  BY <2>2, <2>3 DEF Ledger
  <1>7. CASE StartTermination
    <2>1. main' = [stage |-> "terminate"] /\ main.stage = "idle"
      BY <1>7 DEF StartTermination, At
    <2>2. Accounts'
      BY <1>7, SameAccounts DEF StartTermination, world, history
    <2>3. Listening' /\ MapsAgree'
      BY <1>7, <2>1, ListeningMembers DEF StartTermination, world, Ledger, Listening, MapsAgree, At
    <2>. QED  BY <2>2, <2>3 DEF Ledger
  <1>8. CASE TerminationStep
    <2>1. /\ main.stage \in {"terminate", "destroy"} /\ noCallbacks /\ noCallbacks'
          /\ listening' \subseteq listening
          /\ UNCHANGED <<members, callback, seen, told>>
      BY <1>8 DEF TerminationStep, TerminateDetach, TerminateDelete, FinishTermination, At,
                  IInv, Stages, registry, world, history
    <2>2. Accounts'
      BY <2>1, SameAccounts
    <2>3. Listening' /\ MapsAgree'
      BY <2>1, ListeningMembers DEF Listening, MapsAgree
    <2>. QED  BY <2>2, <2>3 DEF Ledger
  <1>. QED  BY <1>1, <1>2, <1>3, <1>4, <1>5, <1>6, <1>7, <1>8 DEF EventStep

\* A step of the callback of s leaves the accounts of the others alone.
LEMMA OneAccount ==
    ASSUME IInv, Ledger, NEW s \in Managed, Account(s)',
           UNCHANGED <<registry, listening, main>>,
           \A t \in Managed : t # s => /\ callback'[t] = callback[t]
                                       /\ seen'[t] = seen[t] /\ told'[t] = told[t]
    PROVE  Ledger'
  <1>1. Listening' /\ MapsAgree'
    BY DEF Ledger, Listening, MapsAgree, At, registry
  <1>2. ASSUME NEW t \in Managed, t # s PROVE Account(t)'
    BY <1>2 DEF Ledger, Accounts, Account, About
  <1>. QED  BY <1>1, <1>2 DEF Ledger, Accounts

\* A callback that starts is entered as being told.
LEMMA LedgerDelivery ==
    ASSUME IInv, Ledger, NEW s \in Managed,
           \/ \E p \in Participant : DeliverParticipant(s, p)
           \/ \E e \in Endpoint : DeliverEndpoint(s, e)
    PROVE  Ledger'
  <1>0. seen[s] \in Knowledge /\ seen \in [Managed -> Knowledge]
        /\ callback \in [Managed -> ReportType \cup {Idle}]
    BY DEF IInv, Fields
  <1>1. ASSUME NEW report, Deliver(s, report), Account(s)' PROVE Ledger'
    <2>1. /\ \A t \in Managed : t # s => /\ callback'[t] = callback[t]
                                         /\ seen'[t] = seen[t] /\ told'[t] = told[t]
          /\ UNCHANGED <<registry, listening, main>>
      BY <1>0, <1>1 DEF Deliver, history
    <2>. QED  BY <1>1, <2>1, OneAccount
  <1>2. ASSUME NEW p \in Participant, DeliverParticipant(s, p) PROVE Ledger'
    <2>1. PICK found \in BOOLEAN : /\ Deliver(s, Report("participant", p, found))
                                   /\ found => p \notin seen[s].participants
      BY <1>2 DEF DeliverParticipant
    <2> DEFINE report == Report("participant", p, found)
    <2>2. /\ report \in ReportType /\ report.stage = "origin"
          /\ report.about = "participant" /\ report.who = p /\ report.found = found
      BY DEF Report, ReportType
    <2> HIDE DEF report
    <2>3. callback'[s] = report /\ seen'[s] = Heard(seen[s], report) /\ told' = told
      BY <1>0, <2>1 DEF Deliver, history, report
    <2>4. seen'[s].participants = IF found THEN seen[s].participants \cup {p}
                                  ELSE seen[s].participants \ {p}
      <3>1. /\ report.about = "participant" => report.who \in Participant
            /\ report.about = "endpoint" => report.who \in Endpoint
        BY <2>2
      <3>2. Heard(seen[s], report).participants =
                IF report.found THEN seen[s].participants \cup {report.who}
                ELSE seen[s].participants \ {report.who}
        BY <1>0, <2>2, <3>1, HeardFacts
      <3>. QED  BY <2>2, <2>3, <3>2
    <2>5. \A q \in told[s].participants : q \in seen[s].participants
      <3>1. s \in listening /\ callback[s].stage = "idle"
        BY <2>1 DEF Deliver, Idle
      <3>. QED  BY <3>1 DEF Ledger, Accounts, Account, About
    <2>6. Account(s)'
      BY <2>1, <2>2, <2>3, <2>4, <2>5 DEF Account, About
    <2>. QED  BY <1>1, <2>1, <2>6
  <1>3. ASSUME NEW e \in Endpoint, DeliverEndpoint(s, e) PROVE Ledger'
    <2>1. PICK found \in BOOLEAN : Deliver(s, Report("endpoint", e, found))
      BY <1>3 DEF DeliverEndpoint
    <2> DEFINE report == Report("endpoint", e, found)
    <2>2. report \in ReportType /\ report.about = "endpoint" /\ report.who = e
      BY DEF Report, ReportType
    <2> HIDE DEF report
    <2>3. callback'[s] = report /\ seen'[s] = Heard(seen[s], report) /\ told' = told
      BY <1>0, <2>1 DEF Deliver, history, report
    <2>4. seen'[s].participants = seen[s].participants
      BY <1>0, <2>2, <2>3, HeardFacts
    <2>5. \A q \in told[s].participants : q \in seen[s].participants
      <3>1. s \in listening /\ callback[s].stage = "idle"
        BY <2>1 DEF Deliver, Idle
      <3>. QED  BY <3>1 DEF Ledger, Accounts, Account, About
    <2>6. Account(s)'
      BY <2>2, <2>3, <2>4, <2>5 DEF Account, About
    <2>. QED  BY <1>1, <2>1, <2>6
  <1>. QED  BY <1>2, <1>3

\* A callback is ignored only if nothing was told before or nothing will be later.
LEMMA LedgerOrigin ==
    ASSUME IInv, Ledger, NEW s \in Managed, CheckOrigin(s)
    PROVE  Ledger'
  <1>1. callback[s] \in ReportType /\ callback \in [Managed -> ReportType \cup {Idle}]
    BY Running DEF CheckOrigin, IInv, Fields
  <1>2. /\ \A t \in Managed : t # s => callback'[t] = callback[t]
        /\ UNCHANGED <<registry, listening, main, seen, told>>
    BY <1>1 DEF CheckOrigin, world
  <1>3. CASE IsKnown(s)
    <2>1. callback'[s] = [callback[s] EXCEPT !.stage = "update"] /\ callback[s].stage = "origin"
      BY <1>1, <1>3 DEF CheckOrigin
    <2>2. /\ callback'[s].stage = "update" /\ callback'[s].about = callback[s].about
          /\ callback'[s].found = callback[s].found /\ callback'[s].who = callback[s].who
      BY <1>1, <2>1 DEF ReportType
    <2>3. Account(s)'
      BY <1>2, <2>1, <2>2 DEF Ledger, Accounts, Account, About
    <2>. QED  BY <1>2, <2>3, OneAccount
  <1>4. CASE ~IsKnown(s)
    <2>1. callback'[s].stage = "idle"
      BY <1>1, <1>4 DEF CheckOrigin, Idle
    <2>2. s \in listening => told[s].participants = {}
      BY <1>4 DEF IsKnown, Ledger, Listening, IInv, NotYet, Unregistered, NothingSeen
    <2>3. Account(s)'
      BY <1>2, <2>1, <2>2 DEF Account, About
    <2>. QED  BY <1>2, <2>3, OneAccount
  <1>. QED  BY <1>3, <1>4

\* What a callback reads under the lock changes no account.
LEMMA LedgerUpdate ==
    ASSUME IInv, Ledger, NEW s \in Managed, UpdateUnderLock(s) \/ ReadNames(s)
    PROVE  Ledger'
  <1>1. callback[s] \in ReportType /\ callback \in [Managed -> ReportType \cup {Idle}]
    BY Running DEF UpdateUnderLock, ReadNames, IInv, Fields
  <1>2. /\ \A t \in Managed : t # s => callback'[t] = callback[t]
        /\ UNCHANGED <<registry, listening, main, seen, told>>
    BY <1>1 DEF UpdateUnderLock, ReadNames, world, history
  <1>3. /\ callback'[s].stage \in {"apply", "names"} /\ callback[s].stage # "idle"
        /\ callback'[s].about = callback[s].about
        /\ callback'[s].found = callback[s].found /\ callback'[s].who = callback[s].who
    BY <1>1 DEF UpdateUnderLock, ReadNames, ReportType
  <1>4. Account(s)'
    BY <1>2, <1>3 DEF Ledger, Accounts, Account, About
  <1>. QED  BY <1>2, <1>4, OneAccount

\* A callback that ends settles its account.
LEMMA LedgerApply ==
    ASSUME IInv, Ledger, NEW s \in Managed, ApplyReport(s)
    PROVE  Ledger'
  <1> DEFINE report == callback[s]
  <1>1. /\ report \in ReportType /\ report.stage = "apply"
        /\ callback \in [Managed -> ReportType \cup {Idle}] /\ told \in [Managed -> Knowledge]
        /\ report.about = "participant" => report.who \in Participant
        /\ report.about = "endpoint" => report.who \in Endpoint
    BY Running DEF ApplyReport, IInv, Fields, Subjects
  <1>2. /\ callback'[s].stage = "idle" /\ told'[s] = Heard(told[s], report)
        /\ \A t \in Managed : t # s => callback'[t] = callback[t] /\ told'[t] = told[t]
        /\ UNCHANGED <<registry, listening, main, seen>>
    BY <1>1 DEF ApplyReport, Idle, world
  <1>3. \A p \in told'[s].participants : p \in seen[s].participants
    <2>0. told[s] \in Knowledge
      BY <1>1
    <2>1. CASE report.about = "participant"
      <3>1. told'[s].participants = IF report.found THEN told[s].participants \cup {report.who}
                                    ELSE told[s].participants \ {report.who}
        BY <1>1, <1>2, <2>0, <2>1, HeardFacts
      <3>2. report.found \in BOOLEAN
        BY <1>1 DEF ReportType
      <3>. QED  BY <1>1, <2>1, <3>1, <3>2 DEF Ledger, Accounts, Account, About
    <2>2. CASE report.about = "endpoint"
      <3>1. Heard(told[s], report).participants = told[s].participants
        BY <1>1, <2>0, <2>2, HeardFacts
      <3>2. told'[s].participants = told[s].participants
        BY <1>2, <3>1
      <3>. QED  BY <1>1, <2>2, <3>2 DEF Ledger, Accounts, Account, About
    <2>. QED  BY <1>1, <2>1, <2>2 DEF ReportType
  <1>4. Account(s)'
    BY <1>2, <1>3 DEF Account, About
  <1>. QED  BY <1>2, <1>4, OneAccount

\* Every step keeps the ledger.
LEMMA LedgerStep == IInv /\ Ledger /\ [Next]_vars => Ledger'
  <1> SUFFICES ASSUME IInv, Ledger, [Next]_vars PROVE Ledger'
    OBVIOUS
  <1>1. ASSUME UNCHANGED <<listening, seen, registry, main, callback, told>> PROVE Ledger'
    BY <1>1 DEF registry, Ledger, Listening, MapsAgree, Accounts, Account, About, At
  <1>2. CASE UNCHANGED vars \/ Done
    BY <1>1, <1>2 DEF Done, vars, world, history
  <1>3. CASE \/ \E p \in Managed : CreateParticipant(p) \/ UnregisterParticipant(p)
             \/ EventStep \/ StartTermination \/ TerminationStep
    BY <1>3, LedgerThread
  <1>4. ASSUME NEW s \in Managed,
               \/ \E p \in Participant : DeliverParticipant(s, p)
               \/ \E e \in Endpoint : DeliverEndpoint(s, e)
               \/ CallbackStep(s)
        PROVE  Ledger'
    BY <1>4, LedgerDelivery, LedgerOrigin, LedgerUpdate, LedgerApply DEF CallbackStep
  <1>5. ASSUME NEW r \in Reader, NEW matched \in BOOLEAN, LivelinessChanged(r, matched)
        PROVE  Ledger'
    BY <1>1, <1>5 DEF LivelinessChanged, world, history
  <1>. QED  BY <1>2, <1>3, <1>4, <1>5 DEF Next

\* The ledger, for every interleaving: who listens is registered or about to be, and
\* what the database of a listening participant was told, and not told to take back,
\* Fast DDS has not taken back either, but for the callback in progress.
THEOREM LedgerHolds == Spec => []Ledger
  BY LedgerInit, LedgerStep, InvariantHolds, PTL DEF Spec

\* The assert of AddParticipant never fails, for any number of participants and any
\* interleaving: what is alive is what was told, and a participant that was told is
\* lost before it is found again.
THEOREM ServerFlagAsserted == Spec => AssertedServerFlag
  <1> DEFINE Alive == Proved!AliveExactlyWhenReported
             Flagged == \A s \in Managed :
                 (ApplyReport(s) /\ callback[s].about = "participant" /\ callback[s].found)
                     => image'[s][callback[s].who].server = callback[s].server
  <1>1. Proved!AnyOrderSpec => []Alive
    BY Proved!LivingAreTheReported, ManagedAssumption, ParticipantAssumption,
       EndpointAssumption, PTL
  <1>2. IInv /\ TypeOK /\ Ledger /\ Alive /\ [Next]_vars => [Flagged]_vars
    <2> SUFFICES ASSUME IInv, TypeOK, Ledger, Alive, NEW s \in Managed, ApplyReport(s),
                        callback[s].about = "participant", callback[s].found
                 PROVE  image'[s][callback[s].who].server = callback[s].server
      OBVIOUS
    <2> DEFINE p == callback[s].who
               server == callback[s].server
    <2>1. callback[s].stage # "idle" /\ callback[s] \in ReportType
      BY Running DEF ApplyReport, IInv
    <2>2. callback[s].found = TRUE
      BY <2>1 DEF ReportType
    <2>3. p \in Participant /\ p # s /\ p \notin told[s].participants
      BY <2>1, <2>2 DEF IInv, Subjects, Ledger, Accounts, Account, About
    <2>4. AddParticipant(s, p, server)
      BY DEF ApplyReport, UpdateDatabase
    <2> HIDE DEF p, server
    <2>5. <<s, p>> \notin knownParticipants
      BY <2>3 DEF knownParticipants
    <2>6. ~(s \in DOMAIN image /\ p \in DOMAIN image[s] /\ image[s][p].alive)
      BY <2>3, <2>5 DEF Proved!AliveExactlyWhenReported, Proved!HasEntry
    <2> DEFINE database == DatabaseOf(s)
    <2>7. /\ p \in DOMAIN database => database[p] \in ParticipantItem
          /\ p \in DOMAIN database => ~database[p].alive
      BY <2>6 DEF DatabaseOf, EmptyDatabase, TypeOK, IsDatabase
    <2>8. image'[s] = WithParticipant(database, p, server)
      BY <2>4 DEF AddParticipant, Put
    <2> HIDE DEF database
    <2>9. WithParticipant(database, p, server)[p].server = server
      BY <2>7 DEF WithParticipant, Put, NewItem, ParticipantItem
    <2>. QED  BY <2>8, <2>9 DEF p, server
  <1>3. AssertedServerFlag <=> [][Flagged]_vars
    BY DEF AssertedServerFlag
  <1> HIDE DEF Alive, Flagged
  <1>. QED  BY <1>1, <1>2, <1>3, ReportsApply, InvariantHolds, TypeCorrect, LedgerHolds, PTL
               DEF Spec

-----------------------------------------------------------------------------
(***************************************************************************)
(* What the database of a participant says once its callbacks are done.    *)
(*                                                                         *)
(* A participant one of whose callbacks was ignored may miss a report for  *)
(* good, so nothing below is said of the whole image: the invariant is     *)
(* about one participant at a time, none of whose callbacks was ignored.   *)
(* For such a participant the endpoints are introduced, as InOrderSpec of  *)
(* DiscoveryReports has it, and the lemmas about one database apply.       *)
(***************************************************************************)
\* Registered or about to be, and listened to ever since.
Heeded(s) == s \notin ignored /\ (Unregistered(s) \/ s \in members)

\* Fast DDS is ahead of the database by the callback that runs.
UpToDate(s) == seen[s] = IF callback[s].stage = "idle" THEN told[s]
                         ELSE Heard(told[s], callback[s])

\* The owner of an endpoint that is being reported was reported before.
OwnerTold(s) ==
    callback[s].stage # "idle" /\ callback[s].about = "endpoint" /\ callback[s].found =>
        Owner[callback[s].who] \in told[s].participants \cup {s}

\* The endpoints are under their owners, and are those the database was told of.
FiledAsTold(s) == /\ Proved!Filed(DatabaseOf(s))
                  /\ \A e \in Endpoint :
                        Proved!Lists(DatabaseOf(s), e) <=> e \in told[s].endpoints

Settles(s) == Heeded(s) => UpToDate(s) /\ OwnerTold(s) /\ FiledAsTold(s)

SettledInv == \A s \in Managed : Settles(s)

-----------------------------------------------------------------------------
(* One database, in the terms of DiscoveryReportsProofs.                   *)

\* What Proved says of a database is what this module says of it.
LEMMA SameDatabases ==
    ASSUME NEW database, NEW s, NEW who, NEW e, NEW flag
    PROVE  /\ Proved!DatabaseOf(s) = DatabaseOf(s)
           /\ Proved!WithParticipant(database, who, flag) = WithParticipant(database, who, flag)
           /\ Proved!WithoutParticipant(database, who) = WithoutParticipant(database, who)
           /\ Proved!WithEndpoint(database, s, e) = WithEndpoint(database, s, e)
           /\ Proved!WithoutEndpoint(database, who, e) = WithoutEndpoint(database, who, e)
           /\ Proved!WithLiveliness(database, who, e, flag) =
                  WithLiveliness(database, who, e, flag)
  BY DEF Proved!DatabaseOf, DatabaseOf, Proved!EmptyDatabase, EmptyDatabase, Proved!NewItem,
         NewItem, Proved!WithParticipant, WithParticipant, Proved!WithoutParticipant,
         WithoutParticipant, Proved!WithEndpoint, WithEndpoint, Proved!WithoutEndpoint,
         WithoutEndpoint, Proved!WithLiveliness, WithLiveliness, Proved!Put, Put, Proved!Erase,
         Erase, Proved!Acknowledged, Acknowledged, Proved!ItemWith, ItemWith,
         Proved!ItemWithout, ItemWithout, Proved!EntryOrNew, EntryOrNew, Proved!Receiver,
         Receiver, Proved!ReceiverItem, ReceiverItem, Proved!EmplacesOwner, EmplacesOwner,
         Proved!LowerBound, LowerBound, Proved!NotBefore, NotBefore

\* The database of a participant is well formed, and those alive in it are those it
\* was told of.
LEMMA DatabaseFacts ==
    ASSUME IInv, Proved!AnyOrderInv, NEW s \in Managed
    PROVE  /\ Proved!IsDatabase(DatabaseOf(s))
           /\ \A p \in Participant \ {s} :
                 (p \in DOMAIN DatabaseOf(s) /\ DatabaseOf(s)[p].alive)
                     <=> p \in told[s].participants
  <1>1. Proved!DatabaseInv(s, Proved!DatabaseOf(s))
    BY Proved!DatabaseOfInv, ManagedAssumption, ParticipantAssumption, EndpointAssumption
       DEF Proved!AnyOrderInv
  <1>2. Proved!IsDatabase(DatabaseOf(s))
    BY <1>1, SameDatabases DEF Proved!DatabaseInv
  <1>3. ASSUME NEW p \in Participant \ {s}
        PROVE  (p \in DOMAIN DatabaseOf(s) /\ DatabaseOf(s)[p].alive)
                   <=> p \in told[s].participants
    <2>1. Proved!Alive(Proved!DatabaseOf(s), p) <=> <<s, p>> \in knownParticipants
      BY DEF Proved!AnyOrderInv, Proved!AliveInv
    <2>2. <<s, p>> \in knownParticipants <=> p \in told[s].participants
      BY DEF knownParticipants
    <2>. QED  BY <2>1, <2>2, SameDatabases DEF Proved!Alive
  <1>. QED  BY <1>2, <1>3

\* A step that replaces the database of s replaces no other.
LEMMA OneDatabase ==
    ASSUME NEW s, NEW database, image' = Put(image, s, database)
    PROVE  /\ DatabaseOf(s)' = database
           /\ \A t : t # s => DatabaseOf(t)' = DatabaseOf(t)
  BY DEF Put, DatabaseOf, EmptyDatabase, NewItem

\* RemoveEndPoint looks where the endpoint is listed.
LEMMA HoldsIsLists ==
    ASSUME NEW s, NEW e
    PROVE  Holds(s, Owner[e], e) <=> Proved!Lists(DatabaseOf(s), e)
  BY DEF Holds, Proved!Lists, DatabaseOf, EmptyDatabase

\* Endpoints stay filed as told if the lists and what was told change alike.
LEMMA FiledAgain ==
    ASSUME NEW s \in Managed, NEW database, Proved!Filed(database), DatabaseOf(s)' = database,
           \A e \in Endpoint : Proved!Lists(database, e) <=> e \in told'[s].endpoints
    PROVE  FiledAsTold(s)'
  BY DEF FiledAsTold, Proved!Filed, Proved!Lists

-----------------------------------------------------------------------------
(* The steps.                                                              *)

\* Nothing was reported initially.
LEMMA SettledInit == Init => SettledInv
  <1> SUFFICES ASSUME Init, NEW s \in Managed PROVE Settles(s)
    BY DEF SettledInv
  <1>1. DatabaseOf(s) = EmptyDatabase /\ DOMAIN EmptyDatabase = {}
    BY DEF Init, DatabaseOf, EmptyDatabase
  <1>2. told[s] = NothingSeen /\ seen[s] = NothingSeen /\ callback[s].stage = "idle"
    BY DEF Init, Idle
  <1>3. FiledAsTold(s)
    BY <1>1, <1>2 DEF FiledAsTold, Proved!Filed, Proved!Lists, NothingSeen
  <1>. QED  BY <1>2, <1>3 DEF Settles, UpToDate, OwnerTold

\* A step that does not touch what is known of t, nor its database, leaves it settled
\* unless t was not heeded before.
LEMMA SameParticipant ==
    ASSUME NEW t \in Managed, Settles(t), Heeded(t)' => Heeded(t),
           seen'[t] = seen[t], told'[t] = told[t], callback'[t] = callback[t],
           DatabaseOf(t)' = DatabaseOf(t)
    PROVE  Settles(t)'
  <1> SUFFICES ASSUME Heeded(t)' PROVE UpToDate(t)' /\ OwnerTold(t)' /\ FiledAsTold(t)'
    BY DEF Settles
  <1>1. UpToDate(t) /\ OwnerTold(t) /\ FiledAsTold(t)
    BY DEF Settles
  <1>2. UpToDate(t)' /\ OwnerTold(t)'
    BY <1>1 DEF UpToDate, OwnerTold, Heard
  <1>3. FiledAsTold(t)'
    BY <1>1, FiledAgain DEF FiledAsTold
  <1>. QED  BY <1>2, <1>3

\* Nobody is heeded again.
LEMMA HeededBefore ==
    ASSUME ignored \subseteq ignored', NEW t \in Managed,
           Unregistered(t)' => Unregistered(t),
           t \in members' => t \in members \/ Unregistered(t)
    PROVE  Heeded(t)' => Heeded(t)
  BY DEF Heeded

\* The event thread and onTerminate only ever end that a participant is heeded.
LEMMA SettledThread ==
    ASSUME IInv, SettledInv,
           \/ \E p \in Managed : CreateParticipant(p) \/ UnregisterParticipant(p)
           \/ EventStep \/ StartTermination \/ TerminationStep
    PROVE  SettledInv'
  <1> SUFFICES ASSUME NEW t \in Managed PROVE Settles(t)'
    BY DEF SettledInv
  <1>0. Settles(t)
    BY DEF SettledInv
  <1>1. CASE \E p \in Managed : UnregisterParticipant(p)
    <2>1. PICK p \in Managed : UnregisterParticipant(p)
      BY <1>1
    <2>2. /\ main' = [stage |-> "detach", who |-> p] /\ main.stage = "idle"
          /\ members' = members \ {p} /\ p \in members
          /\ UNCHANGED <<existing, listening, seen, pending, callback, ignored>>
      BY <2>1 DEF UnregisterParticipant, GoTo, At, world
    <2>3. CASE t = p
      <3>1. ~Unregistered(p)' /\ p \notin members'
        BY <2>2 DEF IInv, NotYet, Unregistered, At
      <3>. QED  BY <2>3, <3>1 DEF Settles, Heeded
    <2>4. CASE t # p
      <3>1. told'[t] = told[t] /\ DatabaseOf(t)' = DatabaseOf(t)
        BY <2>1, <2>4 DEF UnregisterParticipant, RemoveReporter, Erase, DatabaseOf,
                          EmptyDatabase, NewItem, IInv, Fields
      <3>2. Heeded(t)' => Heeded(t)
        BY <2>2 DEF Heeded, Unregistered, At
      <3>. QED  BY <1>0, <2>2, <3>1, <3>2, SameParticipant
    <2>. QED  BY <2>3, <2>4
  <1>2. CASE ~ \E p \in Managed : UnregisterParticipant(p)
    <2>1. UNCHANGED <<image, seen, told, callback, ignored>>
      BY <1>2 DEF EventStep, TerminationStep, CreateParticipant, RegisterParticipant,
                  SetParticipantInfo, DetachParticipant, DeleteParticipant, StartTermination,
                  TerminateDetach, TerminateDelete, FinishTermination, world, history
    <2>2. Unregistered(t)' => Unregistered(t)
      BY <1>2 DEF EventStep, TerminationStep, CreateParticipant, RegisterParticipant,
                  SetParticipantInfo, DetachParticipant, DeleteParticipant, StartTermination,
                  TerminateDetach, TerminateDelete, FinishTermination, registry, GoTo, Idle,
                  At, Unregistered
    <2>3. t \in members' => t \in members \/ Unregistered(t)
      BY <1>2 DEF EventStep, TerminationStep, CreateParticipant, RegisterParticipant,
                  SetParticipantInfo, DetachParticipant, DeleteParticipant, StartTermination,
                  TerminateDetach, TerminateDelete, FinishTermination, registry,
                  At, Unregistered
    <2>4. DatabaseOf(t)' = DatabaseOf(t)
      BY <2>1 DEF DatabaseOf, EmptyDatabase, NewItem
    <2>. QED  BY <1>0, <2>1, <2>2, <2>3, <2>4, HeededBefore, SameParticipant
  <1>. QED  BY <1>1, <1>2

\* A step of Fast DDS or of a callback of s concerns s alone.
LEMMA OneSettles ==
    ASSUME IInv, SettledInv, NEW s \in Managed, Settles(s)',
           UNCHANGED <<existing, registry, main>>, ignored \subseteq ignored',
           \A t \in Managed : t # s => /\ callback'[t] = callback[t]
                                       /\ seen'[t] = seen[t] /\ told'[t] = told[t]
                                       /\ DatabaseOf(t)' = DatabaseOf(t)
    PROVE  SettledInv'
  <1> SUFFICES ASSUME NEW t \in Managed, t # s PROVE Settles(t)'
    BY DEF SettledInv
  <1>1. Heeded(t)' => Heeded(t)
    BY SameThread, HeededBefore DEF registry
  <1>. QED  BY <1>1, SameParticipant DEF SettledInv

\* A callback that starts: its participant is ahead of its database by that report,
\* and an endpoint that is reported has an owner that was.
LEMMA SettledDelivery ==
    ASSUME IInv, SettledInv, NEW s \in Managed,
           \/ \E p \in Participant : DeliverParticipant(s, p)
           \/ \E e \in Endpoint : DeliverEndpoint(s, e)
    PROVE  SettledInv'
  <1>0. /\ seen \in [Managed -> Knowledge]
        /\ callback \in [Managed -> ReportType \cup {Idle}]
    BY DEF IInv, Fields
  <1>1. PICK report : /\ Deliver(s, report) /\ report.stage = "origin"
                      /\ report.about = "endpoint" /\ report.found =>
                            Owner[report.who] \in seen[s].participants \cup {s}
    <2>1. ASSUME NEW p \in Participant, DeliverParticipant(s, p)
          PROVE  \E found : Deliver(s, Report("participant", p, found))
      BY <2>1 DEF DeliverParticipant
    <2>2. ASSUME NEW e \in Endpoint, DeliverEndpoint(s, e)
          PROVE  \E found \in BOOLEAN :
                    /\ Deliver(s, Report("endpoint", e, found))
                    /\ found => Owner[e] \in seen[s].participants \cup {s}
      BY <2>2 DEF DeliverEndpoint
    <2>3. ASSUME NEW about, NEW who, NEW found
          PROVE  /\ Report(about, who, found).stage = "origin"
                 /\ Report(about, who, found).about = about
                 /\ Report(about, who, found).who = who
                 /\ Report(about, who, found).found = found
      BY DEF Report
    <2>4. CASE \E p \in Participant : DeliverParticipant(s, p)
      <3>1. PICK p \in Participant : DeliverParticipant(s, p)
        BY <2>4
      <3>2. PICK found : Deliver(s, Report("participant", p, found))
        BY <2>1, <3>1
      <3>. QED  BY <2>3, <3>2
    <2>5. CASE \E e \in Endpoint : DeliverEndpoint(s, e)
      <3>1. PICK e \in Endpoint, found \in BOOLEAN :
                /\ Deliver(s, Report("endpoint", e, found))
                /\ found => Owner[e] \in seen[s].participants \cup {s}
        BY <2>2, <2>5
      <3>. QED  BY <2>3, <3>1
    <2>. QED  BY <2>4, <2>5
  <1>2. /\ seen'[s] = Heard(seen[s], report) /\ callback'[s] = report
        /\ \A t \in Managed : t # s => callback'[t] = callback[t] /\ seen'[t] = seen[t]
        /\ UNCHANGED <<image, existing, registry, main, told, ignored>>
    BY <1>0, <1>1 DEF Deliver, history
  <1>3. \A t : DatabaseOf(t)' = DatabaseOf(t)
    BY <1>2 DEF DatabaseOf, EmptyDatabase, NewItem
  <1>4. Settles(s)'
    <2> SUFFICES ASSUME Heeded(s)' PROVE UpToDate(s)' /\ OwnerTold(s)' /\ FiledAsTold(s)'
      BY DEF Settles
    <2>1. Heeded(s)
      BY <1>2, SameThread, HeededBefore DEF registry
    <2>2. UpToDate(s) /\ FiledAsTold(s) /\ callback[s].stage = "idle"
      BY <1>1, <2>1 DEF SettledInv, Settles, Deliver, Idle
    <2>3. told'[s] = seen[s]
      BY <1>2, <2>2 DEF UpToDate
    <2>4. UpToDate(s)' /\ OwnerTold(s)'
      BY <1>1, <1>2, <2>3 DEF UpToDate, OwnerTold
    <2>5. FiledAsTold(s)'
      BY <1>2, <1>3, <2>2, FiledAgain DEF FiledAsTold
    <2>. QED  BY <2>4, <2>5
  <1>. QED  BY <1>2, <1>3, <1>4, OneSettles

\* A callback goes on with the report it started with.
LEMMA SettledCallbackMoves ==
    ASSUME IInv, SettledInv, NEW s \in Managed,
           callback[s].stage # "idle", callback'[s].stage # "idle",
           callback'[s].about = callback[s].about, callback'[s].who = callback[s].who,
           callback'[s].found = callback[s].found,
           \A t \in Managed : t # s => callback'[t] = callback[t],
           UNCHANGED <<image, existing, seen, registry, main, history>>
    PROVE  SettledInv'
  <1>1. \A t : DatabaseOf(t)' = DatabaseOf(t)
    BY DEF DatabaseOf, EmptyDatabase, NewItem
  <1>2. told' = told /\ ignored' = ignored
    BY DEF history
  <1>3. Settles(s)'
    <2> SUFFICES ASSUME Heeded(s)' PROVE UpToDate(s)' /\ OwnerTold(s)' /\ FiledAsTold(s)'
      BY DEF Settles
    <2>1. UpToDate(s) /\ OwnerTold(s) /\ FiledAsTold(s)
      BY <1>2, SameThread, HeededBefore DEF registry, SettledInv, Settles
    <2>2. Heard(told[s], callback'[s]) = Heard(told[s], callback[s])
      BY DEF Heard
    <2>3. UpToDate(s)' /\ OwnerTold(s)'
      BY <1>2, <2>1, <2>2 DEF UpToDate, OwnerTold
    <2>4. FiledAsTold(s)'
      BY <1>1, <1>2, <2>1, FiledAgain DEF FiledAsTold
    <2>. QED  BY <2>3, <2>4
  <1>. QED  BY <1>1, <1>2, <1>3, OneSettles

\* A callback passes getParticipant, or its participant is not heeded any more.
LEMMA SettledOrigin ==
    ASSUME IInv, SettledInv, NEW s \in Managed, CheckOrigin(s)
    PROVE  SettledInv'
  <1>1. callback[s] \in ReportType /\ callback \in [Managed -> ReportType \cup {Idle}]
    BY Running DEF CheckOrigin, IInv, Fields
  <1>2. CASE IsKnown(s)
    <2>1. /\ callback'[s] = [callback[s] EXCEPT !.stage = "update"]
          /\ \A t \in Managed : t # s => callback'[t] = callback[t]
          /\ callback[s].stage = "origin"
      BY <1>1, <1>2 DEF CheckOrigin
    <2>2. UNCHANGED <<image, existing, seen, registry, main, history>>
      BY <1>2 DEF CheckOrigin, world, history
    <2>3. /\ callback'[s].stage = "update" /\ callback'[s].about = callback[s].about
          /\ callback'[s].found = callback[s].found /\ callback'[s].who = callback[s].who
      BY <1>1, <2>1 DEF ReportType
    <2>. QED  BY <2>1, <2>2, <2>3, SettledCallbackMoves
  <1>3. CASE ~IsKnown(s)
    <2>1. /\ \A t \in Managed : t # s => callback'[t] = callback[t]
          /\ ignored' = ignored \cup {s}
          /\ UNCHANGED <<image, existing, seen, registry, main, told>>
      BY <1>1, <1>3 DEF CheckOrigin, world
    <2>2. \A t : DatabaseOf(t)' = DatabaseOf(t)
      BY <2>1 DEF DatabaseOf, EmptyDatabase, NewItem
    <2>3. Settles(s)'
      BY <2>1 DEF Settles, Heeded
    <2>. QED  BY <2>1, <2>2, <2>3, OneSettles
  <1>. QED  BY <1>2, <1>3

\* What a callback reads under the lock changes nothing of its report.
LEMMA SettledUpdate ==
    ASSUME IInv, SettledInv, NEW s \in Managed, UpdateUnderLock(s) \/ ReadNames(s)
    PROVE  SettledInv'
  <1>1. callback[s] \in ReportType /\ callback \in [Managed -> ReportType \cup {Idle}]
    BY Running DEF UpdateUnderLock, ReadNames, IInv, Fields
  <1>2. /\ \A t \in Managed : t # s => callback'[t] = callback[t]
        /\ UNCHANGED <<image, existing, seen, registry, main, history>>
    BY <1>1 DEF UpdateUnderLock, ReadNames, world
  <1>3. /\ callback'[s].stage \in {"apply", "names"} /\ callback[s].stage # "idle"
        /\ callback'[s].about = callback[s].about
        /\ callback'[s].found = callback[s].found /\ callback'[s].who = callback[s].who
    BY <1>1 DEF UpdateUnderLock, ReadNames, ReportType
  <1>. QED  BY <1>2, <1>3, SettledCallbackMoves

\* The report of a callback that ends is filed under its owner, or taken out there,
\* and no other report is lost by it.
LEMMA AppliedAsTold ==
    ASSUME IInv, Proved!AnyOrderInv, NEW s \in Managed, ApplyReport(s),
           OwnerTold(s), FiledAsTold(s)
    PROVE  FiledAsTold(s)'
  <1>1. PICK report \in ReportType : report = callback[s]
    BY Running DEF ApplyReport, IInv
  <1>2. /\ report.stage = "apply" /\ UpdateDatabase(s, report)
        /\ report.about = "participant" => report.who \in Participant
        /\ report.about = "endpoint" => report.who \in Endpoint
        /\ told \in [Managed -> Knowledge] /\ told[s] \in Knowledge
        /\ told'[s] = Heard(told[s], report)
    BY <1>1 DEF ApplyReport, IInv, Fields, Subjects
  <1>3. /\ report.about = "participant" => told'[s].endpoints = told[s].endpoints
        /\ report.about = "endpoint" =>
              told'[s].endpoints = IF report.found THEN told[s].endpoints \cup {report.who}
                                   ELSE told[s].endpoints \ {report.who}
    BY <1>2, HeardFacts
  <1>4. PICK database : database = DatabaseOf(s)
    OBVIOUS
  <1>5. /\ Proved!IsDatabase(database) /\ Proved!Filed(database)
        /\ \A e \in Endpoint : Proved!Lists(database, e) <=> e \in told[s].endpoints
    BY <1>4, DatabaseFacts DEF FiledAsTold
  <1>6. report.about \in {"participant", "endpoint"} /\ report.found \in BOOLEAN
        /\ report.server \in BOOLEAN
    BY DEF ReportType
  <1>7. CASE report.about = "participant" /\ report.found
    <2>1. PICK new : new = WithParticipant(database, report.who, report.server)
      OBVIOUS
    <2>2. DatabaseOf(s)' = new
      BY <1>2, <1>4, <1>7, <2>1, OneDatabase DEF UpdateDatabase, AddParticipant
    <2>3. Proved!Filed(new) /\ \A e : Proved!Lists(new, e) <=> Proved!Lists(database, e)
      BY <1>5, <2>1, SameDatabases, Proved!WithParticipantEndpoints, ManagedAssumption,
         ParticipantAssumption, EndpointAssumption
    <2>. QED  BY <1>3, <1>5, <1>7, <2>2, <2>3, FiledAgain
  <1>8. CASE report.about = "participant" /\ ~report.found
    <2>1. PICK new : new = WithoutParticipant(database, report.who)
      OBVIOUS
    <2>2. DatabaseOf(s)' = new
      BY <1>2, <1>4, <1>8, <2>1, OneDatabase DEF UpdateDatabase, RemoveParticipant
    <2>3. Proved!Filed(new) /\ \A e : Proved!Lists(new, e) <=> Proved!Lists(database, e)
      BY <1>5, <2>1, SameDatabases, Proved!WithoutParticipantEndpoints, ManagedAssumption,
         ParticipantAssumption, EndpointAssumption
    <2>. QED  BY <1>3, <1>5, <1>8, <2>2, <2>3, FiledAgain
  <1>9. CASE report.about = "endpoint" /\ report.found
    <2>0. PICK e \in Endpoint : e = report.who
      BY <1>2, <1>9
    <2>1. PICK new : new = WithEndpoint(database, s, e)
      OBVIOUS
    <2>2. DatabaseOf(s)' = new
      BY <1>2, <1>4, <1>9, <2>0, <2>1, OneDatabase DEF UpdateDatabase, AddEndPoint
    <2>3. Owner[e] = s \/ Owner[e] \in DOMAIN database
      <3>1. Owner[e] = s \/ (Owner[e] \in Participant \ {s} /\ Owner[e] \in told[s].participants)
        BY <1>1, <1>2, <1>9, <2>0, EndpointAssumption DEF OwnerTold
      <3>. QED  BY <1>4, <3>1, DatabaseFacts
    <2>4. /\ Proved!Filed(new)
          /\ \A x : Proved!Lists(new, x) <=> x = e \/ Proved!Lists(database, x)
      BY <1>5, <2>1, <2>3, SameDatabases, Proved!WithEndpointEndpoints, ManagedAssumption,
         ParticipantAssumption, EndpointAssumption
    <2>. QED  BY <1>3, <1>5, <1>9, <2>0, <2>2, <2>4, FiledAgain
  <1>10. CASE report.about = "endpoint" /\ ~report.found
    <2>0. PICK e \in Endpoint : e = report.who
      BY <1>2, <1>10
    <2>1. RemoveEndPoint(s, e)
      BY <1>2, <1>10, <2>0 DEF UpdateDatabase
    <2>2. CASE Holds(s, Owner[e], e)
      <3>1. PICK new : new = WithoutEndpoint(database, Owner[e], e)
        OBVIOUS
      <3>2. image[s] = database /\ Proved!Lists(database, e)
        BY <1>4, <2>2, HoldsIsLists DEF Holds, DatabaseOf
      <3>3. DatabaseOf(s)' = new
        BY <2>1, <2>2, <3>1, <3>2, OneDatabase DEF RemoveEndPoint
      <3>4. /\ Proved!Filed(new)
            /\ \A x : Proved!Lists(new, x) <=> x # e /\ Proved!Lists(database, x)
        <4>1. new = Proved!WithoutEndpoint(database, Owner[e], e)
          BY <3>1, SameDatabases
        <4>. QED  BY <1>5, <3>2, <4>1, Proved!WithoutEndpointEndpoints, ManagedAssumption,
                     ParticipantAssumption, EndpointAssumption
      <3>. QED  BY <1>3, <1>5, <1>10, <2>0, <3>3, <3>4, FiledAgain
    <2>3. CASE ~Holds(s, Owner[e], e)
      <3>1. image' = image /\ ~Proved!Lists(database, e)
        BY <1>4, <2>1, <2>3, HoldsIsLists DEF RemoveEndPoint
      <3>2. DatabaseOf(s)' = database
        BY <1>4, <3>1 DEF DatabaseOf, EmptyDatabase, NewItem
      <3>. QED  BY <1>3, <1>5, <1>10, <2>0, <3>1, <3>2, FiledAgain
    <2>. QED  BY <2>2, <2>3
  <1>. QED  BY <1>6, <1>7, <1>8, <1>9, <1>10

\* A callback that ends leaves the database up to date.
LEMMA SettledApply ==
    ASSUME IInv, Proved!AnyOrderInv, SettledInv, NEW s \in Managed, ApplyReport(s)
    PROVE  SettledInv'
  <1>1. /\ callback \in [Managed -> ReportType \cup {Idle}] /\ told \in [Managed -> Knowledge]
        /\ callback[s].stage = "apply"
    BY DEF ApplyReport, IInv, Fields
  <1>2. /\ callback'[s].stage = "idle" /\ told'[s] = Heard(told[s], callback[s])
        /\ \A t \in Managed : t # s => callback'[t] = callback[t] /\ told'[t] = told[t]
        /\ UNCHANGED <<existing, seen, registry, main, ignored>>
    BY <1>1 DEF ApplyReport, Idle, world
  <1>3. \A t : t # s => DatabaseOf(t)' = DatabaseOf(t)
    <2>1. PICK database : image' = image \/ image' = Put(image, s, database)
      BY DEF ApplyReport, UpdateDatabase, AddParticipant, RemoveParticipant, AddEndPoint,
             RemoveEndPoint
    <2>2. CASE image' = image
      BY <2>2 DEF DatabaseOf, EmptyDatabase, NewItem
    <2>. QED  BY <2>1, <2>2, OneDatabase
  <1>4. Settles(s)'
    <2> SUFFICES ASSUME Heeded(s)' PROVE UpToDate(s)' /\ OwnerTold(s)' /\ FiledAsTold(s)'
      BY DEF Settles
    <2>1. UpToDate(s) /\ OwnerTold(s) /\ FiledAsTold(s)
      BY <1>2, SameThread, HeededBefore DEF registry, SettledInv, Settles
    <2>2. UpToDate(s)' /\ OwnerTold(s)'
      BY <1>1, <1>2, <2>1 DEF UpToDate, OwnerTold
    <2>. QED  BY <2>1, <2>2, AppliedAsTold
  <1>. QED  BY <1>2, <1>3, <1>4, OneSettles

\* A change of liveliness moves no endpoint.
LEMMA SettledLiveliness ==
    ASSUME IInv, Proved!AnyOrderInv, SettledInv, NEW r \in Reader, NEW matched \in BOOLEAN,
           LivelinessChanged(r, matched)
    PROVE  SettledInv'
  <1>1. PICK s \in Managed : s = Owner[r]
    BY DEF LivelinessChanged, IInv, Fields
  <1>2. /\ UpdateSubLiveliness(r, matched)
        /\ UNCHANGED <<existing, seen, registry, main, callback, told, ignored>>
    BY DEF LivelinessChanged, world, history
  <1>3. PICK database : database = DatabaseOf(s)
    OBVIOUS
  <1>4. CASE Holds(s, s, r)
    <2>1. PICK new : new = WithLiveliness(database, s, r, matched)
      OBVIOUS
    <2>2. image[s] = database /\ s \in DOMAIN database
      BY <1>3, <1>4 DEF Holds, DatabaseOf
    <2>3. image' = Put(image, s, new)
      BY <1>1, <1>2, <1>4, <2>1, <2>2 DEF UpdateSubLiveliness
    <2>4. DatabaseOf(s)' = new /\ \A t : t # s => DatabaseOf(t)' = DatabaseOf(t)
      BY <2>3, OneDatabase
    <2>5. Settles(s)'
      <3> SUFFICES ASSUME Heeded(s)' PROVE UpToDate(s)' /\ OwnerTold(s)' /\ FiledAsTold(s)'
        BY DEF Settles
      <3>1. UpToDate(s) /\ OwnerTold(s) /\ FiledAsTold(s)
        BY <1>2, SameThread, HeededBefore DEF registry, SettledInv, Settles
      <3>2. UpToDate(s)' /\ OwnerTold(s)'
        BY <1>2, <3>1 DEF UpToDate, OwnerTold, Heard
      <3>3. Proved!IsDatabase(database) /\ Proved!Filed(database)
        BY <1>3, <3>1, DatabaseFacts DEF FiledAsTold
      <3>4. Proved!Filed(new) /\ \A e : Proved!Lists(new, e) <=> Proved!Lists(database, e)
        <4>1. new = Proved!WithLiveliness(database, s, r, matched)
          BY <2>1, SameDatabases
        <4>. QED  BY <2>2, <3>3, <4>1, Proved!WithLivelinessEndpoints, ManagedAssumption,
                     ParticipantAssumption, EndpointAssumption
      <3>5. FiledAsTold(s)'
        BY <1>2, <1>3, <2>4, <3>1, <3>4, FiledAgain DEF FiledAsTold
      <3>. QED  BY <3>2, <3>5
    <2>. QED  BY <1>2, <2>4, <2>5, OneSettles
  <1>5. CASE ~Holds(s, s, r)
    <2>1. image' = image
      BY <1>1, <1>2, <1>5 DEF UpdateSubLiveliness
    <2>2. \A t : DatabaseOf(t)' = DatabaseOf(t)
      BY <2>1 DEF DatabaseOf, EmptyDatabase, NewItem
    <2>3. Heeded(s)' => Heeded(s)
      BY <1>2, SameThread, HeededBefore DEF registry
    <2>4. Settles(s)'
      BY <1>2, <2>2, <2>3, SameParticipant DEF SettledInv
    <2>. QED  BY <1>2, <2>2, <2>4, OneSettles
  <1>. QED  BY <1>4, <1>5

\* Every step keeps the invariant.
LEMMA SettledStep ==
    IInv /\ Proved!AnyOrderInv /\ SettledInv /\ [Next]_vars => SettledInv'
  <1> SUFFICES ASSUME IInv, Proved!AnyOrderInv, SettledInv, [Next]_vars PROVE SettledInv'
    OBVIOUS
  <1>1. CASE UNCHANGED vars \/ Done
    <2>1. UNCHANGED <<image, seen, told, callback, existing, registry, main, ignored>>
      BY <1>1 DEF Done, vars, world, history
    <2>2. \A t : DatabaseOf(t)' = DatabaseOf(t)
      BY <2>1 DEF DatabaseOf, EmptyDatabase, NewItem
    <2>3. \A t \in Managed : Heeded(t)' => Heeded(t)
      BY <2>1, SameThread, HeededBefore DEF registry
    <2>. QED  BY <2>1, <2>2, <2>3, SameParticipant DEF SettledInv
  <1>2. CASE \/ \E p \in Managed : CreateParticipant(p) \/ UnregisterParticipant(p)
             \/ EventStep \/ StartTermination \/ TerminationStep
    BY <1>2, SettledThread
  <1>3. ASSUME NEW s \in Managed,
               \/ \E p \in Participant : DeliverParticipant(s, p)
               \/ \E e \in Endpoint : DeliverEndpoint(s, e)
               \/ CallbackStep(s)
        PROVE  SettledInv'
    BY <1>3, SettledDelivery, SettledOrigin, SettledUpdate, SettledApply DEF CallbackStep
  <1>4. ASSUME NEW r \in Reader, NEW matched \in BOOLEAN, LivelinessChanged(r, matched)
        PROVE  SettledInv'
    BY <1>4, SettledLiveliness
  <1>. QED  BY <1>1, <1>2, <1>3, <1>4 DEF Next

\* The databases of the manager keep what reports in any order keep of one.
LEMMA AnyOrderInvHolds == Spec => []Proved!AnyOrderInv
  <1>1. Proved!AnyOrderSpec => []Proved!AnyOrderInv
    BY Proved!AnyOrderInvariant, ManagedAssumption, ParticipantAssumption, EndpointAssumption,
       PTL
  <1>. QED  BY <1>1, ReportsApply, PTL

\* For every number of participants and every interleaving of the event thread, Fast
\* DDS and the callbacks: a participant none of whose callbacks was ignored is behind
\* Fast DDS by the callback that runs, and files every endpoint under its owner.
THEOREM SettledInvHolds == Spec => []SettledInv
  BY SettledInit, SettledStep, InvariantHolds, AnyOrderInvHolds, PTL DEF Spec

\* For every number of participants and every interleaving: once its callbacks are
\* done, the database of a registered participant none of whose callbacks was ignored
\* says exactly what Fast DDS told it.
THEOREM SettledDatabases == Spec => []SettledDatabasesMatch
  <1>1. IInv /\ Proved!AnyOrderInv /\ SettledInv => SettledDatabasesMatch
    <2> SUFFICES ASSUME IInv, Proved!AnyOrderInv, SettledInv,
                        NEW s \in members \ ignored, callback[s] = Idle,
                        NEW database, database = DatabaseOf(s)
                 PROVE  /\ {p \in DOMAIN database \ {s} : database[p].alive} =
                               seen[s].participants
                        /\ \A p \in DOMAIN database :
                              database[p].endpoints = {e \in seen[s].endpoints : Owner[e] = p}
                        /\ {Owner[e] : e \in seen[s].endpoints} \subseteq DOMAIN database
      BY DEF SettledDatabasesMatch
    <2>1. s \in Managed /\ seen[s] \in Knowledge /\ s \notin seen[s].participants
      BY DEF IInv, Fields, Subjects
    <2>2. callback[s].stage = "idle"
      BY DEF Idle
    <2>3. seen[s] = told[s] /\ FiledAsTold(s)
      BY <2>1, <2>2 DEF SettledInv, Settles, Heeded, UpToDate
    <2>4. /\ Proved!IsDatabase(database)
          /\ \A p \in Participant \ {s} :
                (p \in DOMAIN database /\ database[p].alive) <=> p \in seen[s].participants
      BY <2>1, <2>3, DatabaseFacts
    <2>5. DOMAIN database \subseteq Participant
          /\ \A p \in DOMAIN database : database[p].endpoints \subseteq Endpoint
      BY <2>4 DEF Proved!IsDatabase, Proved!ParticipantItem
    <2>6. seen[s].participants \subseteq Participant /\ seen[s].endpoints \subseteq Endpoint
      BY <2>1 DEF Knowledge
    <2>7. {p \in DOMAIN database \ {s} : database[p].alive} = seen[s].participants
      BY <2>1, <2>4, <2>5, <2>6
    <2>8. /\ \A p \in DOMAIN database : \A e \in database[p].endpoints : Owner[e] = p
          /\ \A e \in Endpoint :
                (Owner[e] \in DOMAIN database /\ e \in database[Owner[e]].endpoints)
                    <=> e \in seen[s].endpoints
      BY <2>3 DEF FiledAsTold, Proved!Filed, Proved!Lists
    <2>9. \A p \in DOMAIN database :
              database[p].endpoints = {e \in seen[s].endpoints : Owner[e] = p}
      BY <2>5, <2>6, <2>8
    <2>10. {Owner[e] : e \in seen[s].endpoints} \subseteq DOMAIN database
      BY <2>6, <2>8
    <2>. QED  BY <2>7, <2>9, <2>10
  <1>. QED  BY <1>1, InvariantHolds, AnyOrderInvHolds, SettledInvHolds, PTL

=============================================================================
