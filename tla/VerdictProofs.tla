--------------------------- MODULE VerdictProofs ---------------------------
(***************************************************************************)
(* What the tool says of a run, for every configuration: exit code 0 means *)
(* that every snapshot was taken and found valid, and a snapshot file says *)
(* to another process what the snapshots said to the one that took them.   *)
(***************************************************************************)
EXTENDS ScheduleProofs, SnapshotCompareProofs

-----------------------------------------------------------------------------
(* Sequences of anything.                                                  *)

IsSequence(s) == \E S : s \in Seq(S)

\* What Append makes of a sequence.
LEMMA AppendSequence ==
    ASSUME NEW s, IsSequence(s), NEW x
    PROVE  /\ IsSequence(Append(s, x)) /\ Len(Append(s, x)) = Len(s) + 1 /\ Len(s) \in Nat
           /\ \A i \in DOMAIN Append(s, x) :
                 (i \in DOMAIN s /\ Append(s, x)[i] = s[i]) \/ Append(s, x)[i] = x
<1>1. PICK S : s \in Seq(S)
  BY DEF IsSequence
<1>2. S \subseteq S \cup {x} /\ x \in S \cup {x}
  OBVIOUS
<1>3. s \in Seq(S \cup {x})
  BY <1>1, <1>2, SeqMonotonic
<1> DEFINE T == S \cup {x}
<1>4. s \in Seq(T) /\ x \in T
  BY <1>2, <1>3
<1> HIDE DEF T
<1>5. Append(s, x) \in Seq(T) /\ Len(Append(s, x)) = Len(s) + 1 /\ Len(s) \in Nat
  BY <1>4
<1>6. \A i \in DOMAIN Append(s, x) :
         (i \in DOMAIN s /\ Append(s, x)[i] = s[i]) \/ Append(s, x)[i] = x
  BY <1>4
<1> QED BY <1>5, <1>6 DEF IsSequence

-----------------------------------------------------------------------------
(* Counting snapshots.                                                     *)

Timed == {j \in DOMAIN config.snapshots : config.snapshots[j].time # {}}

SnapshotEvents == {i \in DOMAIN events : events[i].what = "snapshot"}

\* How many steps come before the first snapshot, less those snapshots that have
\* been loaded.
Before == Len(todo) - Len(config.snapshots)

\* The snapshots come last, in the order of the configuration.
SnapshotsLast ==
    /\ \A i \in DOMAIN todo : todo[i].what = "snapshot" <=> i > Before
    /\ \A j \in DOMAIN config.snapshots :
          Before + j >= 1 => todo[Before + j].element = config.snapshots[j]

LoadedTimed == {j \in Timed : Before + j < 1}

CountInv ==
    /\ config.root = "config" => IsSequence(snapshots)
    /\ phase = "load" /\ ~crashed =>
          SnapshotsLast /\ Cardinality(SnapshotEvents) = Cardinality(LoadedTimed)
    /\ phase = "run" /\ created = TRUE /\ ~crashed =>
          /\ Cardinality(SnapshotEvents) = Cardinality(Timed)
          /\ Len(snapshots) = Cardinality(SnapshotEvents \cap done)
    /\ phase \in {"key", "validated", "terminated", "exited"} /\ created = TRUE =>
          Len(snapshots) = Cardinality(Timed)
    /\ created = TRUE => validate = ~config.file
    /\ phase \in {"validated", "terminated", "exited"} /\ code = 0 =>
          created = TRUE /\ (shouldValidate => validateAllSnapshots)

\* The sets that are counted are finite.
LEMMA CountedAreFinite ==
    ASSUME Typed
    PROVE  /\ IsFiniteSet(Timed) /\ IsFiniteSet(LoadedTimed)
           /\ IsFiniteSet(SnapshotEvents) /\ IsFiniteSet(SnapshotEvents \cap done)
<1>1. /\ Len(events) \in Nat /\ DOMAIN events = 1 .. Len(events)
      /\ Len(config.snapshots) \in Nat /\ DOMAIN config.snapshots = 1 .. Len(config.snapshots)
  BY DEF Typed, IsList, Configuration
<1>2. IsFiniteSet(DOMAIN events) /\ IsFiniteSet(DOMAIN config.snapshots)
  <2>1. \A n \in Nat : IsFiniteSet(1 .. n)
    BY FS_Interval
  <2> QED BY <1>1, <2>1
<1>3. IsFiniteSet(Timed) /\ IsFiniteSet(SnapshotEvents)
  BY <1>2, FS_Subset DEF Timed, SnapshotEvents
<1>4. LoadedTimed \subseteq Timed /\ SnapshotEvents \cap done \subseteq SnapshotEvents
  BY DEF LoadedTimed
<1> QED BY <1>3, <1>4, FS_Subset

\* Steps that load no snapshot leave none to be found before the others.
LEMMA LastMoved ==
    ASSUME Typed, Typed', SnapshotsLast, todo # <<>>, todo[1].what # "snapshot", config' = config,
           NEW first \in Seq(EndpointsToLoad), Moved(todo, first, todo')
    PROVE  SnapshotsLast' /\ LoadedTimed' = LoadedTimed
<1> DEFINE n == Len(first)
           b == Before
           m == Len(config.snapshots)
<1>1. /\ n \in Nat /\ Len(todo) \in Nat \ {0} /\ Len(todo') \in Nat /\ m \in Nat
      /\ DOMAIN todo = 1 .. Len(todo) /\ DOMAIN todo' = 1 .. Len(todo')
      /\ DOMAIN config.snapshots = 1 .. m
  BY DEF Typed, Configuration
<1>2. /\ Len(todo') = n + Len(todo) - 1
      /\ \A i \in DOMAIN todo' :
            \/ i \in DOMAIN first /\ todo'[i] = first[i]
            \/ i - n + 1 \in DOMAIN todo \ {1} /\ todo'[i] = todo[i - n + 1]
      /\ \A i \in DOMAIN todo \ {1} : i + n - 1 \in DOMAIN todo' /\ todo'[i + n - 1] = todo[i]
  BY DEF Moved
<1>3. \A i \in DOMAIN first : first[i].what = "endpoint" /\ i <= n /\ i \in Nat
  <2>1. \A i \in DOMAIN first : first[i] \in EndpointsToLoad /\ i \in 1 .. n
    OBVIOUS
  <2>2. \A i \in DOMAIN first : first[i].what = "endpoint"
    BY <2>1 DEF EndpointsToLoad
  <2> HIDE DEF n
  <2> QED BY <1>1, <2>1, <2>2
<1> HIDE DEF n, m
<1>4. b = Len(todo) - m /\ Before' = Len(todo') - m
  BY DEF Before, m
<1>5. 1 \in DOMAIN todo /\ b >= 1 /\ b \in Int
  <2>1. 1 \in DOMAIN todo /\ b \in Int
    BY <1>1, <1>4
  <2>2. ~(1 > b)
    BY <2>1 DEF SnapshotsLast
  <2> QED BY <2>1, <2>2
<1>6. Before' = b + n - 1 /\ Before' \in Int /\ Before' >= n
  BY <1>1, <1>2, <1>4, <1>5
<1> HIDE DEF b
<1>7. ASSUME NEW i \in DOMAIN todo' PROVE todo'[i].what = "snapshot" <=> i > Before'
  <2>1. i \in Nat
    BY <1>1
  <2>2. CASE i \in DOMAIN first /\ todo'[i] = first[i]
    BY <1>1, <1>3, <1>6, <2>1, <2>2
  <2>3. CASE i - n + 1 \in DOMAIN todo \ {1} /\ todo'[i] = todo[i - n + 1]
    <3>1. todo[i - n + 1].what = "snapshot" <=> i - n + 1 > b
      BY <2>3 DEF SnapshotsLast, b
    <3> QED BY <1>1, <1>5, <1>6, <2>1, <2>3, <3>1
  <2> QED BY <1>2, <2>2, <2>3
<1>8. ASSUME NEW j \in DOMAIN config.snapshots
      PROVE  todo'[Before' + j].element = config.snapshots[j]
  <2>1. j \in Nat /\ j >= 1 /\ j <= m
    BY <1>1
  <2>2. b + j >= 2 /\ b + j <= Len(todo) /\ b + j \in Nat
    BY <1>1, <1>4, <1>5, <2>1
  <2>3. b + j \in DOMAIN todo \ {1}
    BY <1>1, <2>2
  <2>4. todo'[(b + j) + n - 1] = todo[b + j]
    BY <1>2, <2>3
  <2>5. (b + j) + n - 1 = Before' + j
    BY <1>1, <1>5, <1>6, <2>1
  <2>6. todo[b + j].element = config.snapshots[j]
    <3>1. b + j >= 1
      BY <2>2
    <3> QED BY <3>1 DEF SnapshotsLast, b
  <2> QED BY <2>4, <2>5, <2>6
<1>9. SnapshotsLast'
  BY <1>7, <1>8 DEF SnapshotsLast
<1>10. LoadedTimed = {} /\ LoadedTimed' = {}
  <2>1. \A j \in DOMAIN config.snapshots : ~(b + j < 1) /\ ~(Before' + j < 1)
    BY <1>1, <1>5, <1>6
  <2> QED BY <2>1 DEF LoadedTimed, Timed, b
<1> QED BY <1>9, <1>10

\* The next snapshot is loaded.
LEMMA LastLoaded ==
    ASSUME Typed, Typed', SnapshotsLast, todo # <<>>, todo[1].what = "snapshot", config' = config,
           todo' = Tail(todo)
    PROVE  /\ SnapshotsLast'
           /\ \E k \in DOMAIN config.snapshots :
                 /\ todo[1].element = config.snapshots[k]
                 /\ k \notin LoadedTimed
                 /\ LoadedTimed' = LoadedTimed \cup ({k} \cap Timed)
<1> DEFINE first == <<>>
           b == Before
           m == Len(config.snapshots)
           k == 1 - b
<1>1. /\ Len(todo) \in Nat \ {0} /\ Len(todo') \in Nat /\ m \in Nat
      /\ DOMAIN todo = 1 .. Len(todo) /\ DOMAIN todo' = 1 .. Len(todo')
      /\ DOMAIN config.snapshots = 1 .. m
  BY DEF Typed, Configuration
<1>2. /\ Len(todo') = Len(todo) - 1
      /\ \A i \in DOMAIN todo' : i + 1 \in DOMAIN todo /\ todo'[i] = todo[i + 1]
  BY <1>1 DEF Typed
<1> HIDE DEF m
<1>3. b = Len(todo) - m /\ Before' = Len(todo') - m
  BY DEF Before, m
<1>4. 1 \in DOMAIN todo /\ b < 1 /\ b \in Int /\ k \in Nat /\ k \in 1 .. m
  <2>1. 1 \in DOMAIN todo /\ b \in Int
    BY <1>1, <1>3
  <2>2. 1 > b
    BY <2>1 DEF SnapshotsLast
  <2> QED BY <1>1, <1>3, <2>1, <2>2
<1>5. Before' = b - 1
  BY <1>1, <1>2, <1>3
<1> HIDE DEF b
<1>6. ASSUME NEW i \in DOMAIN todo' PROVE todo'[i].what = "snapshot" <=> i > Before'
  <2>1. i \in Nat /\ i + 1 \in DOMAIN todo /\ todo'[i] = todo[i + 1]
    BY <1>1, <1>2
  <2>2. todo[i + 1].what = "snapshot" <=> i + 1 > b
    BY <2>1 DEF SnapshotsLast, b
  <2> QED BY <1>4, <1>5, <2>1, <2>2
<1>7. ASSUME NEW j \in DOMAIN config.snapshots, Before' + j >= 1
      PROVE  todo'[Before' + j].element = config.snapshots[j]
  <2>1. j \in Nat /\ j <= m
    BY <1>1
  <2>2. Before' + j \in DOMAIN todo' /\ (Before' + j) + 1 = b + j /\ b + j >= 1
    BY <1>1, <1>2, <1>3, <1>4, <1>5, <1>7, <2>1
  <2>3. todo'[Before' + j] = todo[b + j]
    BY <1>2, <2>2
  <2>4. todo[b + j].element = config.snapshots[j]
    BY <2>2 DEF SnapshotsLast, b
  <2> QED BY <2>3, <2>4
<1>8. SnapshotsLast'
  BY <1>6, <1>7 DEF SnapshotsLast
<1>9. todo[1].element = config.snapshots[k] /\ k \in DOMAIN config.snapshots
  <2>1. b + k = 1 /\ k \in DOMAIN config.snapshots
    BY <1>1, <1>4
  <2>2. b + k >= 1
    BY <2>1
  <2>3. todo[b + k].element = config.snapshots[k]
    BY <2>1, <2>2 DEF SnapshotsLast, b
  <2> QED BY <2>1, <2>3
<1>10. k \notin LoadedTimed
  BY <1>4 DEF LoadedTimed, b
<1>11. \A j \in DOMAIN config.snapshots : Before' + j < 1 <=> b + j < 1 \/ j = k
  BY <1>1, <1>4, <1>5
<1>12. LoadedTimed' = LoadedTimed \cup ({k} \cap Timed)
  <2>1. Timed' = Timed /\ Timed \subseteq DOMAIN config.snapshots
    BY DEF Timed
  <2>2. LoadedTimed' = {j \in Timed : Before' + j < 1} /\ LoadedTimed = {j \in Timed : b + j < 1}
    BY <2>1 DEF LoadedTimed, b
  <2> HIDE DEF k
  <2> QED BY <1>11, <2>1, <2>2
<1> HIDE DEF k
<1> QED BY <1>8, <1>9, <1>10, <1>12

\* Lists that keep each other's events have the same snapshots to take.
LEMMA SameSnapshotEvents ==
    ASSUME Kept(events, events'),
           \A i \in DOMAIN events' \ DOMAIN events : events'[i].what # "snapshot"
    PROVE  SnapshotEvents' = SnapshotEvents
BY DEF Kept, SameEvent, SnapshotEvents

\* One step of the constructor.
LEMMA LoadCounted ==
    ASSUME Typed, Typed', SnapshotsLast, Cardinality(SnapshotEvents) = Cardinality(LoadedTimed),
           LoadElement, ~crashed'
    PROVE  /\ SnapshotsLast'
           /\ (Cardinality(SnapshotEvents) = Cardinality(LoadedTimed))'
           /\ snapshots' = snapshots
<1> DEFINE step == todo[1]
<1>1. /\ todo # <<>> /\ step \in Step /\ OwnedIn(events, step) /\ Head(todo) = step
      /\ config' = config /\ IsList(events)
  BY HeadStep DEF LoadElement, Typed
<1>2. ASSUME step.what # "snapshot", NEW first \in Seq(EndpointsToLoad), Moved(todo, first, todo'),
             Kept(events, events'),
             \A i \in DOMAIN events' \ DOMAIN events : events'[i].what # "snapshot"
      PROVE  SnapshotsLast' /\ (Cardinality(SnapshotEvents) = Cardinality(LoadedTimed))'
  <2>1. SnapshotsLast' /\ LoadedTimed' = LoadedTimed
    BY <1>1, <1>2, LastMoved
  <2>2. SnapshotEvents' = SnapshotEvents
    BY <1>2, SameSnapshotEvents
  <2> QED BY <2>1, <2>2
<1>3. CASE /\ step.what = "participant"
           /\ loadServer(step.element) \/ loadClient(step.element) \/ loadSimple(step.element)
  <2>1. step.element \in ParticipantElement
    BY <1>1, <1>3, StepKinds DEF ParticipantSteps
  <2>2. PassedOver(step.element) \/ Refused(step.element) \/ Accepted(step.element)
    BY <1>3, <2>1, LoadParticipant
  <2>3. CASE PassedOver(step.element)
    <3>1. todo' = Tail(todo) /\ events' = events /\ snapshots' = snapshots
      BY <2>3 DEF PassedOver, Skip
    <3>2. Moved(todo, <<>>, todo') /\ <<>> \in Seq(EndpointsToLoad)
      BY <1>1, <3>1, TodoTail
    <3>3. Kept(events, events')
      BY <1>1, <3>1, KeptSame
    <3>4. /\ step.what # "snapshot"
          /\ \A i \in DOMAIN events' \ DOMAIN events : events'[i].what # "snapshot"
      BY <1>3, <3>1
    <3> QED BY <1>2, <3>1, <3>2, <3>3, <3>4
  <2>4. CASE Refused(step.element)
    BY <2>4 DEF Refused
  <2>5. CASE Accepted(step.element)
    <3>1. PICK c \in Nat, d \in Nat, first \in Seq(EndpointsToLoad) :
             /\ Arranged(events, events', step.element, c, d)
             /\ todo' = first \o Tail(todo)
      BY <2>5 DEF Accepted
    <3>2. Moved(todo, first, todo')
      BY <1>1, <3>1, TodoRest
    <3>3. Kept(events, events')
      BY <3>1 DEF Arranged
    <3>4. \A i \in DOMAIN events' \ DOMAIN events : events'[i].what # "snapshot"
      <4>1. \A i \in DOMAIN events' : i # 0
        BY <3>3 DEF Kept, IsList
      <4> QED BY <3>1, <4>1 DEF Arranged, CreateParticipantEvent, DestroyParticipantEvent
    <3>5. snapshots' = snapshots
      BY <2>5 DEF Accepted, Arrives, Joins
    <3> QED BY <1>2, <1>3, <3>2, <3>3, <3>4, <3>5
  <2> QED BY <2>2, <2>3, <2>4, <2>5
<1>4. CASE step.what = "endpoint" /\ (loadPublisher(step) \/ loadSubscriber(step))
  <2>1. step \in EndpointsToLoad /\ LoadEndpoint(step)
    BY <1>1, <1>4, StepKinds DEF loadPublisher, loadSubscriber
  <2>2. todo' = Tail(todo) /\ OnlyEndpoints(events, events') /\ snapshots' = snapshots
    BY <1>1, <2>1, LoadsEndpoint
  <2>3. Moved(todo, <<>>, todo') /\ <<>> \in Seq(EndpointsToLoad)
    BY <1>1, <2>2, TodoTail
  <2>4. /\ Kept(events, events') /\ step.what # "snapshot"
        /\ \A i \in DOMAIN events' \ DOMAIN events : events'[i].what # "snapshot"
    BY <1>4, <2>2 DEF OnlyEndpoints
  <2> QED BY <1>2, <2>2, <2>3, <2>4
<1>5. CASE step.what = "snapshot" /\ loadSnapshot(step.element)
  <2> DEFINE element == step.element
             last == Len(events) + 1
  <2>1. element \in SnapshotElement
    BY <1>1, <1>5, StepKinds DEF SnapshotSteps
  <2>2. /\ snapshots' = snapshots /\ todo' = Tail(todo)
        /\ \/ element.time = {} /\ events' = events
           \/ ~element.described /\ events' = events /\ crashed' = TRUE
           \/ /\ element.time # {}
              /\ \A i \in DOMAIN events : events'[i] = events[i]
              /\ DOMAIN events' = DOMAIN events \cup {last}
              /\ last \notin DOMAIN events
              /\ events'[last].what = "snapshot"
    BY <1>5, <2>1, LoadsSnapshot
  <2>3. SnapshotsLast'
    BY <1>1, <1>5, <2>2, LastLoaded
  <2>4. PICK k \in DOMAIN config.snapshots :
           /\ element = config.snapshots[k]
           /\ k \notin LoadedTimed
           /\ LoadedTimed' = LoadedTimed \cup ({k} \cap Timed)
    BY <1>1, <1>5, <2>2, LastLoaded
  <2>5. k \in Timed <=> element.time # {}
    BY <2>4 DEF Timed
  <2> HIDE DEF element, last
  <2>6. CASE element.time = {} /\ events' = events
    <3>1. SnapshotEvents' = SnapshotEvents
      BY <2>6 DEF SnapshotEvents
    <3>2. LoadedTimed' = LoadedTimed
      BY <2>4, <2>5, <2>6
    <3> QED BY <2>2, <2>3, <3>1, <3>2
  <2>7. CASE /\ element.time # {}
             /\ \A i \in DOMAIN events : events'[i] = events[i]
             /\ DOMAIN events' = DOMAIN events \cup {last}
             /\ last \notin DOMAIN events
             /\ events'[last].what = "snapshot"
    <3>1. SnapshotEvents' = SnapshotEvents \cup {last} /\ last \notin SnapshotEvents
      BY <2>7 DEF SnapshotEvents
    <3>2. LoadedTimed' = LoadedTimed \cup {k} /\ k \notin LoadedTimed
      BY <2>4, <2>5, <2>7
    <3>3. IsFiniteSet(SnapshotEvents) /\ IsFiniteSet(LoadedTimed)
      BY CountedAreFinite
    <3>4. /\ Cardinality(SnapshotEvents \cup {last}) = Cardinality(SnapshotEvents) + 1
          /\ Cardinality(LoadedTimed \cup {k}) = Cardinality(LoadedTimed) + 1
      BY <3>1, <3>2, <3>3, FS_AddElement
    <3>5. Cardinality(SnapshotEvents)' = Cardinality(LoadedTimed)'
      BY <3>1, <3>2, <3>4
    <3> QED BY <2>2, <2>3, <3>5
  <2> QED BY <2>2, <2>6, <2>7
<1> QED BY <1>1, <1>3, <1>4, <1>5 DEF LoadElement

\* Only a snapshot event takes one.
LEMMA RunTakes ==
    ASSUME Typed, DOMAIN members = DOMAIN existing, NEW i \in Pending, RunEvent(i)
    PROVE  \/ events[i].what # "snapshot" /\ snapshots' = snapshots
           \/ events[i].what = "snapshot" /\ TakeSnapshot(events[i].time, events[i].element)
<1>1. i \in DOMAIN events /\ events[i] \in Event /\ Execute(i, events[i])
  BY DEF Pending, RunEvent, Typed, IsList
<1>2. CASE events[i].what = "create"
  BY <1>1, <1>2, RunsCreation
<1>3. CASE events[i].what = "destroy"
  BY <1>1, <1>3, RunsDestruction
<1>4. CASE events[i].what \in {"createEndpoint", "destroyEndpoint"}
  BY <1>1, <1>4, RunsEndpointEvent
<1>5. CASE events[i].what = "snapshot"
  BY <1>1, <1>5 DEF Execute
<1> QED BY <1>1, <1>2, <1>3, <1>4, <1>5, EventKinds

\* One event.
LEMMA RunCounted ==
    ASSUME Typed, DOMAIN members = DOMAIN existing, IsSequence(snapshots), NEW i \in Pending,
           RunEvent(i), UNCHANGED <<config, todo>>,
           Len(snapshots) = Cardinality(SnapshotEvents \cap done)
    PROVE  /\ IsSequence(snapshots') /\ SnapshotEvents' = SnapshotEvents
           /\ (Len(snapshots) = Cardinality(SnapshotEvents \cap done))'
<1>1. /\ i \in DOMAIN events /\ i \notin done /\ events[i] \in Event
      /\ Execute(i, events[i]) /\ done' = done \cup {i}
  BY DEF Pending, RunEvent, Typed, IsList
<1>2. Kept(events, events') /\ DOMAIN events' = DOMAIN events
  BY RunTyped
<1>3. SnapshotEvents' = SnapshotEvents
  BY <1>2, SameSnapshotEvents
<1>4. CASE events[i].what # "snapshot" /\ snapshots' = snapshots
  <2>1. SnapshotEvents \cap done' = SnapshotEvents \cap done
    BY <1>1, <1>4 DEF SnapshotEvents
  <2> QED BY <1>3, <1>4, <2>1
<1>5. CASE events[i].what = "snapshot" /\ TakeSnapshot(events[i].time, events[i].element)
  <2>1. PICK shot : snapshots' = Append(snapshots, shot)
    BY <1>5 DEF TakeSnapshot
  <2>2. IsSequence(snapshots') /\ Len(snapshots') = Len(snapshots) + 1
    BY <2>1, AppendSequence
  <2>3. /\ SnapshotEvents \cap done' = (SnapshotEvents \cap done) \cup {i}
        /\ i \notin SnapshotEvents \cap done
    BY <1>1, <1>5 DEF SnapshotEvents
  <2>4. IsFiniteSet(SnapshotEvents \cap done)
    BY CountedAreFinite
  <2>5. Cardinality((SnapshotEvents \cap done) \cup {i}) = Cardinality(SnapshotEvents \cap done) + 1
    BY <2>3, <2>4, FS_AddElement
  <2> QED BY <1>3, <2>2, <2>3, <2>5
<1> QED BY <1>4, <1>5, RunTakes

\* A step before which, and after which, nothing has been counted.
LEMMA NotCounting ==
    ASSUME config'.root = "config" => IsSequence(snapshots'), phase' \in {"start", "run"},
           created' = FALSE
    PROVE  CountInv'
BY DEF CountInv

\* What a process that returns from main has counted stays as it is.
LEMMA UnchangedCount ==
    ASSUME CountInv, phase \in {"key", "validated", "terminated", "exited"},
           phase' \in {"key", "validated", "terminated", "exited"},
           phase' \in {"validated", "terminated", "exited"} =>
              phase \in {"validated", "terminated", "exited"},
           UNCHANGED <<config, snapshots, created, validate, code>>
    PROVE  CountInv'
<1>1. Timed' = Timed /\ (shouldValidate' <=> shouldValidate)
  BY DEF Timed, shouldValidate
<1>2. validateAllSnapshots' <=> validateAllSnapshots
  BY DEF validateAllSnapshots
<1> QED BY <1>1, <1>2 DEF CountInv

\* main looks at the snapshots.
LEMMA ConcludeCounted ==
    ASSUME CountInv, created \in BOOLEAN, Conclude,
           created = TRUE => Len(snapshots) = Cardinality(Timed)
    PROVE  CountInv'
<1>1. phase' = "validated" /\ UNCHANGED <<config, snapshots, created, validate>>
  BY DEF Conclude
<1>2. Timed' = Timed /\ (shouldValidate' <=> shouldValidate)
  BY <1>1 DEF Timed, shouldValidate
<1>3. validateAllSnapshots' <=> validateAllSnapshots
  BY <1>1 DEF validateAllSnapshots
<1>4. code' = 0 => created = TRUE /\ (shouldValidate => validateAllSnapshots)
  <2>1. CASE shouldValidate /\ ~validateAllSnapshots
    BY <2>1 DEF Conclude
  <2>2. CASE ~(shouldValidate /\ ~validateAllSnapshots)
    BY <2>2 DEF Conclude
  <2> QED BY <2>1, <2>2
<1> QED BY <1>1, <1>2, <1>3, <1>4 DEF CountInv

\* When every event has run every snapshot has been taken.
LEMMA AllRunCounted ==
    ASSUME ScheduleInv, CountInv, AllRun, ~crashed
    PROVE  created = TRUE => Len(snapshots) = Cardinality(Timed)
<1>1. done = DOMAIN events /\ phase = "run"
  BY DEF AllRun, Pending, ScheduleInv, Typed
<1>2. SnapshotEvents \cap done = SnapshotEvents
  BY <1>1 DEF SnapshotEvents
<1> QED BY <1>1, <1>2 DEF CountInv

\* The constructor starts, with all snapshots to come.
LEMMA StartCounted ==
    ASSUME Typed, Typed', config' = config, todo' = AllSteps, events' = <<>>
    PROVE  SnapshotsLast' /\ (Cardinality(SnapshotEvents) = Cardinality(LoadedTimed))'
<1> DEFINE n == Len(config.participants)
           m == Len(config.snapshots)
<1>1. /\ n \in Nat /\ m \in Nat /\ DOMAIN config.snapshots = 1 .. m
      /\ Len(todo') = n + m
      /\ \A i \in 1 .. n : todo'[i] = [what |-> "participant", element |-> config.participants[i]]
      /\ \A i \in 1 .. m : todo'[n + i] = [what |-> "snapshot", element |-> config.snapshots[i]]
      /\ \A i \in DOMAIN todo' :
            \/ i \in 1 .. n
            \/ i - n \in 1 .. m /\ todo'[i] = [what |-> "snapshot",
                                               element |-> config.snapshots[i - n]]
  <2>1. config \in Configuration
    BY DEF Typed
  <2> QED BY <2>1, AllStepsFacts, Zenon
<1>2. DOMAIN todo' = 1 .. Len(todo')
  BY DEF Typed
<1>3. Before' = Len(todo') - m
  BY DEF Before
<1> HIDE DEF n, m
<1>4. Before' = n
  BY <1>1, <1>3
<1>5. ASSUME NEW i \in DOMAIN todo' PROVE todo'[i].what = "snapshot" <=> i > Before'
  <2>1. CASE i \in 1 .. n
    <3>1. todo'[i] = [what |-> "participant", element |-> config.participants[i]]
      BY <1>1, <2>1, Zenon
    <3> QED BY <1>1, <1>4, <2>1, <3>1
  <2>2. CASE i \notin 1 .. n
    <3>1. i - n \in 1 .. m /\ todo'[i] = [what |-> "snapshot", element |-> config.snapshots[i - n]]
      BY <1>1, <2>2, Zenon
    <3>2. i \in Nat
      BY <1>1, <1>2
    <3> QED BY <1>1, <1>4, <3>1, <3>2
  <2> QED BY <2>1, <2>2
<1>6. ASSUME NEW j \in DOMAIN config.snapshots
      PROVE  todo'[Before' + j].element = config.snapshots[j] /\ ~(Before' + j < 1)
  <2>1. j \in 1 .. m
    BY <1>1
  <2>2. todo'[n + j] = [what |-> "snapshot", element |-> config.snapshots[j]]
    BY <1>1, <2>1, Zenon
  <2> QED BY <1>1, <1>4, <2>1, <2>2
<1>7. SnapshotsLast'
  BY <1>5, <1>6 DEF SnapshotsLast
<1>8. LoadedTimed' = {} /\ SnapshotEvents' = {}
  BY <1>6 DEF LoadedTimed, Timed, SnapshotEvents
<1> QED BY <1>7, <1>8

\* Every step.
LEMMA NextCountInv == ScheduleInv /\ ScheduleInv' /\ CountInv /\ [Next]_serverVars => CountInv'
<1> SUFFICES ASSUME ScheduleInv, ScheduleInv', CountInv, [Next]_serverVars PROVE CountInv'
  OBVIOUS
<1>1. Typed /\ Typed' /\ InPhase /\ InPhase' /\ IInv
  BY DEF ScheduleInv
<1>2. ASSUME UNCHANGED <<events, done, snapshots, crashed, config, phase, todo, created, validate,
                         code>>
      PROVE  CountInv'
  BY <1>2 DEF CountInv, SnapshotsLast, Before, SnapshotEvents, LoadedTimed, Timed, shouldValidate,
              validateAllSnapshots
<1>3. CASE UNCHANGED serverVars
  BY <1>2, <1>3 DEF serverVars, mainVars
<1>4. CASE ~crashed /\ ReadFile
  <2>1. phase = "start" /\ UNCHANGED <<events, config, created, code>>
    BY <1>4 DEF ReadFile
  <2>2. events = <<>> /\ created = FALSE /\ snapshots = <<>>
    BY <1>1, <2>1 DEF InPhase
  <2>3. CASE phase' = "load" /\ todo' = AllSteps /\ snapshots' = snapshots
    <3>1. SnapshotsLast' /\ (Cardinality(SnapshotEvents) = Cardinality(LoadedTimed))'
      BY <1>1, <2>1, <2>2, <2>3, StartCounted
    <3> QED BY <1>1, <2>1, <2>2, <2>3, <3>1 DEF CountInv
  <2>4. CASE phase' = "run"
    <3>1. config'.root = "config" => snapshots' = snapshots
      BY <1>4, <2>1 DEF ReadFile
    <3> QED BY <2>1, <2>2, <2>4, <3>1, NotCounting DEF CountInv
  <2> QED BY <1>4, <2>3, <2>4 DEF ReadFile, AllSteps
<1>5. CASE ~crashed /\ LoadElement
  <2>1. phase = "load" /\ UNCHANGED <<phase, config, created, validate, code>> /\ created = FALSE
    BY <1>1, <1>5 DEF LoadElement, InPhase
  <2>2. ASSUME ~crashed'
        PROVE  /\ SnapshotsLast' /\ (Cardinality(SnapshotEvents) = Cardinality(LoadedTimed))'
               /\ snapshots' = snapshots
    BY <1>1, <1>5, <2>1, <2>2, LoadCounted DEF CountInv
  <2>3. IsSequence(snapshots')
    <3>1. snapshots' = <<>>
      BY <1>1, <2>1 DEF InPhase
    <3> QED BY <3>1 DEF IsSequence
  <2> QED BY <2>1, <2>2, <2>3 DEF CountInv
<1>6. CASE ~crashed /\ Loaded
  <2>1. /\ phase = "load" /\ todo = <<>> /\ phase' = "run"
        /\ UNCHANGED <<config, todo, events, done, snapshots>> /\ validate' = ~config.file
    BY <1>6 DEF Loaded
  <2>2. done = {} /\ snapshots = <<>> /\ Cardinality(SnapshotEvents) = Cardinality(LoadedTimed)
    BY <1>1, <1>6, <2>1 DEF InPhase, CountInv
  <2>3. LoadedTimed = Timed
    <3>1. /\ Len(todo) = 0 /\ Len(config.snapshots) \in Nat
          /\ DOMAIN config.snapshots = 1 .. Len(config.snapshots)
      BY <1>1, <2>1 DEF Typed, Configuration
    <3>2. \A j \in DOMAIN config.snapshots : Before + j < 1
      BY <3>1 DEF Before
    <3> QED BY <3>2 DEF LoadedTimed, Timed
  <2>4. Timed' = Timed /\ SnapshotEvents' = SnapshotEvents
    BY <2>1 DEF Timed, SnapshotEvents
  <2>5. Len(snapshots') = Cardinality(SnapshotEvents \cap done)'
    <3>1. (SnapshotEvents \cap done)' = {} /\ Len(snapshots') = 0
      BY <2>1, <2>2
    <3> QED BY <3>1, FS_EmptySet
  <2> QED BY <1>1, <2>1, <2>2, <2>3, <2>4, <2>5 DEF CountInv
<1>7. CASE ~crashed /\ RunEvents
  <2>1. PICK i \in Pending : RunEvent(i)
    BY <1>7 DEF RunEvents
  <2>2. phase = "run" /\ UNCHANGED <<config, phase, todo, created, validate, code>>
    BY <1>7 DEF RunEvents, mainVars
  <2>3. DOMAIN members = DOMAIN existing
    BY <1>1, <2>2 DEF IInv, Live, Consistent, Agreement
  <2>4. Timed' = Timed
    BY <2>2 DEF Timed
  <2>5. IsSequence(snapshots)
    <3>1. config.root = "config"
      BY <1>1, <2>1 DEF InPhase, Pending
    <3> QED BY <3>1 DEF CountInv
  <2>6. CASE created = TRUE
    <3>1. /\ IsSequence(snapshots)' /\ SnapshotEvents' = SnapshotEvents
          /\ (Len(snapshots) = Cardinality(SnapshotEvents \cap done))'
      BY <1>1, <1>7, <2>1, <2>2, <2>3, <2>5, <2>6, RunCounted DEF CountInv
    <3> QED BY <1>7, <2>2, <2>4, <2>6, <3>1 DEF CountInv
  <2>7. CASE created = FALSE
    <3>1. snapshots' = snapshots \/ \E shot : snapshots' = Append(snapshots, shot)
      BY <1>1, <2>1, <2>3, RunTakes DEF TakeSnapshot
    <3>2. IsSequence(snapshots')
      BY <2>5, <3>1, AppendSequence
    <3> QED BY <2>2, <2>7, <3>2, NotCounting
  <2> QED BY <1>1, <2>6, <2>7 DEF InPhase
<1>8. CASE ~crashed /\ UserShutdown
  <2>1. /\ phase' = "key" /\ UNCHANGED <<config, snapshots, created, validate, code>> /\ AllRun
    BY <1>8 DEF UserShutdown
  <2>2. created = TRUE => Len(snapshots) = Cardinality(Timed)
    BY <1>8, <2>1, AllRunCounted
  <2>3. Timed' = Timed
    BY <2>1 DEF Timed
  <2> QED BY <2>1, <2>2, <2>3 DEF CountInv
<1>9. CASE ~crashed /\ Validate
  <2>1. created = TRUE => Len(snapshots) = Cardinality(Timed)
    BY <1>9, AllRunCounted DEF Validate
  <2> QED BY <1>1, <1>9, <2>1, ConcludeCounted DEF Validate, InPhase
<1>10. CASE ~crashed /\ KeyPressed
  <2>1. created = TRUE => Len(snapshots) = Cardinality(Timed)
    BY <1>10 DEF KeyPressed, CountInv
  <2> QED BY <1>1, <1>10, <2>1, ConcludeCounted DEF KeyPressed, InPhase
<1>11. CASE ~crashed /\ (Terminate \/ Exit)
  <2>1. /\ phase \in {"validated", "terminated"} /\ phase' \in {"terminated", "exited"}
        /\ UNCHANGED <<config, snapshots, created, validate, code>>
    BY <1>11 DEF Terminate, Exit
  <2> QED BY <2>1, UnchangedCount
<1>12. ASSUME NEW s, NEW p, on_participant_discovery(s, p) PROVE CountInv'
  BY <1>2, <1>12 DEF on_participant_discovery, mainVars
<1>13. CASE StartAgain
  <2>1. phase' = "start" /\ created' = FALSE /\ snapshots' = <<>>
    BY <1>13 DEF StartAgain
  <2>2. IsSequence(<<>>)
    BY DEF IsSequence
  <2> QED BY <2>1, <2>2, NotCounting
<1> QED BY <1>3, <1>4, <1>5, <1>6, <1>7, <1>8, <1>9, <1>10, <1>11, <1>12, <1>13 DEF Next, Main

\* Nothing has been counted at first.
LEMMA InitCountInv == Init => CountInv
<1>1. IsSequence(<<>>)
  BY DEF IsSequence
<1> QED BY <1>1 DEF Init, CountInv

\* Exit code 0, for every configuration and however the events of one time and the
\* callbacks are ordered: the configuration was read to its end, as many snapshots
\* were taken as it asks for, and unless it wants them in a file all were found valid.
THEOREM SuccessIsChecked == Spec => []SuccessMeansChecked
<1>1. Init => CountInv
  BY InitCountInv
<1>2. ScheduleInv /\ ScheduleInv' /\ CountInv /\ [Next]_serverVars => CountInv'
  BY NextCountInv
<1>3. ScheduleInv /\ CountInv => SuccessMeansChecked
  <2> SUFFICES ASSUME ScheduleInv, CountInv, phase = "exited", code = 0
               PROVE  /\ config.root = "config" /\ ~config.unset
                      /\ Len(snapshots) = Cardinality(Timed)
                      /\ config.file \/ validateAllSnapshots
    BY DEF SuccessMeansChecked, Timed
  <2>1. created = TRUE /\ (shouldValidate => validateAllSnapshots)
    BY DEF CountInv
  <2>2. validate = ~config.file /\ Len(snapshots) = Cardinality(Timed)
    BY <2>1 DEF CountInv
  <2>3. config.root = "config" /\ ~config.unset
    BY <2>1 DEF ScheduleInv, InPhase
  <2>4. CASE snapshots = <<>>
    BY <2>2, <2>3, <2>4 DEF validateAllSnapshots
  <2>5. CASE snapshots # <<>>
    BY <2>1, <2>2, <2>3, <2>5 DEF shouldValidate
  <2> QED BY <2>4, <2>5
<1> QED BY <1>1, <1>2, <1>3, ScheduleTyped, PTL DEF Spec

-----------------------------------------------------------------------------
(* Comparing depends on who is alive and which endpoints he has only.      *)

SameDatabase(database, other) ==
    /\ DOMAIN other = DOMAIN database
    /\ \A q \in DOMAIN database : /\ other[q].alive = database[q].alive
                                  /\ other[q].endpoints = database[q].endpoints

\* operator== says the same of databases that say the same.
LEMMA SameComparison ==
    ASSUME NEW leftDb, NEW rightDb, NEW left, NEW right, NEW l, NEW r,
           SameDatabase(leftDb, left), SameDatabase(rightDb, right), Comparable(leftDb, rightDb)
    PROVE  Matches(left, right, l, r) = Matches(leftDb, rightDb, l, r)
<1> DEFINE P == Positions(leftDb, rightDb)
           one == Comparison(leftDb, rightDb, l, r)
           two == Comparison(left, right, l, r)
           Bad == {at \in P : two[at] # one[at]}
           start == [left |-> Living(leftDb), right |-> Living(rightDb)]
<1>1. Living(left) = Living(leftDb) /\ Living(right) = Living(rightDb)
  BY DEF SameDatabase, Living
<1>2. Positions(left, right) = P /\ Comparable(left, right)
  BY <1>1 DEF Positions, Comparable
<1>3. /\ \A at \in P : one[at] = ComparisonStep(leftDb, rightDb, l, r, one, at)
      /\ \A at \in P : two[at] = ComparisonStep(left, right, l, r, two, at)
  BY <1>2, ComparisonUnfolds
<1>4. ASSUME NEW at \in P, \A other \in P : Distance(other) < Distance(at) => two[other] = one[other]
      PROVE  two[at] = one[at]
  <2>1. /\ SkipRight(left, right, l, r, at) = SkipRight(leftDb, rightDb, l, r, at)
        /\ OwnSkipped(left, right, l, r, at) = OwnSkipped(leftDb, rightDb, l, r, at)
    BY <1>1 DEF SkipRight, OwnSkipped, SameSize
  <2>2. ASSUME at.left # {}, at.right # {}
        PROVE  /\ two[BothAdvanced(at)] = one[BothAdvanced(at)]
               /\ SkipLeft(at, l) \/ SkipRight(leftDb, rightDb, l, r, at) =>
                     two[OwnSkipped(leftDb, rightDb, l, r, at)]
                        = one[OwnSkipped(leftDb, rightDb, l, r, at)]
    <3> HIDE DEF one, two
    <3> QED BY <1>4, <2>2, ComparisonProceeds
  <2>3. ASSUME at.left # {}, at.right # {}
        PROVE  SameItem(left[First(at.left)], right[First(at.right)])
                  = SameItem(leftDb[First(at.left)], rightDb[First(at.right)])
    <3>1. at.left \subseteq Living(leftDb) /\ at.right \subseteq Living(rightDb)
      BY DEF Positions
    <3>2. First(at.left) \in at.left /\ First(at.right) \in at.right
      BY <2>3, <3>1, AdvanceProps DEF Comparable
    <3>3. First(at.left) \in DOMAIN leftDb /\ First(at.right) \in DOMAIN rightDb
      BY <3>1, <3>2 DEF Living
    <3> QED BY <3>3 DEF SameItem, SameDatabase
  <2>4. ComparisonStep(left, right, l, r, two, at) = ComparisonStep(leftDb, rightDb, l, r, one, at)
    <3> HIDE DEF one, two
    <3> QED BY <2>1, <2>2, <2>3 DEF ComparisonStep
  <2> QED BY <1>3, <2>4
<1>5. Bad = {}
  <2> SUFFICES ASSUME Bad # {} PROVE FALSE
    OBVIOUS
  <2>1. Bad \in SUBSET P
    OBVIOUS
  <2>2. PICK at \in Bad : \A other \in P : Distance(other) < Distance(at) => other \notin Bad
    <3> HIDE DEF Bad
    <3> QED BY <2>1, NearestPosition
  <2>3. two[at] = one[at]
    <3> HIDE DEF one, two
    <3> QED BY <1>4, <2>2
  <2> QED BY <2>3
<1>6. start \in P
  BY DEF Positions
<1>7. two[start] = one[start]
  <2> HIDE DEF one, two, start, P
  <2> QED BY <1>5, <1>6
<1> QED BY <1>1, <1>7 DEF Matches

\* Snapshots whose databases say the same get the same verdict.
LEMMA SameVerdict ==
    ASSUME NEW shot, NEW other, IsShot(shot), other.if_someone = shot.if_someone,
           DOMAIN other.databases = DOMAIN shot.databases,
           \A p \in DOMAIN shot.databases : SameDatabase(shot.databases[p], other.databases[p])
    PROVE  allKnowEachOther(other) = allKnowEachOther(shot)
<1> DEFINE one == shot.databases
           two == other.databases
<1>1. SomebodyFound(two) = SomebodyFound(one)
  <2>1. CASE DOMAIN one = {}
    BY <2>1 DEF SomebodyFound
  <2>2. CASE DOMAIN one # {}
    <3>1. First(DOMAIN one) \in DOMAIN one
      BY <2>2, AdvanceProps DEF IsShot
    <3> QED BY <3>1 DEF SomebodyFound, SameDatabase
  <2> QED BY <2>1, <2>2
<1>2. ASSUME NEW p \in DOMAIN one, NEW q \in DOMAIN one
      PROVE  Equal(two, p, q) = Equal(one, p, q)
  <2>1. Living(one[p]) \subseteq Participant /\ Living(one[q]) \subseteq Participant
    BY DEF IsShot, Living
  <2>2. SameDatabase(one[p], two[p]) /\ SameDatabase(one[q], two[q])
    OBVIOUS
  <2> HIDE DEF one, two
  <2>3. /\ Matches(two[p], two[q], p, q) = Matches(one[p], one[q], p, q)
        /\ Matches(two[q], two[p], q, p) = Matches(one[q], one[p], q, p)
    BY <2>1, <2>2, SameComparison DEF Comparable
  <2> QED BY <2>3 DEF Equal
<1>3. \A p, q \in DOMAIN one : Adjacent(two, p, q) = Adjacent(one, p, q)
  BY DEF Adjacent
<1> HIDE DEF one, two
<1>4. DOMAIN two = DOMAIN one
  BY DEF one, two
<1> QED BY <1>1, <1>2, <1>3, <1>4 DEF allKnowEachOther, one, two

-----------------------------------------------------------------------------
(* Writing and reading.                                                    *)

\* Whole milliseconds survive the conversion to ticks and back.
LEMMA WholeMilliseconds ==
    ASSUME NEW n \in Int
    PROVE  Milliseconds(Ticks(n)) = n /\ Ticks(n) \in Int
<1>1. Millisecond \in Nat /\ Millisecond > 0
  BY MillisecondAssumption
<1>2. n * Millisecond \in Int
  BY <1>1
<1>3. (n * Millisecond) \div Millisecond = n
  BY <1>1, <1>2
<1> QED BY <1>2, <1>3 DEF Milliseconds, Ticks

\* Milliseconds are whole.
LEMMA MillisecondsTyped ==
    ASSUME NEW ticks \in Int
    PROVE  Milliseconds(ticks) \in Int
BY MillisecondAssumption DEF Milliseconds

Counters == [alive : Nat, not_alive : Nat]

\* The readers whose counters are written.
Shown(shot, p, item) == {r \in item.endpoints \cap Reader : shot.show_liveliness /\ Owner[r] = p}

\* An entry as it is written.
LEMMA EntryWritten ==
    ASSUME NEW shot, NEW p, NEW item, IsRecorded(item), shot.startup \in Int
    PROVE  LET entry == EntryElement(shot, p, item)
           IN /\ entry = [alive |-> item.alive, server |-> item.server,
                          endpoints |-> item.endpoints, discovered |-> entry.discovered,
                          counts |-> entry.counts]
              /\ entry.discovered \in Int
              /\ entry.counts \in [Shown(shot, p, item) -> Counters]
              /\ \A r \in Shown(shot, p, item) : entry.counts[r] = item.counts[r]
<1>1. DOMAIN item.counts = item.endpoints \cap Reader
  BY DEF IsRecorded
<1>2. {r \in DOMAIN item.counts : shot.show_liveliness /\ Owner[r] = p} = Shown(shot, p, item)
  BY <1>1 DEF Shown
<1>3. \A r \in Shown(shot, p, item) : item.counts[r] \in Counters
  BY DEF IsRecorded, Shown, Counters
<1>4. item.discovered - shot.startup \in Int
  BY DEF IsRecorded
<1>5. Milliseconds(item.discovered - shot.startup) \in Int
  BY <1>4, MillisecondsTyped
<1>6. EntryElement(shot, p, item) =
         [alive |-> item.alive, server |-> item.server, endpoints |-> item.endpoints,
          discovered |-> Milliseconds(item.discovered - shot.startup),
          counts |-> [r \in Shown(shot, p, item) |-> item.counts[r]]]
  BY <1>2 DEF EntryElement
<1> QED BY <1>3, <1>5, <1>6

\* What is forgotten of an entry.
LEMMA ForgottenFacts ==
    ASSUME NEW entry, NEW S, entry.counts \in [S -> Counters],
           entry = [alive |-> entry.alive, server |-> entry.server, endpoints |-> entry.endpoints,
                    discovered |-> entry.discovered, counts |-> entry.counts]
    PROVE  Forgotten(entry) =
              [alive |-> entry.alive, server |-> entry.server, endpoints |-> entry.endpoints,
               discovered |-> entry.discovered,
               counts |-> [r \in S |-> [alive |-> entry.counts[r].alive, not_alive |-> 0]]]
<1>1. DOMAIN entry.counts = S
  OBVIOUS
<1>2. \A r \in S : [entry.counts[r] EXCEPT !.not_alive = 0] =
                       [alive |-> entry.counts[r].alive, not_alive |-> 0]
  BY DEF Counters
<1>3. [r \in DOMAIN entry.counts |-> [entry.counts[r] EXCEPT !.not_alive = 0]] =
         [r \in S |-> [alive |-> entry.counts[r].alive, not_alive |-> 0]]
  BY <1>1, <1>2
<1>4. Forgotten(entry) = [entry EXCEPT !.counts =
         [r \in DOMAIN entry.counts |-> [entry.counts[r] EXCEPT !.not_alive = 0]]]
  BY DEF Forgotten
<1> DEFINE new == [r \in S |-> [alive |-> entry.counts[r].alive, not_alive |-> 0]]
<1>5. Forgotten(entry) = [entry EXCEPT !.counts = new]
  BY <1>3, <1>4
<1> HIDE DEF new
<1>6. [entry EXCEPT !.counts = new] =
         [alive |-> entry.alive, server |-> entry.server, endpoints |-> entry.endpoints,
          discovered |-> entry.discovered, counts |-> new]
  OBVIOUS
<1> QED BY <1>5, <1>6 DEF new

\* An entry as it is read.
LEMMA EntryIsRecorded ==
    ASSUME NEW entry, NEW S, entry.counts \in [S -> Counters], entry.discovered \in Int,
           NEW startup \in Int
    PROVE  IsRecorded(EntryRead(entry, startup))
<1>1. Ticks(entry.discovered) \in Int
  BY WholeMilliseconds
<1>2. startup + Ticks(entry.discovered) \in Int
  BY <1>1
<1>3. \A r \in DOMAIN entry.counts :
         [NotCounted EXCEPT !.alive = entry.counts[r].alive] \in [alive : Nat, not_alive : Nat]
  BY DEF NotCounted, Counters
<1>4. NotCounted \in [alive : Nat, not_alive : Nat]
  BY DEF NotCounted
<1>5. CountsRead(entry) \in [entry.endpoints \cap Reader -> [alive : Nat, not_alive : Nat]]
  BY <1>3, <1>4 DEF CountsRead
<1> HIDE DEF CountsRead
<1> QED BY <1>2, <1>5 DEF IsRecorded, EntryRead

\* Written again, an entry that was read has lost nothing else.
LEMMA EntryWrittenAgain ==
    ASSUME NEW shot, NEW again, NEW p, NEW item, IsRecorded(item), shot.startup \in Int,
           again.startup \in Int, shot.show_liveliness \in BOOLEAN,
           again.show_liveliness \in BOOLEAN, again.show_liveliness => shot.show_liveliness,
           Shown(shot, p, item) # {} => again.show_liveliness
    PROVE  LET entry == EntryElement(shot, p, item)
           IN EntryElement(again, p, EntryRead(entry, again.startup)) = Forgotten(entry)
<1> DEFINE entry == EntryElement(shot, p, item)
           S == Shown(shot, p, item)
           read == EntryRead(entry, again.startup)
<1>1. /\ entry = [alive |-> item.alive, server |-> item.server, endpoints |-> item.endpoints,
                  discovered |-> entry.discovered, counts |-> entry.counts]
      /\ entry.discovered \in Int /\ entry.counts \in [S -> Counters]
  BY EntryWritten
<1> HIDE DEF entry
<1>2. /\ entry.alive = item.alive /\ entry.server = item.server
      /\ entry.endpoints = item.endpoints /\ DOMAIN entry.counts = S
      /\ entry = [alive |-> entry.alive, server |-> entry.server, endpoints |-> entry.endpoints,
                  discovered |-> entry.discovered, counts |-> entry.counts]
  BY <1>1
<1>3. S \subseteq item.endpoints \cap Reader
  BY DEF Shown
<1>4. IsRecorded(read)
  BY <1>1, EntryIsRecorded
<1>5. /\ read.alive = item.alive /\ read.server = item.server /\ read.endpoints = item.endpoints
      /\ read.discovered = again.startup + Ticks(entry.discovered)
      /\ read.counts = CountsRead(entry)
  BY <1>2 DEF EntryRead
<1> HIDE DEF read
<1>6. Shown(again, p, read) = S
  <2>1. CASE again.show_liveliness
    BY <1>5, <2>1 DEF Shown
  <2>2. CASE ~again.show_liveliness
    BY <2>2 DEF Shown
  <2> QED BY <2>1, <2>2
<1>7. \A r \in S : read.counts[r] = [alive |-> entry.counts[r].alive, not_alive |-> 0]
  BY <1>2, <1>3, <1>5 DEF CountsRead, NotCounted
<1>8. Milliseconds(read.discovered - again.startup) = entry.discovered
  <2>1. Ticks(entry.discovered) \in Int
    BY <1>1, WholeMilliseconds
  <2>2. read.discovered - again.startup = Ticks(entry.discovered)
    BY <1>5, <2>1
  <2> QED BY <1>1, <2>2, WholeMilliseconds
<1>9. DOMAIN read.counts = read.endpoints \cap Reader
  BY <1>4 DEF IsRecorded
<1>10. {r \in DOMAIN read.counts : again.show_liveliness /\ Owner[r] = p} = S
  BY <1>6, <1>9 DEF Shown
<1> HIDE DEF S
<1>11. EntryElement(again, p, read) =
          [alive |-> entry.alive, server |-> entry.server, endpoints |-> entry.endpoints,
           discovered |-> entry.discovered,
           counts |-> [r \in S |-> [alive |-> entry.counts[r].alive, not_alive |-> 0]]]
  BY <1>2, <1>5, <1>7, <1>8, <1>10 DEF EntryElement
<1>12. Forgotten(entry) =
          [alive |-> entry.alive, server |-> entry.server, endpoints |-> entry.endpoints,
           discovered |-> entry.discovered,
           counts |-> [r \in S |-> [alive |-> entry.counts[r].alive, not_alive |-> 0]]]
  BY <1>1, <1>2, ForgottenFacts
<1> QED BY <1>11, <1>12 DEF entry, read

\* What is forgotten is not read anyway.
LEMMA ForgottenRead ==
    ASSUME NEW entry, NEW S, NEW startup, entry.counts \in [S -> Counters],
           entry = [alive |-> entry.alive, server |-> entry.server, endpoints |-> entry.endpoints,
                    discovered |-> entry.discovered, counts |-> entry.counts]
    PROVE  /\ EntryRead(Forgotten(entry), startup) = EntryRead(entry, startup)
           /\ DOMAIN Forgotten(entry).counts = DOMAIN entry.counts
<1> DEFINE new == Forgotten(entry)
<1>1. new = [alive |-> entry.alive, server |-> entry.server, endpoints |-> entry.endpoints,
             discovered |-> entry.discovered,
             counts |-> [r \in S |-> [alive |-> entry.counts[r].alive, not_alive |-> 0]]]
  BY ForgottenFacts
<1> HIDE DEF new
<1>2. /\ new.alive = entry.alive /\ new.server = entry.server /\ new.endpoints = entry.endpoints
      /\ new.discovered = entry.discovered /\ DOMAIN new.counts = S
      /\ \A r \in S : new.counts[r].alive = entry.counts[r].alive
  BY <1>1
<1>3. CountsRead(new) = CountsRead(entry)
  <2>1. DOMAIN entry.counts = S
    OBVIOUS
  <2> QED BY <1>2, <2>1 DEF CountsRead
<1> QED BY <1>2, <1>3 DEF EntryRead, new

\* A snapshot as it is written, and as it is read by a process with clock c.
LEMMA ShotRead ==
    ASSUME NEW shot, IsShot(shot), NEW w \in Clocks, NEW c \in Clocks
    PROVE  LET element == to_xml(shot, w)
               read == from_xml(element, c)
           IN /\ IsShot(read)
              /\ allKnowEachOther(read) = allKnowEachOther(shot)
              /\ to_xml(read, c) = Remembered(element)
              /\ from_xml(to_xml(read, c), c) = read
<1> DEFINE element == to_xml(shot, w)
           read == from_xml(element, c)
           D == DOMAIN shot.databases
           Entry(p, q) == EntryElement(shot, p, shot.databases[p][q])
           S(p, q) == Shown(shot, p, shot.databases[p][q])
<1>1. /\ w.steady \in Int /\ w.system \in Int /\ c.steady \in Int /\ c.system \in Int
      /\ shot.time \in Int /\ shot.startup \in Int /\ shot.callback \in Int
      /\ shot.show_liveliness \in BOOLEAN /\ D \subseteq Participant /\ shot.named \subseteq D
      /\ \A p \in D : /\ DOMAIN shot.databases[p] \subseteq Participant
                      /\ \A q \in DOMAIN shot.databases[p] : IsRecorded(shot.databases[p][q])
  BY ClocksAssumption DEF IsShot
<1>2. element = [timestamp |-> element.timestamp, process_time |-> element.process_time,
                 last_callback |-> element.last_callback, someone |-> shot.if_someone,
                 named |-> shot.named,
                 databases |-> [p \in D |-> [q \in DOMAIN shot.databases[p] |-> Entry(p, q)]]]
  BY DEF to_xml
<1>3. element.timestamp \in Int /\ element.process_time \in Int /\ element.last_callback \in Int
  <2>1. /\ shot.time - w.steady + w.system \in Int /\ shot.time - shot.startup \in Int
        /\ shot.callback - shot.startup \in Int
    BY <1>1
  <2> QED BY <2>1, MillisecondsTyped DEF to_xml
<1> HIDE DEF element
<1>4. /\ element.someone = shot.if_someone /\ DOMAIN element.databases = D
      /\ \A p \in D : /\ DOMAIN element.databases[p] = DOMAIN shot.databases[p]
                      /\ \A q \in DOMAIN shot.databases[p] : element.databases[p][q] = Entry(p, q)
  BY <1>2
<1>5. ASSUME NEW p \in D, NEW q \in DOMAIN shot.databases[p]
      PROVE  /\ Entry(p, q) = [alive |-> shot.databases[p][q].alive,
                               server |-> shot.databases[p][q].server,
                               endpoints |-> shot.databases[p][q].endpoints,
                               discovered |-> Entry(p, q).discovered, counts |-> Entry(p, q).counts]
             /\ Entry(p, q).discovered \in Int
             /\ Entry(p, q).counts \in [S(p, q) -> Counters]
  BY <1>1, EntryWritten
<1> HIDE DEF Entry, S
<1>6. ASSUME NEW p \in D, NEW q \in DOMAIN shot.databases[p]
      PROVE  /\ Entry(p, q).alive = shot.databases[p][q].alive
             /\ Entry(p, q).endpoints = shot.databases[p][q].endpoints
             /\ DOMAIN Entry(p, q).counts = S(p, q)
             /\ Entry(p, q) = [alive |-> Entry(p, q).alive, server |-> Entry(p, q).server,
                               endpoints |-> Entry(p, q).endpoints,
                               discovered |-> Entry(p, q).discovered,
                               counts |-> Entry(p, q).counts]
  <2> DEFINE entry == Entry(p, q)
             item == shot.databases[p][q]
  <2>1. /\ entry = [alive |-> item.alive, server |-> item.server, endpoints |-> item.endpoints,
                    discovered |-> entry.discovered, counts |-> entry.counts]
        /\ entry.counts \in [S(p, q) -> Counters]
    BY <1>5
  <2> HIDE DEF entry, item
  <2>2. /\ entry.alive = item.alive /\ entry.endpoints = item.endpoints
        /\ entry.server = item.server /\ DOMAIN entry.counts = S(p, q)
    BY <2>1
  <2> QED BY <2>1, <2>2 DEF entry, item
<1> DEFINE startup == StartupRead(element, c)
           shown == \E p \in D : \E q \in DOMAIN shot.databases[p] : S(p, q) # {}
<1>7. /\ TimeRead(element, c) = Ticks(element.timestamp) - c.system + c.steady
      /\ startup = TimeRead(element, c) - Ticks(element.process_time)
      /\ Ticks(element.timestamp) \in Int /\ Ticks(element.process_time) \in Int
      /\ Ticks(element.last_callback) \in Int
      /\ TimeRead(element, c) \in Int /\ startup \in Int
  <2>1. /\ Ticks(element.timestamp) \in Int /\ Ticks(element.process_time) \in Int
        /\ Ticks(element.last_callback) \in Int
    BY <1>3, WholeMilliseconds
  <2> QED BY <1>1, <2>1 DEF StartupRead, TimeRead
<1>8. read = [time |-> TimeRead(element, c), startup |-> startup,
              callback |-> startup + Ticks(element.last_callback),
              if_someone |-> shot.if_someone, show_liveliness |-> shown, named |-> {},
              databases |-> [p \in D |-> [q \in DOMAIN shot.databases[p] |->
                                             EntryRead(Entry(p, q), startup)]]]
  <2>1. (\E p \in DOMAIN element.databases : \E q \in DOMAIN element.databases[p] :
             DOMAIN element.databases[p][q].counts # {}) = shown
    BY <1>4, <1>6
  <2>2. [p \in DOMAIN element.databases |-> [q \in DOMAIN element.databases[p] |->
             EntryRead(element.databases[p][q], startup)]] =
        [p \in D |-> [q \in DOMAIN shot.databases[p] |-> EntryRead(Entry(p, q), startup)]]
    <3> HIDE DEF startup
    <3> QED BY <1>4
  <2> HIDE DEF startup, shown
  <2> QED BY <1>4, <2>1, <2>2 DEF from_xml, startup
<1>9. shown \in BOOLEAN /\ (shown => shot.show_liveliness)
  BY <1>1 DEF S, Shown
<1> HIDE DEF read, startup
<1>10. /\ read.time = TimeRead(element, c) /\ read.startup = startup
       /\ read.callback = startup + Ticks(element.last_callback)
       /\ read.if_someone = shot.if_someone /\ read.show_liveliness = shown
       /\ read.named = {}
       /\ DOMAIN read.databases = D
       /\ \A p \in D : /\ DOMAIN read.databases[p] = DOMAIN shot.databases[p]
                       /\ \A q \in DOMAIN shot.databases[p] :
                             read.databases[p][q] = EntryRead(Entry(p, q), startup)
  <2> HIDE DEF shown
  <2> QED BY <1>8
<1>11. IsShot(read)
  <2>1. \A p \in D : \A q \in DOMAIN shot.databases[p] : IsRecorded(EntryRead(Entry(p, q), startup))
    BY <1>5, <1>7, EntryIsRecorded
  <2>2. startup + Ticks(element.last_callback) \in Int
    BY <1>7
  <2> HIDE DEF shown
  <2> QED BY <1>1, <1>7, <1>9, <1>10, <2>1, <2>2 DEF IsShot
<1>12. allKnowEachOther(read) = allKnowEachOther(shot)
  <2>1. ASSUME NEW p \in D PROVE SameDatabase(shot.databases[p], read.databases[p])
    <3>1. ASSUME NEW q \in DOMAIN shot.databases[p]
          PROVE  /\ read.databases[p][q].alive = shot.databases[p][q].alive
                 /\ read.databases[p][q].endpoints = shot.databases[p][q].endpoints
      <4>1. read.databases[p][q] = EntryRead(Entry(p, q), startup)
        BY <1>10
      <4>2. /\ EntryRead(Entry(p, q), startup).alive = Entry(p, q).alive
            /\ EntryRead(Entry(p, q), startup).endpoints = Entry(p, q).endpoints
        BY DEF EntryRead
      <4> QED BY <1>6, <4>1, <4>2
    <3>2. DOMAIN read.databases[p] = DOMAIN shot.databases[p]
      BY <1>10
    <3> QED BY <3>1, <3>2 DEF SameDatabase
  <2> QED BY <1>10, <2>1, SameVerdict
<1>13. ASSUME NEW p \in D, NEW q \in DOMAIN shot.databases[p]
       PROVE  EntryElement(read, p, EntryRead(Entry(p, q), startup)) = Forgotten(Entry(p, q))
  <2>1. S(p, q) # {} => shown
    OBVIOUS
  <2> HIDE DEF shown
  <2> QED BY <1>1, <1>7, <1>9, <1>10, <2>1, EntryWrittenAgain DEF Entry, S
<1>14. Remembered(element) =
          [timestamp |-> element.timestamp, process_time |-> element.process_time,
           last_callback |-> element.last_callback, someone |-> shot.if_someone, named |-> {},
           databases |-> [p \in D |-> [q \in DOMAIN shot.databases[p] |-> Forgotten(Entry(p, q))]]]
  <2> DEFINE new == [p \in D |-> [q \in DOMAIN shot.databases[p] |-> Forgotten(Entry(p, q))]]
  <2>1. [p \in DOMAIN element.databases |-> [q \in DOMAIN element.databases[p] |->
             Forgotten(element.databases[p][q])]] = new
    BY <1>4
  <2>2. Remembered(element) = [element EXCEPT !.named = {}, !.databases =
           [p \in DOMAIN element.databases |-> [q \in DOMAIN element.databases[p] |->
               Forgotten(element.databases[p][q])]]]
    BY DEF Remembered
  <2>3. Remembered(element) = [element EXCEPT !.named = {}, !.databases = new]
    BY <2>1, <2>2
  <2> HIDE DEF new
  <2> DEFINE old == element.databases
  <2>4. element = [timestamp |-> element.timestamp, process_time |-> element.process_time,
                   last_callback |-> element.last_callback, someone |-> shot.if_someone,
                   named |-> shot.named, databases |-> old]
    BY <1>2
  <2> HIDE DEF old
  <2> DEFINE nameless == [element EXCEPT !.named = {}]
  <2>5. nameless = [timestamp |-> element.timestamp, process_time |-> element.process_time,
                    last_callback |-> element.last_callback, someone |-> shot.if_someone,
                    named |-> {}, databases |-> old]
    BY <2>4
  <2>6. [element EXCEPT !.named = {}, !.databases = new] = [nameless EXCEPT !.databases = new]
    OBVIOUS
  <2> HIDE DEF nameless
  <2>7. [nameless EXCEPT !.databases = new] =
           [timestamp |-> element.timestamp, process_time |-> element.process_time,
            last_callback |-> element.last_callback, someone |-> shot.if_someone, named |-> {},
            databases |-> new]
    BY <2>5
  <2> QED BY <2>3, <2>6, <2>7 DEF new
<1>15. to_xml(read, c) = Remembered(element)
  <2>1. /\ Milliseconds(read.time - c.steady + c.system) = element.timestamp
        /\ Milliseconds(read.time - read.startup) = element.process_time
        /\ Milliseconds(read.callback - read.startup) = element.last_callback
    <3>1. /\ read.time - c.steady + c.system = Ticks(element.timestamp)
          /\ read.time - read.startup = Ticks(element.process_time)
          /\ read.callback - read.startup = Ticks(element.last_callback)
      BY <1>1, <1>7, <1>10
    <3> QED BY <1>3, <3>1, WholeMilliseconds
  <2>2. [p \in DOMAIN read.databases |-> [q \in DOMAIN read.databases[p] |->
             EntryElement(read, p, read.databases[p][q])]] =
        [p \in D |-> [q \in DOMAIN shot.databases[p] |-> Forgotten(Entry(p, q))]]
    BY <1>10, <1>13
  <2> QED BY <1>10, <1>14, <2>1, <2>2 DEF to_xml
<1>16. from_xml(Remembered(element), c) = read
  <2> DEFINE f == Remembered(element)
  <2>1. /\ f.timestamp = element.timestamp /\ f.process_time = element.process_time
        /\ f.last_callback = element.last_callback /\ f.someone = shot.if_someone
        /\ DOMAIN f.databases = D
        /\ \A p \in D : /\ DOMAIN f.databases[p] = DOMAIN shot.databases[p]
                        /\ \A q \in DOMAIN shot.databases[p] :
                              f.databases[p][q] = Forgotten(Entry(p, q))
    BY <1>14
  <2>2. ASSUME NEW p \in D, NEW q \in DOMAIN shot.databases[p]
        PROVE  /\ EntryRead(Forgotten(Entry(p, q)), startup) = EntryRead(Entry(p, q), startup)
               /\ DOMAIN Forgotten(Entry(p, q)).counts = S(p, q)
    BY <1>5, <1>6, ForgottenRead
  <2> HIDE DEF f
  <2>3. TimeRead(f, c) = TimeRead(element, c) /\ StartupRead(f, c) = startup
    BY <2>1 DEF TimeRead, StartupRead, startup
  <2>4. (\E p \in DOMAIN f.databases : \E q \in DOMAIN f.databases[p] :
             DOMAIN f.databases[p][q].counts # {}) = shown
    BY <2>1, <2>2
  <2>5. [p \in DOMAIN f.databases |-> [q \in DOMAIN f.databases[p] |->
             EntryRead(f.databases[p][q], startup)]] =
        [p \in D |-> [q \in DOMAIN shot.databases[p] |-> EntryRead(Entry(p, q), startup)]]
    BY <2>1, <2>2
  <2> HIDE DEF shown
  <2> QED BY <1>8, <2>1, <2>3, <2>4, <2>5 DEF from_xml, f
<1> QED BY <1>11, <1>12, <1>15, <1>16 DEF element, read

-----------------------------------------------------------------------------
(* Snapshots in memory and in the file.                                    *)

ImageTyped == /\ DOMAIN image \subseteq Participant
              /\ \A s \in DOMAIN image : DOMAIN image[s] \subseteq Participant

\* The file is what some process wrote of the snapshots that were saved, and a
\* process that read it has them as the file tells.
Written == \E writer \in Clocks : file = saveSnapshots(saved, writer)

FileInv ==
    /\ clock \in Clocks /\ heard \in Int
    /\ ImageTyped
    /\ \A i \in DOMAIN saved : IsShot(saved[i])
    /\ \A i \in DOMAIN snapshots : IsShot(snapshots[i])
    /\ Written
    /\ ReadBack => snapshots = loadSnapshots(file, clock)

\* Callbacks report on participants only.
LEMMA ReportTyped ==
    ASSUME ImageTyped, NEW s \in Participant, NEW p \in Participant, NEW server,
           AddParticipant(s, p, server) \/ RemoveParticipant(s, p)
    PROVE  ImageTyped'
<1> DEFINE database == DatabaseOf(s)
<1>1. DOMAIN database \subseteq Participant
  BY DEF DatabaseOf, EmptyDatabase, ImageTyped
<1> HIDE DEF database
<1>2. ASSUME NEW new, DOMAIN new \subseteq Participant, image' = Put(image, s, new)
      PROVE  ImageTyped'
  <2>1. /\ DOMAIN image' = DOMAIN image \cup {s}
        /\ \A k \in DOMAIN image' : image'[k] = IF k = s THEN new ELSE image[k]
    BY <1>2 DEF Put
  <2>2. \A k \in DOMAIN image' : DOMAIN image'[k] \subseteq Participant
    <3> SUFFICES ASSUME NEW k \in DOMAIN image' PROVE DOMAIN image'[k] \subseteq Participant
      OBVIOUS
    <3>1. CASE k = s
      BY <1>2, <2>1, <3>1
    <3>2. CASE k # s
      BY <2>1, <3>2 DEF ImageTyped
    <3> QED BY <3>1, <3>2
  <2> QED BY <2>1, <2>2 DEF ImageTyped
<1>3. DOMAIN WithParticipant(database, p, server) \subseteq DOMAIN database \cup {p}
  BY DEF WithParticipant, Put
<1>4. DOMAIN WithoutParticipant(database, p) \subseteq DOMAIN database \cup {p}
  BY DEF WithoutParticipant, Put, Erase
<1>5. CASE AddParticipant(s, p, server)
  <2>1. DOMAIN WithParticipant(database, p, server) \subseteq Participant
    BY <1>1, <1>3
  <2> QED BY <1>2, <1>5, <2>1 DEF AddParticipant, database
<1>6. CASE RemoveParticipant(s, p)
  <2>1. DOMAIN WithoutParticipant(database, p) \subseteq Participant
    BY <1>1, <1>4
  <2> QED BY <1>2, <1>6, <2>1 DEF RemoveParticipant, database
<1> QED BY <1>5, <1>6

\* Of the events only the removal of a participant changes the image.
LEMMA EventImage ==
    ASSUME ImageTyped, NEW i, NEW event, Execute(i, event)
    PROVE  ImageTyped'
<1>1. image' = image \/ image' = Erase(image, event.guid)
  <2>1. CASE event.what = "create"
    BY <2>1 DEF Execute, CreateParticipant, Crash
  <2>2. CASE event.what = "destroy"
    BY <2>2 DEF Execute, DestroyParticipant, RemoveReporter
  <2>3. CASE event.what = "createEndpoint"
    BY <2>3 DEF Execute, CreateEndpoint, Crash
  <2>4. CASE event.what = "destroyEndpoint"
    BY <2>4 DEF Execute, DestroyEndpoint
  <2>5. CASE event.what = "snapshot"
    BY <2>5 DEF Execute, TakeSnapshot
  <2> QED BY <2>1, <2>2, <2>3, <2>4, <2>5 DEF Execute
<1>2. CASE image' = image
  BY <1>2 DEF ImageTyped
<1>3. CASE image' = Erase(image, event.guid)
  <2>1. /\ DOMAIN image' = DOMAIN image \ {event.guid}
        /\ \A s \in DOMAIN image' : image'[s] = image[s]
    BY <1>3 DEF Erase
  <2> QED BY <2>1 DEF ImageTyped
<1> QED BY <1>1, <1>2, <1>3

\* The constructor leaves the image and the snapshots alone.
LEMMA LoadImage ==
    ASSUME LoadElement
    PROVE  image' = image /\ snapshots' = snapshots
<1> DEFINE step == Head(todo)
<1>1. CASE loadServer(step.element)
  BY <1>1 DEF loadServer, Skip, Fail, CreateParticipant, Crash
<1>2. CASE loadClient(step.element) \/ loadSimple(step.element)
  BY <1>2 DEF loadClient, loadSimple, LoadLinked, Skip, Fail, CreateParticipant, Crash
<1>3. CASE loadPublisher(step) \/ loadSubscriber(step)
  <2>1. LoadEndpoint(step)
    BY <1>3 DEF loadPublisher, loadSubscriber
  <2> QED BY <2>1 DEF LoadEndpoint, CreateEndpoint, Crash
<1>4. CASE loadSnapshot(step.element)
  BY <1>4 DEF loadSnapshot, Skip, Fail, Crash
<1> QED BY <1>1, <1>2, <1>3, <1>4 DEF LoadElement

\* What takeSnapshot makes is a snapshot.
LEMMA TakenIsShot ==
    ASSUME FileInv, DOMAIN members \subseteq Participant, IsSequence(snapshots),
           NEW time \in Nat, NEW element \in SnapshotElement, TakeSnapshot(time, element)
    PROVE  \A i \in DOMAIN snapshots' : IsShot(snapshots'[i])
<1> DEFINE D == Listed(DOMAIN members, DOMAIN image)
           shot == [time |-> clock.steady + time, startup |-> clock.steady, callback |-> heard,
                    if_someone |-> element.someone, show_liveliness |-> element.liveliness,
                    named |-> DOMAIN image,
                    databases |-> [p \in D |->
                                      [q \in DOMAIN DatabaseOf(p) |-> Recorded(DatabaseOf(p)[q])]]]
<1>1. DOMAIN Completed(DOMAIN members) = D
  BY DEF Completed
<1>2. snapshots' = Append(snapshots, shot)
  BY <1>1 DEF TakeSnapshot
<1>3. D \subseteq Participant /\ DOMAIN image \subseteq D
  <2>1. DOMAIN members \in SUBSET Participant /\ DOMAIN image \in SUBSET Participant
    BY DEF FileInv, ImageTyped
  <2>2. D = DOMAIN members \cup DOMAIN image
    BY <2>1, ListedIsUnion
  <2> QED BY <2>1, <2>2
<1>4. clock.steady \in Int /\ heard \in Int /\ element.liveliness \in BOOLEAN
  BY ClocksAssumption DEF FileInv, SnapshotElement
<1>5. \A p \in D : DOMAIN DatabaseOf(p) \subseteq Participant
  BY DEF DatabaseOf, EmptyDatabase, FileInv, ImageTyped
<1>6. ASSUME NEW item PROVE IsRecorded(Recorded(item))
  <2>1. \A r \in item.endpoints \cap Reader :
           [NotCounted EXCEPT !.alive = IF r \in item.lively THEN 1 ELSE 0]
               \in [alive : Nat, not_alive : Nat]
    BY DEF NotCounted
  <2>2. /\ Recorded(item).discovered = clock.steady /\ Recorded(item).endpoints = item.endpoints
        /\ Recorded(item).counts = [r \in item.endpoints \cap Reader |->
              [NotCounted EXCEPT !.alive = IF r \in item.lively THEN 1 ELSE 0]]
    BY DEF Recorded
  <2> QED BY <1>4, <2>1, <2>2 DEF IsRecorded
<1> HIDE DEF D
<1>7. IsShot(shot)
  <2> DEFINE dbs == [p \in D |-> [q \in DOMAIN DatabaseOf(p) |-> Recorded(DatabaseOf(p)[q])]]
  <2>1. /\ DOMAIN dbs = D
        /\ \A p \in D : /\ DOMAIN dbs[p] = DOMAIN DatabaseOf(p)
                        /\ \A q \in DOMAIN DatabaseOf(p) : dbs[p][q] = Recorded(DatabaseOf(p)[q])
    OBVIOUS
  <2>2. /\ shot.time = clock.steady + time /\ shot.startup = clock.steady /\ shot.callback = heard
        /\ shot.show_liveliness = element.liveliness /\ shot.databases = dbs
        /\ shot.named = DOMAIN image
    OBVIOUS
  <2> HIDE DEF dbs, shot
  <2>3. shot.time \in Int
    BY <1>4, <2>2
  <2> QED BY <1>3, <1>4, <1>5, <1>6, <2>1, <2>2, <2>3 DEF IsShot
<1> HIDE DEF shot
<1>8. \A i \in DOMAIN snapshots' :
         (i \in DOMAIN snapshots /\ snapshots'[i] = snapshots[i]) \/ snapshots'[i] = shot
  BY <1>2, AppendSequence
<1> QED BY <1>7, <1>8 DEF FileInv

\* What the process that reads a file has.
LEMMA FileRead ==
    ASSUME \A i \in DOMAIN saved : IsShot(saved[i]), Written, NEW c \in Clocks
    PROVE  LET read == loadSnapshots(file, c)
           IN /\ DOMAIN read = DOMAIN saved /\ DOMAIN file = DOMAIN saved
              /\ \A i \in DOMAIN saved :
                    /\ IsShot(read[i])
                    /\ allKnowEachOther(read[i]) = allKnowEachOther(saved[i])
                    /\ to_xml(read[i], c) = Remembered(file[i])
                    /\ from_xml(to_xml(read[i], c), c) = read[i]
              /\ loadSnapshots(saveSnapshots(read, c), c) = read
<1>1. PICK w \in Clocks : file = saveSnapshots(saved, w)
  BY DEF Written
<1> DEFINE read == loadSnapshots(file, c)
           again == saveSnapshots(read, c)
<1>2. DOMAIN file = DOMAIN saved /\ \A i \in DOMAIN saved : file[i] = to_xml(saved[i], w)
  BY <1>1 DEF saveSnapshots
<1>3. /\ read = [i \in DOMAIN saved |-> read[i]]
      /\ DOMAIN read = DOMAIN saved /\ \A i \in DOMAIN saved : read[i] = from_xml(file[i], c)
  BY <1>2 DEF loadSnapshots
<1> HIDE DEF read
<1>4. ASSUME NEW i \in DOMAIN saved
      PROVE  /\ IsShot(read[i])
             /\ allKnowEachOther(read[i]) = allKnowEachOther(saved[i])
             /\ to_xml(read[i], c) = Remembered(file[i])
             /\ from_xml(to_xml(read[i], c), c) = read[i]
  <2>1. IsShot(saved[i]) /\ file[i] = to_xml(saved[i], w) /\ read[i] = from_xml(file[i], c)
    BY <1>2, <1>3
  <2> QED BY <2>1, ShotRead
<1>5. DOMAIN again = DOMAIN saved /\ \A i \in DOMAIN saved : again[i] = to_xml(read[i], c)
  BY <1>3 DEF saveSnapshots
<1> HIDE DEF again
<1>6. loadSnapshots(again, c) = [i \in DOMAIN saved |-> from_xml(again[i], c)]
  BY <1>5 DEF loadSnapshots
<1>7. [i \in DOMAIN saved |-> from_xml(again[i], c)] = [i \in DOMAIN saved |-> read[i]]
  BY <1>4, <1>5
<1>8. loadSnapshots(again, c) = read
  BY <1>3, <1>6, <1>7
<1> QED BY <1>2, <1>3, <1>4, <1>8 DEF read, again

\* A step that leaves the snapshots, the file and the clock alone, but for the image.
LEMMA UnchangedFile ==
    ASSUME FileInv, ImageTyped', heard' \in Int, ReadBack' => ReadBack,
           UNCHANGED <<clock, saved, snapshots, file>>
    PROVE  FileInv'
<1>1. Written'
  BY DEF FileInv, Written
<1> QED BY <1>1 DEF FileInv

\* Before a file is read nothing is known of it.
LEMMA FileUnread ==
    ASSUME \A i \in DOMAIN saved : IsShot(saved[i]), Written, image = [p \in {} |-> EmptyDatabase],
           snapshots = <<>>, phase = "start", clock \in Clocks, heard = clock.steady
    PROVE  FileInv
<1>1. heard \in Int
  BY ClocksAssumption
<1>2. ImageTyped
  BY DEF ImageTyped
<1>3. ~ReadBack
  BY DEF ReadBack
<1> QED BY <1>1, <1>2, <1>3 DEF FileInv

\* The initial states.
LEMMA InitFileInv == Init => FileInv
<1> SUFFICES ASSUME Init PROVE FileInv
  OBVIOUS
<1>1. CASE config \in Configurations /\ saved = <<>> /\ file = <<>>
  <2>1. clock \in Clocks
    BY DEF Init
  <2>2. saveSnapshots(<<>>, clock) = <<>>
    BY DEF saveSnapshots
  <2>3. Written
    BY <1>1, <2>1, <2>2 DEF Written
  <2>4. \A i \in DOMAIN saved : IsShot(saved[i])
    BY <1>1
  <2> QED BY <2>3, <2>4, FileUnread DEF Init
<1>2. CASE \E writer \in Clocks, option \in BOOLEAN :
              /\ config = FileConfiguration(option)
              /\ saved \in Shots
              /\ file = saveSnapshots(saved, writer)
  <2>1. Written
    BY <1>2 DEF Written
  <2>2. \A i \in DOMAIN saved : IsShot(saved[i])
    BY <1>2, ShotsAssumption
  <2> QED BY <2>1, <2>2, FileUnread DEF Init
<1> QED BY <1>1, <1>2 DEF Init

\* Every step.
LEMMA NextFileInv == ScheduleInv /\ CountInv /\ FileInv /\ [Next]_serverVars => FileInv'
<1> SUFFICES ASSUME ScheduleInv, CountInv, FileInv, [Next]_serverVars PROVE FileInv'
  OBVIOUS
<1>1. Typed /\ InPhase /\ IInv
  BY DEF ScheduleInv
<1>2. ASSUME UNCHANGED <<image, heard, clock, saved, snapshots, file>>, ReadBack' => ReadBack
      PROVE  FileInv'
  <2>1. ImageTyped' /\ heard' \in Int
    BY <1>2 DEF FileInv, ImageTyped
  <2> QED BY <1>2, <2>1, UnchangedFile
<1>3. CASE UNCHANGED serverVars
  BY <1>2, <1>3 DEF serverVars, mainVars, ReadBack
<1>4. CASE ~crashed /\ ReadFile
  <2>1. UNCHANGED <<config, image, heard, clock, saved, file>>
    BY <1>4 DEF ReadFile
  <2>2. CASE config.root # "snapshots"
    <3>1. snapshots' = snapshots /\ ~ReadBack'
      BY <1>4, <2>1, <2>2 DEF ReadFile, ReadBack
    <3> QED BY <1>2, <2>1, <3>1
  <2>3. CASE config.root = "snapshots"
    <3>1. snapshots' = loadSnapshots(file, clock)
      BY <1>4, <2>3 DEF ReadFile
    <3>2. \A i \in DOMAIN snapshots' : IsShot(snapshots'[i])
      BY <3>1, FileRead DEF FileInv
    <3>3. Written' /\ ImageTyped'
      BY <2>1 DEF FileInv, Written, ImageTyped
    <3> QED BY <2>1, <3>1, <3>2, <3>3 DEF FileInv
  <2> QED BY <2>2, <2>3
<1>5. CASE ~crashed /\ LoadElement
  <2>1. UNCHANGED <<config, phase, heard, clock, saved, file, image, snapshots>>
    BY <1>5, LoadImage DEF LoadElement
  <2> QED BY <1>2, <2>1 DEF ReadBack
<1>6. CASE ~crashed /\ (Loaded \/ UserShutdown \/ Validate \/ KeyPressed \/ Terminate)
  <2>1. UNCHANGED <<config, heard, clock, saved, file, image, snapshots>> /\ phase # "start"
    BY <1>6 DEF Loaded, UserShutdown, Validate, AllRun, KeyPressed, Conclude, Terminate
  <2> QED BY <1>2, <2>1 DEF ReadBack
<1>7. CASE ~crashed /\ RunEvents
  <2>1. PICK i \in Pending : RunEvent(i)
    BY <1>7 DEF RunEvents
  <2>2. phase = "run" /\ UNCHANGED <<config, phase, file, saved>>
    BY <1>7 DEF RunEvents, mainVars
  <2>3. UNCHANGED <<heard, clock>> /\ Execute(i, events[i])
    BY <2>1 DEF RunEvent
  <2>4. ImageTyped' /\ heard' \in Int
    BY <2>3, EventImage DEF FileInv
  <2>5. DOMAIN members = DOMAIN existing /\ DOMAIN members \subseteq Participant
    BY <1>1, <2>2 DEF IInv, Live, Consistent, Agreement, Typed
  <2>6. config.root = "config" /\ IsSequence(snapshots)
    <3>1. config.root = "config"
      BY <1>1, <2>1 DEF InPhase, Pending
    <3> QED BY <3>1 DEF CountInv
  <2>7. CASE snapshots' = snapshots
    BY <2>2, <2>3, <2>4, <2>7, UnchangedFile DEF ReadBack
  <2>8. CASE events[i].what = "snapshot" /\ TakeSnapshot(events[i].time, events[i].element)
    <3>1. events[i] \in Event
      BY <1>1, <2>1 DEF Typed, IsList, Pending
    <3>2. events[i].time \in Nat /\ events[i].element \in SnapshotElement
      BY <2>8, <3>1, EventKinds DEF SnapshotsDue
    <3>3. \A k \in DOMAIN snapshots' : IsShot(snapshots'[k])
      BY <2>5, <2>6, <2>8, <3>2, TakenIsShot
    <3>4. Written' /\ ~ReadBack'
      BY <2>2, <2>6 DEF FileInv, Written, ReadBack
    <3> QED BY <2>2, <2>3, <2>4, <3>3, <3>4 DEF FileInv
  <2> QED BY <1>1, <2>1, <2>5, <2>7, <2>8, RunTakes
<1>8. CASE ~crashed /\ Exit
  <2>1. UNCHANGED <<config, heard, clock, image, snapshots>> /\ phase = "terminated"
    BY <1>8 DEF Exit
  <2>2. CASE UNCHANGED <<file, saved>>
    BY <1>2, <2>1, <2>2 DEF ReadBack
  <2>3. CASE file' = saveSnapshots(snapshots, clock) /\ saved' = snapshots
    <3>1. Written'
      BY <2>1, <2>3 DEF FileInv, Written
    <3>2. ImageTyped' /\ \A i \in DOMAIN saved' : IsShot(saved'[i])
      BY <2>1, <2>3 DEF FileInv, ImageTyped
    <3>3. ASSUME ReadBack' PROVE snapshots' = loadSnapshots(file', clock')
      <4>1. snapshots = loadSnapshots(file, clock)
        BY <2>1, <3>3 DEF FileInv, ReadBack
      <4>2. loadSnapshots(saveSnapshots(snapshots, clock), clock) = snapshots
        BY <4>1, FileRead DEF FileInv
      <4> QED BY <2>1, <2>3, <4>2
    <3> QED BY <2>1, <3>1, <3>2, <3>3 DEF FileInv
  <2> QED BY <1>8, <2>2, <2>3 DEF Exit
<1>9. ASSUME NEW s \in DOMAIN existing, NEW p \in Participant, on_participant_discovery(s, p)
      PROVE  FileInv'
  <2>1. /\ UNCHANGED <<config, phase, clock, saved, file, snapshots>>
        /\ heard' = clock.steady + now
        /\ \E server : AddParticipant(s, p, server) \/ RemoveParticipant(s, p)
    BY <1>9 DEF on_participant_discovery, mainVars
  <2>2. heard' \in Int
    BY <1>1, <2>1, ClocksAssumption DEF FileInv, Typed
  <2>3. s \in Participant /\ ImageTyped
    BY <1>1 DEF Typed, FileInv
  <2>4. ImageTyped'
    BY <2>1, <2>3, ReportTyped
  <2> QED BY <2>1, <2>2, <2>4, UnchangedFile DEF ReadBack
<1>10. CASE StartAgain
  <2>1. /\ phase' = "start" /\ snapshots' = <<>> /\ clock' \in Clocks /\ heard' = clock'.steady
        /\ image' = [p \in {} |-> EmptyDatabase] /\ UNCHANGED <<file, saved>>
    BY <1>10 DEF StartAgain
  <2>2. heard' \in Int
    BY <2>1, ClocksAssumption
  <2>3. ImageTyped' /\ Written' /\ ~ReadBack'
    BY <2>1 DEF ImageTyped, FileInv, Written, ReadBack
  <2> QED BY <2>1, <2>2, <2>3 DEF FileInv
<1> QED BY <1>3, <1>4, <1>5, <1>6, <1>7, <1>8, <1>9, <1>10 DEF Next, Main

\* The invariant of the snapshot file holds of every process, the one that takes
\* the snapshots and those that read them.
THEOREM FileInvHolds == Spec => [](ScheduleInv /\ CountInv /\ FileInv)
<1>1. Init => FileInv
  BY InitFileInv
<1>2. ScheduleInv /\ CountInv /\ FileInv /\ [Next]_serverVars => FileInv'
  BY NextFileInv
<1>3. Init => CountInv
  BY InitCountInv
<1>4. ScheduleInv /\ ScheduleInv' /\ CountInv /\ [Next]_serverVars => CountInv'
  BY NextCountInv
<1> QED BY <1>1, <1>2, <1>3, <1>4, ScheduleTyped, PTL DEF Spec

\* saveSnapshots, loadSnapshots and the comparison: whatever the clocks of the two
\* processes, validating the file finds every snapshot as valid as the process that
\* took it would have.
THEOREM SameVerdictAlways == Spec => []SameVerdictFromFile
<1>1. FileInv => SameVerdictFromFile
  <2> SUFFICES ASSUME FileInv, ReadBack
               PROVE  /\ DOMAIN snapshots = DOMAIN saved
                      /\ \A i \in DOMAIN snapshots :
                            allKnowEachOther(snapshots[i]) = allKnowEachOther(saved[i])
    BY DEF SameVerdictFromFile
  <2>1. /\ snapshots = loadSnapshots(file, clock) /\ clock \in Clocks
        /\ \A i \in DOMAIN saved : IsShot(saved[i])
        /\ Written
    BY DEF FileInv
  <2> QED BY <2>1, FileRead
<1> QED BY <1>1, FileInvHolds, PTL

\* to_xml after from_xml: a process that saves what it loaded writes the file it
\* read, times included, but for the names of the databases and the counters of lost
\* writers, which the file it writes does not have.
THEOREM SavedAgainAlways == Spec => []SavedAgainAlike
<1>1. FileInv => SavedAgainAlike
  <2> SUFFICES ASSUME FileInv, ReadBack, NEW i \in DOMAIN snapshots
               PROVE  to_xml(snapshots[i], clock) = Remembered(file[i])
    BY DEF SavedAgainAlike
  <2>1. /\ snapshots = loadSnapshots(file, clock) /\ clock \in Clocks
        /\ \A k \in DOMAIN saved : IsShot(saved[k])
        /\ Written
    BY DEF FileInv
  <2> QED BY <2>1, FileRead
<1> QED BY <1>1, FileInvHolds, PTL
=============================================================================
