# eProsima Discovery Server: a verification project

The Discovery Server tool (`src/src/`, `src/include/`) reads an XML
configuration, creates Fast DDS participants (servers, clients, simples) and
their endpoints at given times, records what every participant discovers of the
others, takes snapshots of that database and decides whether all participants
know the same. Its tests are runs of this tool. The TLA+ modules here model the
tool; Fast DDS is outside the repository and is modelled by what the code uses
of it.

## Inventory

| Component | State | Operations | Code |
|---|---|---|---|
| Discovery database | `image`: per participant of the process, the participants it knows (alive or zombie) and their endpoints; `database_mutex` | `AddParticipant`, `RemoveParticipant` (two), `AddEndPoint`, `RemoveEndPoint`, `UpdateSubLiveliness`, `FindParticipant`, `GetState`, counters | `DiscoveryItem.cpp` 355-734, `DiscoveryItem.h` |
| Participant lifecycle and callbacks | `servers`, `clients`, `simples`, `entity_map`, `no_callbacks`, `data_readers`, `data_writers`; `management_mutex` (recursive) | `add*`, `getParticipant`, `removeParticipant`, `deleteParticipant`, `setParticipantInfo`, `onTerminate`, `on_participant_discovery`, `on_data_reader_discovery`, `on_data_writer_discovery`, `on_liveliness_changed` | `DiscoveryServerManager.cpp` 292-850, 1674-1908; `LateJoiner.cpp` |
| Snapshots | `snapshots` | `takeSnapshot`, `operator==` on databases, `allKnowEachOther`, `validateAllSnapshots`, `operator+=` | `DiscoveryServerManager.cpp` 1973-2078, `DiscoveryItem.cpp` 736-811, 1168-1201 |
| Snapshot files | files | `to_xml`, `from_xml`, `loadSnapshots`, `saveSnapshots` | `DiscoveryItem.cpp` 866-1166, `DiscoveryServerManager.cpp` 2091-2174 |
| Event schedule | `events`, the GUIDs the events hand to each other | `runEvents`, the `Delayed*` events | `DiscoveryServerManager.cpp` 258-290, `LateJoiner.h`, `LateJoiner.cpp` |
| Configuration loading | `events`, `server_locators` | `loadServer`, `loadClient`, `loadSimple`, `loadPublisher`, `loadSubscriber`, `MapServerInfo` | `DiscoveryServerManager.cpp` 860-1672 |
| Tool entry point | exit code | options, run, validate, terminate | `main.cpp` |
| Test harness | processes, result lists | `run_test.py`, the validators | `test/` |

How they interact. The main thread runs the events in the order of their times:
it creates and destroys participants and endpoints and takes snapshots. From
`create_participant` on, threads of Fast DDS call the manager back. A callback
looks its origin up in the maps (under `management_mutex`), updates the times of
the last callbacks and reads the maps (under it again), then calls the database
(under `database_mutex` only). `takeSnapshot` copies the image under both. When
the last event is done `main` validates the snapshots and calls `onTerminate`,
which destroys all participants without a lock while callbacks still run; the
destructor saves the snapshots.

What is hard. The origin check and the update of the database are separate
critical sections, and the event thread removes participants between them.
Callbacks begin before the participant is registered. Destroying a participant
waits for its callbacks, which wait for `management_mutex`. Reports about
participants and endpoints reach the database in different orders, which zombie
entries are there to absorb. Databases are sets ordered by GUID that are
searched with `lower_bound`, compared by walking two of them at once. Events
hand GUIDs to each other and their order is that of an unstable sort, so an
object may be gone, or not there yet, when its event runs. Snapshots are validated
by a process that has only a file, on other clocks. `PROJECT.json` lists each of
these hazards with its line.

What makes the components correct:

* database: it lists exactly what was reported and not taken back, every
  endpoint under its owner, whatever the order of the reports;
* lifecycle: a database is only that of a registered participant, callbacks are
  lost only when their origin was removed, no pointer to a deleted participant is
  used, and nobody waits forever;
* snapshots: every participant of the process is in the snapshot; two databases
  are equal exactly when they differ in nothing but each other's own entries;
  a snapshot is valid exactly when that holds of all pairs;
* files: a process that loads a file judges its snapshots as the process that
  saved it would have, and what it saves again has lost nothing but the names of
  databases and the counters of lost writers (both should be there: see Findings);
* schedule: participants and endpoints exist from their creation times to their
  removal times, whatever the order of events of one time; the maps of the manager
  hold exactly what exists, and nothing is left in the end;
* tool: exit code 0 means that the configuration was read to its end and all its
  snapshots were taken and, unless they are meant for a file, valid.

## Modules

* `DiscoveryDatabase` has the database as data and one operator per operation.
  A database is a function from the GUIDs it holds to items, because the code's
  containers are sets ordered by GUID; GUIDs are natural numbers, because
  `lower_bound` depends on their order (`NotBefore`, `LowerBound`). Each
  operation is atomic, as `database_mutex` makes it. Data readers and data
  writers are one set of endpoints, because one template serves both. The
  `Faulty...` operators are plausible mistakes in the operation they precede;
  nothing uses them, they are there to show that the properties notice.
* `DiscoveryReports` runs the operations as the callbacks of the participants of
  this process. Its history variables `knownParticipants` and `knownEndpoints`
  are the abstract database, a plain set of what was said and not taken back.
  `AnyOrderSpec` has the reports in every order; `InOrderSpec` has an endpoint
  discovered only while its participant is.
* `DiscoveryManager` has the threads: the event thread (`main`) goes through
  creation, registration, removal and destruction of participants and through
  `onTerminate`, and each participant has at most one callback in progress
  (`callback`), in the steps the two mutexes make of it: `CheckOrigin`,
  `UpdateUnderLock`, `ReadNames` (only once `no_callbacks` is set) and
  `ApplyReport`. Its database operations are those of `DiscoveryDatabase`, and
  `DiscoveryReports` is its abstract specification.
* `SnapshotCompare` has the algorithms on snapshots: `operator==` on databases
  (`Matches`), `allKnowEachOther`, and the walk with which `takeSnapshot` adds
  the participants that reported nothing (`Listed`). They are recursive functions;
  an iterator is the set of GUIDs it has not passed. Times and
  descriptions are left out.
* `Snapshots` composes them with the reports of `DiscoveryReports`: participants
  are added and removed, report (also after their removal, as `manager_ghost`
  shows they can), and snapshots are taken at any moment.
* `SnapshotFiles` has what `to_xml` writes and `from_xml` reads: the databases and
  which of them have a name (`named`), the liveliness counters, and the times, which are points of the steady clock in
  memory and milliseconds from the POSIX epoch or from the startup of the process in
  a file. A tick is less than a millisecond (`Millisecond`), so that rounding shows.
* `ScheduledEvents` has the event list and the `Delayed*` events, with the maps
  they read and write: `servers`, `clients` and `simples` (`members`), `entity_map`
  with the null entries `operator[]` leaves in it, `data_readers` and `data_writers`
  (`listed`), and what exists in Fast DDS (`existing`, `endpoints`). Links between
  events are positions in the list. `Due` lets events of one time run in any order.
* `DiscoveryServer` composes them into the tool: the constructor (`ReadFile`,
  `LoadElement`, `Loaded`) with its early returns, `runEvents`, validation and the
  exit code, `onTerminate`, the destructor that saves the snapshots, and a second
  process that is started with the saved file (`StartAgain`). Configurations are a
  constant (`Configuration` says what one is, `ParticipantElement`,
  `EndpointElement` and `SnapshotElement` what its elements say); participant
  discovery goes on beside `main`.
* The proofs are in `DiscoveryReportsProofs`, `SnapshotCompareProofs`,
  `SnapshotsProofs`, `DiscoveryManagerProofs`, `DiscoveryServerProofs`,
  `ScheduleProofs`, `EndpointScheduleProofs` and `VerdictProofs`.
* `MCDiscoveryReports`, `MCDiscoveryManager`, `MCSnapshots` and `MCDiscoveryServer`
  are the instances for TLC.

`DiscoveryManager` and `ScheduledEvents` look at the same participants from two
sides. The first has every interleaving of the event thread with callbacks, and
events in every order; the second has the schedule, the endpoints and the topics,
with each event one step, because what callbacks do in between does not touch the
maps it is about.

What is assumed of Fast DDS (marked external in `PROJECT.json`): one callback of
a participant at a time; a participant is not reported to itself; discoveries
and removals of one thing alternate; endpoints are discovered only while their
participant is, and removed in any order; no callback begins after
`set_listener(nullptr)`; `delete_participant` waits for the callbacks of the
participant, as the comment at `DiscoveryServerManager.cpp:1711` says, and
`set_listener` does not wait. Were `set_listener` to wait for a running callback,
`deleteParticipant` would deadlock, since it holds `management_mutex` there. A
lease may run out at any time, so anything may be reported lost and discovered
again. In `ScheduledEvents`: a second participant with the GUID of another ends
the process, either because Fast DDS refuses it and the null pointer is used
(`LateJoiner.cpp:33`) or by the assert of `addServer`, `addClient` or `addSimple`
(the build keeps asserts, that of `loadServer` at `DiscoveryServerManager.cpp:970`
included), and a participant is refused for no other reason; the endpoints of a participant are numbered, so that a
GUID is not used twice while the participant exists; `create_topic` returns null
for a topic that exists.

Simplifications of `DiscoveryServer`. A configuration has one `<DS>` element
with content, and a `servers` element exactly if it has servers. Whether an
element can be used is what its attributes say of it: `profile` (absent, unknown or
not of the right form, for another discovery protocol, good), `port` (whether
`std::stol` can read the listening port), `usable` (whether Fast DDS makes the
endpoint), `topic`, `described`. Where the code builds a string of a null attribute
or text, throws, or fails an assert, the process ends (`crashed`): a server without a
profile name ends it in `MapServerInfo` (line 1623), before `loadServer` would skip
it, and a server whose profile is for a client in `loadServer` (line 970). Times are whole
seconds, as in the code, and an event runs at the time it is due. An endpoint that
falls back on the participant of its owner event always ends in the null publisher,
since it got there because its own GUID is unknown to the maps. Only the discovery
of participants reaches the database, and discovery times are the startup of the
process; snapshot files with endpoints, zombies, counters and other times are among
those the tool may be started with (`Shots`).

## Runs

| Run | Shows | Instance |
|---|---|---|
| `reports_any_order` | who is alive is who was reported; no empty zombies; a reporter's own entry stays alive | 3 participants, the middle one by GUID reports, 4 endpoints |
| `reports_misfiled` | without the order, an endpoint is filed with a neighbour (finding) | as `reports_any_order` |
| `manager_settled` | the manager implements `DiscoveryReports`; settled databases say what Fast DDS told | a client between two remote participants, each with an endpoint |
| `manager_progress` | the same refinement for two participants; only registered participants report; no pointer to a deleted participant is used; the assert on the server flag holds; the event thread and the callbacks never wait forever | a client with an endpoint and a server |
| `manager_ghost` | a removed participant gets its database back (finding) | a client and a server with a reader |
| `manager_early` | reports before registration are lost (finding) | the same |
| `manager_items` | items are read after they were erased (finding) | the same |
| `snapshots` | a snapshot shows every participant and what it reported; complete discovery is valid; a valid snapshot hides no difference between neighbours or about remote participants; endpoints are listed under their owners, as reported | three participants, a remote one between them, 2 endpoints, 1 snapshot |
| `snapshots_pairs` | a snapshot passes although two of its members differ (finding) | the same |
| `tool` | the maps agree with Fast DDS; participants and endpoints follow their schedule; well-formed configurations do not crash; success means checked; files keep verdicts, and lose names and the counters of lost writers only; every run ends | a server and a participant with an endpoint on every schedule, two endpoints, two participants of one prefix, incomplete and wrong configurations (each kind of profile for each kind of participant, ports, topics, texts), snapshot files |
| `tool_late` | the endpoint of a participant that joins late without a prefix is not created (finding) | the same configurations |
| `tool_liveliness` | the counters of lost writers are not loaded (finding) | the same snapshot files |

Bounds. `MaxSnapshots` is 1: a snapshot is a copy that nothing changes, and each is
validated by itself. Three participants give `lower_bound` an entry before, at and
after the one it looks for, for the reporter and for another participant. Two
participants are enough for the races of the manager, which are between the event
thread and the callbacks of one participant, or of two: each callback concerns its
origin and one other participant. What is listed of remote participants, and where,
needs them before and after the reporter (`manager_settled`). Snapshots need a
participant that is the smaller and the larger of a pair, others before, between and
after a pair, own entries on both sides, and three databases for pairs that are not
neighbours. In `DiscoveryManager` a participant is created at most once; in
`ScheduledEvents` a GUID may be used again after its participant was removed.

For `tool`: creation, removal and snapshot times from 0 to 3 seconds make every
event of a participant, of its endpoint and of the snapshot come before, with and
after every other; two participants of one GUID make a null or an old entry meet a
new participant; two endpoints of one topic make the second find the topic. A
second has four ticks (`Second`), so that the tick an endpoint waits for its late
participant falls between two seconds, and a millisecond two (`Millisecond`), the
least that shows rounding. `MaxProcesses` is 2, one that saves and one that loads, and two
clocks differ in both their steady and system parts. TLC visits all 471,560 states.

Fairness. `manager_progress`: the event thread and the callbacks that have begun keep
running, as threads do; a callback gets `management_mutex` if it is free again and
again (strong fairness), since `std::recursive_mutex` starves nobody under the
operating systems' schedulers, though the standard does not promise it. Nothing is
assumed of Fast DDS reporting anything, nor of events. `tool`: weak fairness of
`main`, one thread that sleeps until times that come; the user need not press a key,
so `EveryRunEnds` counts waiting for the user as an end.

Deadlock is checked in every passing run but `tool`, whose processes exit.

## Proofs

`DiscoveryReportsProofs` proves, for every set of participants, endpoints and
reporters, every property that `reports_any_order` checks and, of reports in order,
`EndpointsExactlyAsReported` and `FiledUnderOwner`.
The assumptions are those of the modules: GUIDs are naturals, readers are
endpoints, every endpoint has an owner, reporters are participants.

`AnyOrderInv` is inductive for `AnyOrderSpec`. It says of each database that it
is well formed, has no empty zombie and no dead entry for its own reporter
(`ImageInv`), and that the living entries are the known participants
(`AliveInv`). The second needs the first: an endpoint that is filed with a
neighbour keeps the neighbour's life as it is only because the entry written
back is the one read, and an emplaced entry changes nobody's life only because
it is new or the reporter's own (`EmplacedIsNew`). `InOrderInv` adds that
endpoints are filed under their owners and are those known; it needs
`AnyOrderInv`, because an introduced endpoint finds its owner's entry by
`lower_bound` only if a known participant has an entry (`LowerBoundOfMember`).
Every operation has a lemma about the one database it changes, and
`ReplacedDatabase` and `ReplacedEndpoints` lift it to the image.

`SnapshotCompareProofs` is about the walks, which are recursive functions on
positions. Each has a distance to its end that is less at the position it goes on
from; `WalkExists` makes that the reason why a function with the recursive equation
exists, so that `CHOOSE` finds one and the equation may be used
(`ComparisonUnfolds`, `ListingUnfolds`). What a walk returns is then shown by looking
at the position nearest to the end where it would be wrong (`NearestPosition`).
`MatchesHidesNothing` and `ToldAlikeMatches` are the two halves of what `operator==`
means: databases it calls equal differ in their owners' entries only, and databases
that have been told the same are called equal. `ListedIsUnion` is what the walk of
`takeSnapshot` lists. A set of GUIDs is finite (`FiniteAssumption`; a GUID has 16
octets).

`SnapshotsProofs` shows that `SnapshotsSpec` implements `InOrderSpec`
(`SnapshotsReportInOrder`), so what is proved of the reports holds while
participants come and go and snapshots are taken, and from that and the walks that a
snapshot shows the participants of the process (`SnapshotsShowAll`) and of every one
exactly what it reported (`SnapshotsAreTrue`). `NeighboursDoAgree`,
`RemotesAreKnownToAll` and `NoFalseAlarm` are about `allKnowEachOther`; the second
goes along the neighbours of a snapshot from one member to any other.

`DiscoveryManagerProofs` is about every number of participants and every
interleaving. `IInv` is inductive: it says of each stage of the event thread who is
registered and who exists (`Stages`), and that a callback of a participant that was
never registered is no further than its origin check and has left no trace
(`NotYet`), which none of the properties says and all need. From it follow
`OnlyRegisteredReport` and `SafeDereference`, and the refinement: a callback that
applies its report, `removeParticipant` and a liveliness callback are each one step
of `DiscoveryReports`, everything else is none (`StepsAreReports`). The theorems of
`DiscoveryReportsProofs` then hold of the manager (`Proved`), and `TypeCorrect` takes
the types of the databases from there. `ServerFlagAsserted` needs a second invariant,
`Ledger`: the assert could only fail if the database heard of one participant twice
without hearing of its loss, and callbacks are ignored at times. `Accounts` says that
whatever a database was told stays known to Fast DDS, but for the callback in
progress; it holds because a report is ignored only before the participant is
registered, when nothing was told yet, or once it is unregistered and its listener
about to go. The last part is about one participant at a time, since one that had a
callback ignored may miss a report for good. Of any other, `SettledInv` says that its
database is behind Fast DDS by the callback in progress at most, and that an endpoint
that is being reported has an owner the database knows; the lemmas about one database
of `DiscoveryReportsProofs` then give what it holds (`SettledDatabases`).

`DiscoveryServerProofs` is about every configuration, every number of participants,
endpoints and topics, and every order of events. `IInv` says that while the manager
lives, its maps and Fast DDS agree (`Agreement`): a valid entry of `entity_map`
belongs to a participant that exists and has its topics, a null entry to none, the
endpoint maps hold the endpoints that exist, and their participants exist. The last
is what makes it inductive: an endpoint whose participant were gone could not be
deleted through it. One lemma per event shows that it is kept. Theorems:
`RegisteredAreFound`, `ListedAreTheEndpoints`, `TopicsAreRegistered` and, after
`onTerminate`, `NothingIsLeft`.

`ScheduleProofs` is about the event list, for every configuration (of the types that
`ConfigurationsAssumption` gives its elements). `Kept` says of two lists that the later one
has the events of the earlier, but for GUIDs that events have been told; every step
keeps the list in that sense (`ScheduleTyped`: the links lead to events of the right
kind). Three invariants rest on it. `PlanInv` says of a participant whose schedule
makes sense that nothing is there of it before its step (`Untouched`), and afterwards
one creation event and one removal event at most, which knows its GUID when it has
to, and that it is registered exactly from the one to the other (`OnPlan`); with
events running in the order of their times (`InOrder`) `ScheduleIsFollowed` follows.
`CalmInv` says of a well formed configuration that whoever is to be created is not
there and is to be created once, and that an endpoint event has been given the GUID
its owner event creates; a null entry is then never met (`WellFormedNeverCrash`).

What is well formed: the configuration is well described (`WellDescribed`: a server
names a profile, and one that is for servers if it is known; `std::stol` can read
listening ports; endpoints have topics; snapshots have texts, and so have changes of the
environment if they are read; a participant that joins late with endpoints has a
configured prefix), and a prefix is used twice only where `loadServer` notices
(`PrefixesApart`: validation is on, both are servers, and the first does not join late).
Each condition rules out configurations that do end the process, the last two also some
that do not (a prefix that is used again after its participant has left). The theorem
says that, of the ways to end a process that are modelled, no other is left: unknown
profiles, elements that are skipped, servers that share a prefix, endpoints that Fast DDS
refuses and every order of events do no harm. That a server whose prefix is used again is
skipped is what the invariant needs of servers still to be loaded (`Loadable`: nobody has
their prefix yet, or `SharesPrefix` will see it). Of the excluded cases one is a finding
(`tool_late`), the others are listed as hazards: the validation of prefixes, for
instance, does not see a server that joins late.

`EndpointScheduleProofs` does for endpoints what `PlanInv` does for participants, and
rests on it. An endpoint of the configuration is told by its id (`IdsAssumption`: the
id stands for its place in the configuration), one of Fast DDS by its GUID, which is
known only once it is created, so the crux is which removal event has been told which
GUID. `EndpointInv` says of an endpoint whose schedule makes sense that before its step
nothing is there of it (`Unmade`), that its step is given its participant's GUID and
creation event (`StepFor`), that it then has one creation event and one removal event
at most (`EndpointEvents`), and that once it is created its GUID is told to its own
removal event and to no other, and is there exactly as long as its participant is and
that event has not run (`MadeAs`). That nobody else's endpoint gets the GUID needs two
more parts, of all endpoints: the participant has used the GUIDs of its endpoints
(`Numbered`), and a GUID that any removal event was told is never that of an endpoint
still to be created, because participants with planned endpoints are created once
(`AllTold`). That the participant is there when the event runs comes from `OnPlan` and
from the order of times: `StartTimes` shows that an endpoint's creation is later than
its participant's and earlier than both removals. Each kind of step has a lemma that it
keeps an endpoint on plan; `LoadGoesOn` and `RunGoesOn` collect them, and
`EndpointsAlwaysFollow` is the result.

`VerdictProofs` is about what the tool says in the end. `CountInv` counts: snapshots
are loaded last and in order (`SnapshotsLast`), there are as many snapshot events as
timed elements loaded, and as many snapshots as of those have run. From it follows
`SuccessIsChecked`. For files, `ShotRead` compares a snapshot with what another
process reads of it: `allKnowEachOther` says the same of both because comparing looks only at who is alive and at endpoints (`SameVerdict`, by the same argument on walks),
and writing it again gives what was read but for what is never read (`Remembered`: the
names of databases, and `not_alive_count` where `alive_count` is there), because times
in a file are whole milliseconds (`WholeMilliseconds`). `SavedAgainAlike` so says what is
lost and that nothing else is. `FileInv` says that the file is always what some
process wrote of snapshots, and that a process that read it has what it tells; it
survives the file being saved again by that process, which is why `ShotRead` also says
that reading the new file gives the same snapshots. `ShotsAssumption` and
`ClocksAssumption` say that files come from snapshots and that clocks show integers.

Every invariant and every action property of the passing runs is proved. Only
model-checked: liveness (`EventThreadProceeds`, `CallbacksReturn`, `EveryRunEnds`),
which is out of the prover's reach, and the properties that are violated.

## Findings

Seven runs show where the code and its own comments part; `PROJECT.json` quotes the
lines. An endpoint whose participant is not listed is filed under a neighbour
(`reports_misfiled`). A callback recreates the database of a removed participant
(`manager_ghost`), reports before registration are dropped (`manager_early`), and
during termination items are read after they were erased (`manager_items`). Only
neighbouring databases are compared (`snapshots_pairs`). The endpoint of a participant
that joins late without a prefix is created through a null pointer (`tool_late`), and
the counters of lost writers are not loaded (`tool_liveliness`).

Two more things a user of the tool may trip over contradict no comment of the code, so
no run claims a violation. `from_xml` makes a database of its GUID alone
(`DiscoveryItem.cpp:1053`), so a file that is validated with an output file comes out
without the names of the databases; the guidless mode of the test validators tells
databases apart by them. `SavedAgainAlike` says so: it compares the file saved again
with one that has no names (`Remembered`). And a snapshot file that is valid gets exit
code 1: the constructor returns early for it and leaves `correctly_created_` false,
and `main` prints "Output file validation succeeded!"
(`DiscoveryServerManager.cpp:2088`) beside it. `SuccessMeansChecked` says what the
code 0 means, and so nothing of these files.

## What the project could still take on

The event thread appears twice, in `DiscoveryManager` with its critical sections and in
`ScheduledEvents` with its events. That the second, events hidden, is the first with
callbacks in one step is argued above and not proved.

`EndpointsFollowSchedule` is silent about endpoints of a participant that joins late
without a prefix, which `tool_late` shows to be lost, and of a late server that says
nothing of their own creation time, of which the code says nothing either.

## Not modelled

* The test harness (`test/`): Python scripts outside the tool.
* Option parsing (`optionparser.h`, vendored), logging, the generated type support.
* Locators, ports and transports (what `MapServerInfo` stores, parts of `loadServer`,
  `loadClient` and `loadSimple`), which decide who can reach whom: here anybody may
  discover anybody at any time. That `MapServerInfo` builds a string of a null name, and
  that a port may not be readable, is modelled.
* Environment changes (`loadEnvironmentChange`, `DelayedEnvironmentModification`): they
  write a file that only Fast DDS reads. What the constructor does when the variable for
  it is not set is modelled (`unset`), and that a change without a text ends the process
  (`textless`).
* Names of entries and descriptions: the tool reads from a file what it wrote of them
  and decides nothing by them. Of the name of a database it is modelled whether it has
  one; which, no decision depends on.
* Types and topics of the endpoints of a database. `operator==` does compare them
  (`DiscoveryItem.cpp:79-81` and `:96-98`), `SameItem` does not: an endpoint has one type
  and one topic for as long as it exists, its participant announces the same to everybody,
  and `AddEndPoint` asserts it (`DiscoveryItem.cpp:489-490`), so two entries of one GUID
  never differ in them. Files written by hand could; that the tool would then call two
  databases different is outside the model.
* `operator+=` on snapshots: `loadSnapshots` is called once, on an empty list, so it
  never runs.
