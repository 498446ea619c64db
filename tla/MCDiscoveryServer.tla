------------------------- MODULE MCDiscoveryServer -------------------------
(***************************************************************************)
(* Configurations of a server and one or two participants more, and small  *)
(* snapshot files.                                                         *)
(***************************************************************************)
EXTENDS DiscoveryServer, TLC

CONSTANTS hello, writer1, writer2, second2, reader2

MCParticipant == 1 .. 2
MCEndpoint == {writer1, writer2, second2, reader2}
MCReader == {reader2}
MCOwner == [e \in MCEndpoint |-> IF e = writer1 THEN 1 ELSE 2]
MCTopic == {hello}

-----------------------------------------------------------------------------
Participants(kinds, guids, fixed, creations, removals, sequences) ==
    [kind : kinds, guid : guids, fixed : fixed, profile : {"good"}, port : {TRUE},
     creation : creations, removal : removals, endpoints : sequences]

Endpoints(ids, readers, topics, creations, removals) ==
    [id : ids, reader : readers, usable : {TRUE}, topic : topics, creation : creations,
     removal : removals]

TheSnapshot == [time |-> {2}, described |-> TRUE, someone |-> TRUE, liveliness |-> FALSE]

AConfiguration(participants) ==
    [root |-> "config", auto |-> TRUE, validation |-> TRUE, participants |-> participants,
     snapshots |-> <<TheSnapshot>>, file |-> FALSE, option |-> TRUE, unset |-> FALSE,
     textless |-> FALSE]

TheServer == [kind |-> "server", guid |-> 1, fixed |-> TRUE, profile |-> "good",
              port |-> TRUE, creation |-> 0, removal |-> 0, endpoints |-> <<>>]

AnEndpoint(id) == [id |-> id, reader |-> FALSE, usable |-> TRUE, topic |-> {hello},
                   creation |-> {}, removal |-> 0]

\* One participant beside the server, on every schedule, ties included.
OneEndpoint ==
    {<<e>> : e \in Endpoints({1}, BOOLEAN, {{hello}}, {{}, {1}, {2}}, {0, 3})}

Schedules ==
    {AConfiguration(<<TheServer, p>>) :
        p \in Participants({"client", "simple", "server"}, {2}, BOOLEAN, {0, 1}, {0, 2, 3}, OneEndpoint)}

\* Two endpoints on one topic; a prefix used again, with validation and without.
Pairs ==
    {AConfiguration(<<TheServer, p>>) :
        p \in Participants({"client", "server"}, {2}, {TRUE}, {0, 1}, {0, 2},
                           {<<AnEndpoint(1), [AnEndpoint(2) EXCEPT !.usable = u]>> : u \in BOOLEAN})}

SamePrefix ==
    {[AConfiguration(<<TheServer, p, q>>) EXCEPT !.validation = v] :
        v \in BOOLEAN,
        p \in Participants({"client", "server"}, {2}, {TRUE}, {0, 1}, {0, 1},
                           {<<[AnEndpoint(1) EXCEPT !.removal = 3]>>}),
        q \in Participants({"client", "server"}, {2}, {TRUE}, {0, 1, 2}, {0}, {<<AnEndpoint(2)>>})}

\* The ways a configuration can be incomplete.
Oddities ==
    LET base == AConfiguration(<<TheServer,
                    [TheServer EXCEPT !.kind = "client", !.guid = 2, !.endpoints = <<AnEndpoint(1)>>]>>)
    IN { base,
         [base EXCEPT !.root = "other"],
         [base EXCEPT !.auto = FALSE],
         [base EXCEPT !.auto = FALSE, !.participants = Tail(@)],
         [base EXCEPT !.participants[2].port = FALSE],
         [base EXCEPT !.participants[2].kind = "server", !.participants[2].port = FALSE],
         [base EXCEPT !.participants[2].endpoints[1].topic = {}],
         [base EXCEPT !.snapshots[1].described = FALSE],
         [base EXCEPT !.snapshots[1].time = {}],
         [base EXCEPT !.snapshots[1].someone = FALSE],
         [base EXCEPT !.snapshots = <<TheSnapshot, [TheSnapshot EXCEPT !.time = {1}]>>],
         [base EXCEPT !.file = TRUE],
         [base EXCEPT !.option = FALSE],
         [base EXCEPT !.textless = TRUE],
         [base EXCEPT !.unset = TRUE, !.textless = TRUE],
         [base EXCEPT !.unset = TRUE] }
       \cup
       {[base EXCEPT !.participants[2].kind = kind, !.participants[2].fixed = fixed,
                     !.participants[2].profile = profile] :
           kind \in {"server", "client", "simple"}, fixed \in BOOLEAN,
           profile \in {"none", "unknown", "other"}}

MCConfigurations == Schedules \cup Pairs \cup SamePrefix \cup Oddities

-----------------------------------------------------------------------------
MCClocks == {[steady |-> 3, system |-> 11], [steady |-> 8, system |-> 20]}

Counts == [alive : {0, 1}, not_alive : {0, 1}]

EntriesOf(startup) ==
    {[alive |-> a, server |-> FALSE, endpoints |-> es, discovered |-> startup + d,
      counts |-> [r \in es \cap MCReader |-> c]] :
        a \in BOOLEAN, es \in {{}, {reader2}}, d \in {0, 3}, c \in Counts}

\* Snapshots of two participants, each of which may list the other and itself.
ShotsOf(startup, takenAt) ==
    {[time |-> startup + takenAt, startup |-> startup, callback |-> startup + takenAt - 1,
      if_someone |-> someone, show_liveliness |-> shown,
      named |-> {1, 2}, databases |-> (1 :> one @@ 2 :> two)] :
        someone \in BOOLEAN, shown \in BOOLEAN,
        one \in {[q \in {} |-> 0]} \cup {2 :> item : item \in EntriesOf(startup)},
        two \in {[q \in {} |-> 0]} \cup {2 :> item : item \in EntriesOf(startup)}
                  \cup {1 :> item : item \in EntriesOf(startup)}}

MCShots == {<<shot>> : shot \in ShotsOf(3, 5)}

=============================================================================
