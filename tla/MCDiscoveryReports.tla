------------------------- MODULE MCDiscoveryReports -------------------------
(***************************************************************************)
(* Three participants, of which the middle one by GUID reports, so that    *)
(* lower_bound has an entry before it, its own entry and one after it.     *)
(***************************************************************************)
EXTENDS DiscoveryReports

CONSTANTS writer1, reader2, writer3, reader3    \* endpoints of participants 1, 2 and 3

MCParticipant == 1 .. 3
MCReporter == {2}
MCEndpoint == {writer1, reader2, writer3, reader3}
MCReader == {reader2, reader3}
MCOwner == [e \in MCEndpoint |-> CASE e = writer1 -> 1
                                   [] e = reader2 -> 2
                                   [] OTHER -> 3]

=============================================================================
