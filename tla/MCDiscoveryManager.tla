------------------------- MODULE MCDiscoveryManager -------------------------
(***************************************************************************)
(* A client and a server of this process; one of them has a reader.        *)
(***************************************************************************)
EXTENDS DiscoveryManager

CONSTANTS reader, writer1, writer3

MCParticipant == 1 .. 2
MCClient == {1}
MCServer == {2}
MCReader == {reader}

\* The server's, or the client's: clients are deleted first.
MCOwner == [e \in MCReader |-> 2]
MCClientOwner == [e \in MCReader |-> 1]

\* A client between two remote participants by GUID, all three with an endpoint.
MCThreeParticipants == 1 .. 3
MCMiddle == {2}
MCThreeEndpoints == {writer1, reader, writer3}
MCThreeOwners == [e \in MCThreeEndpoints |-> CASE e = writer1 -> 1
                                               [] e = reader -> 2
                                               [] OTHER -> 3]

=============================================================================
