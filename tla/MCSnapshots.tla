---------------------------- MODULE MCSnapshots ----------------------------
(***************************************************************************)
(* Three participants of this process and a remote one between them by     *)
(* GUID.  The writer is of a participant that has neighbours on both sides.*)
(***************************************************************************)
EXTENDS Snapshots

CONSTANTS writer2, writer4

MCParticipant == 1 .. 4
MCReporter == {1, 2, 4}
MCServer == {1}
MCEndpoint == {writer2, writer4}
MCOwner == [e \in MCEndpoint |-> IF e = writer2 THEN 2 ELSE 4]

=============================================================================
