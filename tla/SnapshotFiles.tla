--------------------------- MODULE SnapshotFiles ---------------------------
(***************************************************************************)
(* Snapshots written to a file and read again, by another process and on   *)
(* other clocks.                                                           *)
(*                                                                         *)
(* In memory times are points of the process's steady clock, in ticks; in  *)
(* a file they are milliseconds, from the POSIX epoch or from the startup  *)
(* of the process that took the snapshot.  A clock record holds what both  *)
(* clocks of a process (Snapshot::_steady_clock, _system_clock) showed at  *)
(* its startup.                                                            *)
(*                                                                         *)
(* The times of the last PDP and EDP callback are one time here, and the   *)
(* discovery times of an entry and its endpoints another: each is          *)
(* converted alike.  Of the name of a database it matters whether it has   *)
(* one.  The names of entries, the types and topics of endpoints and the   *)
(* description, which are read as they were written, are left out.         *)
(***************************************************************************)
EXTENDS SnapshotCompare, Integers

CONSTANT Millisecond    \* ticks of the clock in a millisecond

ASSUME MillisecondAssumption == Millisecond \in Nat \ {0}

\* duration_cast<milliseconds>; no duration here is negative.
Milliseconds(ticks) == ticks \div Millisecond

Ticks(milliseconds) == milliseconds * Millisecond

NotCounted == [alive |-> 0, not_alive |-> 0]

-----------------------------------------------------------------------------
(***************************************************************************)
(* An entry in memory: what operator== compares, when it was discovered,   *)
(* and the liveliness counters of every reader.  In a file, counters are   *)
(* attributes that a reader may have or not: counts has only the readers   *)
(* that do.  They are written on request, for the readers of the           *)
(* database's own participant.                                             *)
(***************************************************************************)
IsRecorded(item) ==
    /\ item.discovered \in Int
    /\ item.counts \in [item.endpoints \cap Reader -> [alive : Nat, not_alive : Nat]]

\* A snapshot in memory.  named: the databases with the name of their participant,
\* the name of the others being empty.
IsShot(shot) ==
    /\ {shot.time, shot.startup, shot.callback} \subseteq Int
    /\ shot.show_liveliness \in BOOLEAN
    /\ DOMAIN shot.databases \subseteq Participant
    /\ shot.named \subseteq DOMAIN shot.databases
    /\ \A p \in DOMAIN shot.databases :
          /\ DOMAIN shot.databases[p] \subseteq Participant
          /\ \A q \in DOMAIN shot.databases[p] : IsRecorded(shot.databases[p][q])

EntryElement(shot, p, item) ==
    [alive |-> item.alive, server |-> item.server, endpoints |-> item.endpoints,
     discovered |-> Milliseconds(item.discovered - shot.startup),
     counts |-> [r \in {r \in DOMAIN item.counts : shot.show_liveliness /\ Owner[r] = p}
                    |-> item.counts[r]]]

to_xml(shot, clock) ==
    [timestamp |-> Milliseconds(shot.time - clock.steady + clock.system),
     process_time |-> Milliseconds(shot.time - shot.startup),
     last_callback |-> Milliseconds(shot.callback - shot.startup),
     someone |-> shot.if_someone,
     named |-> shot.named,
     databases |-> [p \in DOMAIN shot.databases |->
                       [q \in DOMAIN shot.databases[p] |->
                           EntryElement(shot, p, shot.databases[p][q])]]]

-----------------------------------------------------------------------------
TimeRead(element, clock) == Ticks(element.timestamp) - clock.system + clock.steady

\* Fault: the startup of the process that reads.
FaultyStartupRead(element, clock) == clock.steady

StartupRead(element, clock) == TimeRead(element, clock) - Ticks(element.process_time)

(***************************************************************************)
(* The two counters are queried in one disjunction: where the first is     *)
(* found the second is not looked for and keeps its initial value.         *)
(***************************************************************************)
CountsRead(entry) ==
    [r \in entry.endpoints \cap Reader |->
        IF r \in DOMAIN entry.counts THEN [NotCounted EXCEPT !.alive = entry.counts[r].alive]
                                     ELSE NotCounted]

\* Fault: the alive attribute is not read.
FaultyEntryRead(entry, startup) ==
    [alive |-> TRUE, server |-> entry.server, endpoints |-> entry.endpoints,
     discovered |-> startup + Ticks(entry.discovered), counts |-> CountsRead(entry)]

EntryRead(entry, startup) ==
    [alive |-> entry.alive, server |-> entry.server, endpoints |-> entry.endpoints,
     discovered |-> startup + Ticks(entry.discovered), counts |-> CountsRead(entry)]

\* Every database is made of a GUID alone: the names in the file are not read.
from_xml(element, clock) ==
    LET startup == StartupRead(element, clock)
    IN [time |-> TimeRead(element, clock),
        startup |-> startup,
        callback |-> startup + Ticks(element.last_callback),
        if_someone |-> element.someone,
        show_liveliness |-> \E p \in DOMAIN element.databases :
                              \E q \in DOMAIN element.databases[p] :
                                DOMAIN element.databases[p][q].counts # {},
        named |-> {},
        databases |-> [p \in DOMAIN element.databases |->
                          [q \in DOMAIN element.databases[p] |->
                              EntryRead(element.databases[p][q], startup)]]]

saveSnapshots(shots, clock) == [i \in DOMAIN shots |-> to_xml(shots[i], clock)]

\* Into an empty list: main loads one file at most.
loadSnapshots(file, clock) == [i \in DOMAIN file |-> from_xml(file[i], clock)]

=============================================================================
