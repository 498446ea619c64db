----------------------- MODULE DiscoveryReportsProofs -----------------------
(***************************************************************************)
(* What holds of the discovery database for every set of participants,     *)
(* endpoints and reporters.                                                *)
(*                                                                         *)
(* An operation replaces the database of one reporter, so the proofs go    *)
(* in two stages: lemmas about one database say what each operation keeps  *)
(* of DatabaseInv and whom it leaves alive, and PutImage carries that to   *)
(* the image.                                                              *)
(***************************************************************************)
EXTENDS DiscoveryReports, WellFoundedInduction, TLAPS

-----------------------------------------------------------------------------
Alive(database, p) == p \in DOMAIN database /\ database[p].alive

\* What every order of reports keeps true of the database of reporter s.
DatabaseInv(s, database) ==
    /\ IsDatabase(database)
    /\ \A p \in DOMAIN database : ~database[p].alive => database[p].endpoints # {}
    /\ s \in DOMAIN database => database[s].alive

ImageInv == /\ DOMAIN image \subseteq Reporter
            /\ \A s \in DOMAIN image : DatabaseInv(s, image[s])

KnownTypeOK == /\ knownParticipants \subseteq Reporter \X Participant
               /\ knownEndpoints \subseteq Reporter \X Endpoint

AliveInv == \A s \in Reporter, p \in Participant :
                s # p => (Alive(DatabaseOf(s), p) <=> <<s, p>> \in knownParticipants)

AnyOrderInv == ImageInv /\ KnownTypeOK /\ AliveInv

-----------------------------------------------------------------------------
(* The containers.                                                         *)

\* Putting an item changes what is found at its key and nowhere else.
LEMMA PutProps ==
    ASSUME NEW set, NEW key, NEW item
    PROVE  /\ DOMAIN Put(set, key, item) = DOMAIN set \cup {key}
           /\ Put(set, key, item)[key] = item
           /\ \A k \in DOMAIN set : k # key => Put(set, key, item)[k] = set[k]
BY DEF Put

\* Erasing an item leaves the others as they were.
LEMMA EraseProps ==
    ASSUME NEW set, NEW key
    PROVE  /\ DOMAIN Erase(set, key) = DOMAIN set \ {key}
           /\ \A k \in DOMAIN set \ {key} : Erase(set, key)[k] = set[k]
BY DEF Erase

\* lower_bound points into the set unless it is end().
LEMMA LowerBoundInSet ==
    ASSUME NEW set, DOMAIN set \subseteq Nat, NEW key, NotBefore(set, key) # {}
    PROVE  /\ LowerBound(set, key) \in DOMAIN set
           /\ LowerBound(set, key) \in NotBefore(set, key)
           /\ \A k \in NotBefore(set, key) : LowerBound(set, key) <= k
<1> DEFINE T == NotBefore(set, key)
<1>1. T \subseteq Nat /\ T \subseteq DOMAIN set
  BY DEF NotBefore
<1>2. \E x \in T : \A y \in T : ~ (<<y, x>> \in OpToRel(<, Nat))
  <2> HIDE DEF T
  <2> QED BY <1>1, WFMin, NatLessThanWellFounded, T # {} DEF T
<1>3. PICK x \in T : \A y \in T : ~ (<<y, x>> \in OpToRel(<, Nat))
  BY <1>2
<1>4. \A y \in T : x <= y
  <2> TAKE y \in T
  <2>1. x \in Nat /\ y \in Nat
    BY <1>1
  <2>2. ~(y < x)
    BY <1>3, <2>1 DEF OpToRel
  <2> QED BY <2>1, <2>2
<1> QED BY <1>1, <1>4 DEF LowerBound

\* lower_bound finds a key that is there.
LEMMA LowerBoundOfMember ==
    ASSUME NEW set, DOMAIN set \subseteq Nat, NEW key \in DOMAIN set
    PROVE  NotBefore(set, key) # {} /\ LowerBound(set, key) = key
<1>1. key \in NotBefore(set, key)
  BY DEF NotBefore
<1>2. /\ LowerBound(set, key) \in NotBefore(set, key)
      /\ LowerBound(set, key) <= key
  BY <1>1, LowerBoundInSet
<1> QED BY <1>1, <1>2 DEF NotBefore

-----------------------------------------------------------------------------
(* One database.                                                           *)

\* A freshly created database satisfies the invariant and lists nobody.
LEMMA EmptyDatabaseInv ==
    ASSUME NEW s
    PROVE  /\ DatabaseInv(s, EmptyDatabase)
           /\ DOMAIN EmptyDatabase = {}
BY DEF DatabaseInv, EmptyDatabase, IsDatabase

\* The database of a reporter satisfies the invariant, created or not.
LEMMA DatabaseOfInv ==
    ASSUME ImageInv, NEW s
    PROVE  DatabaseInv(s, DatabaseOf(s))
BY EmptyDatabaseInv DEF ImageInv, DatabaseOf

\* Putting a well-formed item that is no empty zombie, nor a dead entry of the
\* reporter itself, keeps the invariant.
LEMMA PutItem ==
    ASSUME NEW s, NEW database, DatabaseInv(s, database),
           NEW p \in Participant, NEW item \in ParticipantItem,
           ~item.alive => item.endpoints # {} /\ p # s
    PROVE  /\ DatabaseInv(s, Put(database, p, item))
           /\ \A q : Alive(Put(database, p, item), q)
                        <=> IF q = p THEN item.alive ELSE Alive(database, q)
<1> DEFINE new == Put(database, p, item)
<1>1. /\ DOMAIN new = DOMAIN database \cup {p}
      /\ new[p] = item
      /\ \A k \in DOMAIN database : k # p => new[k] = database[k]
  BY DEF Put
<1> HIDE DEF new
<1>2. IsDatabase(new)
  BY <1>1 DEF DatabaseInv, IsDatabase
<1>3. \A k \in DOMAIN new : ~new[k].alive => new[k].endpoints # {}
  BY <1>1 DEF DatabaseInv
<1>4. s \in DOMAIN new => new[s].alive
  BY <1>1 DEF DatabaseInv
<1>5. DatabaseInv(s, new)
  BY <1>2, <1>3, <1>4 DEF DatabaseInv
<1>6. \A q : Alive(new, q) <=> IF q = p THEN item.alive ELSE Alive(database, q)
  BY <1>1 DEF Alive
<1> QED BY <1>5, <1>6 DEF new

\* Erasing an entry keeps the invariant, and takes nobody else's life.
LEMMA EraseItem ==
    ASSUME NEW s, NEW database, DatabaseInv(s, database), NEW p
    PROVE  /\ DatabaseInv(s, Erase(database, p))
           /\ \A q : Alive(Erase(database, p), q) <=> q # p /\ Alive(database, q)
<1> DEFINE new == Erase(database, p)
<1>1. /\ DOMAIN new = DOMAIN database \ {p}
      /\ \A k \in DOMAIN database \ {p} : new[k] = database[k]
  BY EraseProps
<1> HIDE DEF new
<1>2. DatabaseInv(s, new)
  BY <1>1 DEF DatabaseInv, IsDatabase
<1>3. \A q : Alive(new, q) <=> q # p /\ Alive(database, q)
  BY <1>1 DEF Alive
<1> QED BY <1>2, <1>3 DEF new

\* What the updates of an item do to it.
LEMMA ItemUpdates ==
    ASSUME NEW item \in ParticipantItem
    PROVE  /\ \A alive \in BOOLEAN :
                /\ Acknowledged(item, alive) \in ParticipantItem
                /\ Acknowledged(item, alive).alive = alive
                /\ Acknowledged(item, alive).endpoints = item.endpoints
           /\ \A e \in Endpoint :
                /\ ItemWith(item, e) \in ParticipantItem
                /\ ItemWith(item, e).alive = item.alive
                /\ ItemWith(item, e).endpoints = item.endpoints \cup {e}
           /\ \A e :
                /\ ItemWithout(item, e) \in ParticipantItem
                /\ ItemWithout(item, e).alive = item.alive
                /\ ItemWithout(item, e).endpoints = item.endpoints \ {e}
BY DEF Acknowledged, ItemWith, ItemWithout, ParticipantItem

\* An entry that is not there is emplaced as a well-formed item.
LEMMA EntryOrNewType ==
    ASSUME NEW database, IsDatabase(database), NEW p
    PROVE  EntryOrNew(database, p) \in ParticipantItem
BY DEF IsDatabase, EntryOrNew, NewItem, ParticipantItem

\* AddParticipant makes p alive and changes nobody else.
LEMMA WithParticipantProps ==
    ASSUME NEW s, NEW database, DatabaseInv(s, database),
           NEW p \in Participant, p # s, NEW server \in BOOLEAN
    PROVE  /\ DatabaseInv(s, WithParticipant(database, p, server))
           /\ \A q : Alive(WithParticipant(database, p, server), q)
                        <=> q = p \/ Alive(database, q)
<1>1. CASE p \notin DOMAIN database
  <2>1. NewItem(server) \in ParticipantItem /\ NewItem(server).alive
    BY DEF NewItem, ParticipantItem
  <2> QED BY <1>1, <2>1, PutItem DEF WithParticipant
<1>2. CASE p \in DOMAIN database /\ database[p].alive
  BY <1>2 DEF WithParticipant, Alive
<1>3. CASE p \in DOMAIN database /\ ~database[p].alive
  <2> DEFINE item == [database[p] EXCEPT !.alive = TRUE, !.server = server]
  <2>1. item \in ParticipantItem /\ item.alive
    BY <1>3 DEF DatabaseInv, IsDatabase, ParticipantItem
  <2>2. WithParticipant(database, p, server) = Put(database, p, item)
    BY <1>3 DEF WithParticipant
  <2> HIDE DEF item
  <2> QED BY <2>1, <2>2, PutItem
<1> QED BY <1>1, <1>2, <1>3

\* RemoveParticipant leaves p out of the living and changes nobody else.
LEMMA WithoutParticipantProps ==
    ASSUME NEW s, NEW database, DatabaseInv(s, database),
           NEW p \in Participant, p # s
    PROVE  /\ DatabaseInv(s, WithoutParticipant(database, p))
           /\ \A q : Alive(WithoutParticipant(database, p), q)
                        <=> q # p /\ Alive(database, q)
<1>1. CASE p \notin DOMAIN database
  BY <1>1 DEF WithoutParticipant, Alive
<1>2. CASE p \in DOMAIN database /\ database[p].endpoints = {}
  BY <1>2, EraseItem DEF WithoutParticipant
<1>3. CASE p \in DOMAIN database /\ database[p].endpoints # {}
  <2> DEFINE item == Acknowledged(database[p], FALSE)
  <2>1. item \in ParticipantItem /\ ~item.alive /\ item.endpoints # {}
    BY <1>3, ItemUpdates DEF DatabaseInv, IsDatabase
  <2>2. WithoutParticipant(database, p) = Put(database, p, item)
    BY <1>3 DEF WithoutParticipant
  <2> HIDE DEF item
  <2> QED BY <2>1, <2>2, PutItem
<1> QED BY <1>1, <1>2, <1>3

\* AddEndPoint emplaces an entry for a participant other than the reporter only
\* when that participant is not listed.
LEMMA EmplacedIsNew ==
    ASSUME NEW s, NEW database, NEW p \in Participant, p # s,
           EmplacesOwner(database, s, p)
    PROVE  p \notin DOMAIN database
BY ParticipantAssumption DEF EmplacesOwner, NotBefore

\* AddEndPoint, wherever it files the endpoint, keeps the invariant and changes
\* nobody's life but, possibly, the reporter's own entry.
LEMMA WithEndpointProps ==
    ASSUME NEW s \in Participant, NEW database, DatabaseInv(s, database),
           NEW e \in Endpoint
    PROVE  /\ DatabaseInv(s, WithEndpoint(database, s, e))
           /\ \A q : q # s => (Alive(WithEndpoint(database, s, e), q)
                                  <=> Alive(database, q))
<1>1. PICK p \in Participant : p = Owner[e]
  BY EndpointAssumption
<1>2. PICK receiver : receiver = Receiver(database, s, p)
  OBVIOUS
<1>3. PICK filed : filed = ReceiverItem(database, s, p)
  OBVIOUS
<1>4. WithEndpoint(database, s, e) = Put(database, receiver, ItemWith(filed, e))
  BY <1>1, <1>2, <1>3 DEF WithEndpoint
<1>5. CASE EmplacesOwner(database, s, p)
  <2>1. receiver = p /\ filed = Acknowledged(EntryOrNew(database, p), p = s)
    BY <1>2, <1>3, <1>5 DEF Receiver, ReceiverItem
  <2>2. EntryOrNew(database, p) \in ParticipantItem
    BY EntryOrNewType DEF DatabaseInv
  <2>3. filed \in ParticipantItem /\ filed.alive = (p = s)
    BY <2>1, <2>2, ItemUpdates
  <2>4. /\ ItemWith(filed, e) \in ParticipantItem
        /\ ItemWith(filed, e).alive = (p = s)
        /\ ItemWith(filed, e).endpoints # {}
    BY <2>3, ItemUpdates
  <2>5. p # s => ~Alive(database, p)
    BY <1>5, EmplacedIsNew DEF Alive
  <2>6. /\ DatabaseInv(s, Put(database, p, ItemWith(filed, e)))
        /\ \A q : Alive(Put(database, p, ItemWith(filed, e)), q)
                     <=> IF q = p THEN ItemWith(filed, e).alive ELSE Alive(database, q)
    BY <2>4, PutItem
  <2> QED BY <1>4, <2>1, <2>4, <2>5, <2>6
<1>6. CASE ~EmplacesOwner(database, s, p)
  <2>1. /\ receiver = LowerBound(database, p)
        /\ NotBefore(database, p) # {}
        /\ filed = database[receiver]
    BY <1>2, <1>3, <1>6 DEF Receiver, ReceiverItem, EmplacesOwner
  <2>2. receiver \in DOMAIN database
    BY <2>1, LowerBoundInSet, ParticipantAssumption DEF DatabaseInv, IsDatabase
  <2>3. receiver \in Participant /\ filed \in ParticipantItem
    BY <2>1, <2>2 DEF DatabaseInv, IsDatabase
  <2>4. /\ ItemWith(filed, e) \in ParticipantItem
        /\ ItemWith(filed, e).alive = filed.alive
        /\ ItemWith(filed, e).endpoints # {}
    BY <2>3, ItemUpdates
  <2>5. ~filed.alive => receiver # s
    BY <2>1, <2>2 DEF DatabaseInv
  <2>6. /\ DatabaseInv(s, Put(database, receiver, ItemWith(filed, e)))
        /\ \A q : Alive(Put(database, receiver, ItemWith(filed, e)), q)
                     <=> IF q = receiver THEN ItemWith(filed, e).alive ELSE Alive(database, q)
    BY <2>3, <2>4, <2>5, PutItem
  <2>7. Alive(database, receiver) <=> filed.alive
    BY <2>1, <2>2 DEF Alive
  <2> QED BY <1>4, <2>4, <2>6, <2>7
<1> QED BY <1>5, <1>6

\* RemoveEndPoint keeps the invariant and nobody's life depends on it.
LEMMA WithoutEndpointProps ==
    ASSUME NEW s, NEW database, DatabaseInv(s, database),
           NEW p \in DOMAIN database, NEW e
    PROVE  /\ DatabaseInv(s, WithoutEndpoint(database, p, e))
           /\ \A q : Alive(WithoutEndpoint(database, p, e), q) <=> Alive(database, q)
<1> DEFINE item == ItemWithout(database[p], e)
<1>1. database[p] \in ParticipantItem /\ p \in Participant
  BY DEF DatabaseInv, IsDatabase
<1>2. item \in ParticipantItem /\ item.alive = database[p].alive
  BY <1>1, ItemUpdates
<1>3. CASE item.endpoints = {} /\ ~database[p].alive
  <2>1. WithoutEndpoint(database, p, e) = Erase(database, p)
    BY <1>3 DEF WithoutEndpoint
  <2>2. ~Alive(database, p)
    BY <1>3 DEF Alive
  <2> QED BY <2>1, <2>2, EraseItem
<1>4. CASE ~(item.endpoints = {} /\ ~database[p].alive)
  <2>1. WithoutEndpoint(database, p, e) = Put(database, p, item)
    BY <1>4 DEF WithoutEndpoint
  <2>2. Alive(database, p) <=> item.alive
    BY <1>2 DEF Alive
  <2>3. ~item.alive => item.endpoints # {} /\ p # s
    BY <1>2, <1>4 DEF DatabaseInv
  <2> HIDE DEF item
  <2> QED BY <1>1, <1>2, <2>1, <2>2, <2>3, PutItem
<1> QED BY <1>3, <1>4

\* UpdateSubLiveliness touches the counters of a reader and nothing else.
LEMMA WithLivelinessProps ==
    ASSUME NEW s, NEW database, DatabaseInv(s, database),
           NEW p \in DOMAIN database, NEW r \in Reader,
           r \in database[p].endpoints, NEW matched \in BOOLEAN
    PROVE  /\ DatabaseInv(s, WithLiveliness(database, p, r, matched))
           /\ \A q : Alive(WithLiveliness(database, p, r, matched), q)
                        <=> Alive(database, q)
<1> DEFINE item == [database[p] EXCEPT !.lively = IF matched THEN @ \cup {r} ELSE @ \ {r}]
<1>1. database[p] \in ParticipantItem /\ p \in Participant
  BY DEF DatabaseInv, IsDatabase
<1>2. /\ item \in ParticipantItem
      /\ item.alive = database[p].alive
      /\ item.endpoints = database[p].endpoints
  BY <1>1 DEF ParticipantItem
<1>3. WithLiveliness(database, p, r, matched) = Put(database, p, item)
  BY DEF WithLiveliness
<1>4. ~item.alive => item.endpoints # {} /\ p # s
  BY <1>2 DEF DatabaseInv
<1>5. Alive(database, p) <=> item.alive
  BY <1>2 DEF Alive
<1> HIDE DEF item
<1> QED BY <1>1, <1>2, <1>3, <1>4, <1>5, PutItem

-----------------------------------------------------------------------------
(* The image.                                                              *)

\* Replacing the database of one reporter leaves the others alone.
LEMMA PutImage ==
    ASSUME ImageInv, NEW s \in Reporter, NEW database, DatabaseInv(s, database),
           image' = Put(image, s, database)
    PROVE  /\ ImageInv'
           /\ DatabaseOf(s)' = database
           /\ \A t : t # s => DatabaseOf(t)' = DatabaseOf(t)
<1>1. /\ DOMAIN image' = DOMAIN image \cup {s}
      /\ image'[s] = database
      /\ \A t \in DOMAIN image : t # s => image'[t] = image[t]
  BY DEF Put
<1>2. DOMAIN image' \subseteq Reporter
  BY <1>1 DEF ImageInv
<1>3. \A t \in DOMAIN image' : DatabaseInv(t, image'[t])
  BY <1>1 DEF ImageInv
<1>4. ImageInv'
  BY <1>2, <1>3 DEF ImageInv, DatabaseInv, IsDatabase
<1>5. DatabaseOf(s)' = database
  BY <1>1 DEF DatabaseOf, EmptyDatabase, NewItem
<1>6. \A t : t # s => DatabaseOf(t)' = DatabaseOf(t)
  BY <1>1 DEF DatabaseOf, EmptyDatabase, NewItem
<1> QED BY <1>4, <1>5, <1>6

\* Removing a reporter leaves the others alone, and it without a database.
LEMMA EraseImage ==
    ASSUME ImageInv, NEW s, image' = Erase(image, s)
    PROVE  /\ ImageInv'
           /\ DatabaseOf(s)' = EmptyDatabase
           /\ \A t : t # s => DatabaseOf(t)' = DatabaseOf(t)
<1>1. /\ DOMAIN image' = DOMAIN image \ {s}
      /\ \A t \in DOMAIN image \ {s} : image'[t] = image[t]
  BY EraseProps
<1>2. ImageInv'
  BY <1>1 DEF ImageInv, DatabaseInv, IsDatabase
<1>3. DatabaseOf(s)' = EmptyDatabase
  BY <1>1 DEF DatabaseOf, EmptyDatabase, NewItem
<1>4. \A t : t # s => DatabaseOf(t)' = DatabaseOf(t)
  BY <1>1 DEF DatabaseOf, EmptyDatabase, NewItem
<1> QED BY <1>2, <1>3, <1>4

\* The invariant follows from who is alive in the database that was replaced.
LEMMA ReplacedDatabase ==
    ASSUME AnyOrderInv, KnownTypeOK', NEW s \in Reporter, NEW database,
           DatabaseInv(s, database), image' = Put(image, s, database),
           \A t \in Reporter, q \in Participant :
               t # s => (<<t, q>> \in knownParticipants' <=> <<t, q>> \in knownParticipants),
           \A q \in Participant :
               q # s => (Alive(database, q) <=> <<s, q>> \in knownParticipants')
    PROVE  AnyOrderInv'
<1>1. /\ ImageInv'
      /\ DatabaseOf(s)' = database
      /\ \A t : t # s => DatabaseOf(t)' = DatabaseOf(t)
  BY PutImage DEF AnyOrderInv
<1>2. ASSUME NEW t \in Reporter, NEW q \in Participant, t # q
      PROVE  Alive(DatabaseOf(t)', q) <=> <<t, q>> \in knownParticipants'
  BY <1>1, <1>2 DEF AnyOrderInv, AliveInv
<1>3. AliveInv'
  BY <1>2 DEF AliveInv, Alive
<1> QED BY <1>1, <1>3 DEF AnyOrderInv

-----------------------------------------------------------------------------
(* Reports in any order.                                                   *)

\* The initial state, an empty Snapshot, satisfies the invariant.
LEMMA InitAnyOrderInv == Init => AnyOrderInv
<1> SUFFICES ASSUME Init PROVE AnyOrderInv
  OBVIOUS
<1>1. DOMAIN image = {}
  BY DEF Init
<1>2. ImageInv /\ KnownTypeOK
  BY <1>1 DEF Init, ImageInv, KnownTypeOK
<1>3. \A s, p : ~Alive(DatabaseOf(s), p)
  BY <1>1, EmptyDatabaseInv DEF DatabaseOf, Alive
<1>4. AliveInv
  BY <1>3 DEF Init, AliveInv
<1> QED BY <1>2, <1>4 DEF AnyOrderInv

\* on_participant_discovery with a discovered participant (AddParticipant)
\* preserves the invariant.
LEMMA ParticipantDiscoveredStep ==
    ASSUME AnyOrderInv, NEW s \in Reporter, NEW p \in Participant, NEW server \in BOOLEAN,
           ParticipantDiscovered(s, p, server)
    PROVE  AnyOrderInv'
<1> DEFINE database == WithParticipant(DatabaseOf(s), p, server)
<1>1. /\ s # p
      /\ image' = Put(image, s, database)
      /\ knownParticipants' = knownParticipants \cup {<<s, p>>}
      /\ knownEndpoints' = knownEndpoints
  BY DEF ParticipantDiscovered, AddParticipant
<1>2. KnownTypeOK'
  BY <1>1 DEF AnyOrderInv, KnownTypeOK
<1>3. DatabaseInv(s, DatabaseOf(s))
  BY DatabaseOfInv DEF AnyOrderInv
<1>4. /\ DatabaseInv(s, database)
      /\ \A q : Alive(database, q) <=> q = p \/ Alive(DatabaseOf(s), q)
  BY <1>1, <1>3, WithParticipantProps
<1> HIDE DEF database
<1>5. ASSUME NEW q \in Participant, q # s
      PROVE  Alive(database, q) <=> <<s, q>> \in knownParticipants'
  BY <1>1, <1>4, <1>5 DEF AnyOrderInv, AliveInv
<1>6. \A t \in Reporter, q \in Participant :
          t # s => (<<t, q>> \in knownParticipants' <=> <<t, q>> \in knownParticipants)
  BY <1>1
<1> QED BY <1>1, <1>2, <1>4, <1>5, <1>6, ReplacedDatabase

\* on_participant_discovery with a removed or dropped participant
\* (RemoveParticipant) preserves the invariant.
LEMMA ParticipantLostStep ==
    ASSUME AnyOrderInv, NEW s \in Reporter, NEW p \in Participant,
           ParticipantLost(s, p)
    PROVE  AnyOrderInv'
<1> DEFINE database == WithoutParticipant(DatabaseOf(s), p)
<1>1. /\ s # p
      /\ image' = Put(image, s, database)
      /\ knownParticipants' = knownParticipants \ {<<s, p>>}
      /\ knownEndpoints' = knownEndpoints
  BY DEF ParticipantLost, RemoveParticipant
<1>2. KnownTypeOK'
  BY <1>1 DEF AnyOrderInv, KnownTypeOK
<1>3. DatabaseInv(s, DatabaseOf(s))
  BY DatabaseOfInv DEF AnyOrderInv
<1>4. /\ DatabaseInv(s, database)
      /\ \A q : Alive(database, q) <=> q # p /\ Alive(DatabaseOf(s), q)
  BY <1>1, <1>3, WithoutParticipantProps
<1> HIDE DEF database
<1>5. ASSUME NEW q \in Participant, q # s
      PROVE  Alive(database, q) <=> <<s, q>> \in knownParticipants'
  BY <1>1, <1>4, <1>5 DEF AnyOrderInv, AliveInv
<1>6. \A t \in Reporter, q \in Participant :
          t # s => (<<t, q>> \in knownParticipants' <=> <<t, q>> \in knownParticipants)
  BY <1>1
<1> QED BY <1>1, <1>2, <1>4, <1>5, <1>6, ReplacedDatabase

\* The report of a discovered endpoint (AddEndPoint) preserves the invariant,
\* wherever lower_bound files the endpoint.
LEMMA EndpointDiscoveredStep ==
    ASSUME AnyOrderInv, NEW s \in Reporter, NEW e \in Endpoint,
           EndpointDiscovered(s, e)
    PROVE  AnyOrderInv'
<1> DEFINE database == WithEndpoint(DatabaseOf(s), s, e)
<1>1. /\ image' = Put(image, s, database)
      /\ knownParticipants' = knownParticipants
      /\ knownEndpoints' = knownEndpoints \cup {<<s, e>>}
  BY DEF EndpointDiscovered, AddEndPoint
<1>2. KnownTypeOK'
  BY <1>1 DEF AnyOrderInv, KnownTypeOK
<1>3. DatabaseInv(s, DatabaseOf(s))
  BY DatabaseOfInv DEF AnyOrderInv
<1>4. /\ DatabaseInv(s, database)
      /\ \A q : q # s => (Alive(database, q) <=> Alive(DatabaseOf(s), q))
  BY <1>3, WithEndpointProps, ReporterAssumption
<1> HIDE DEF database
<1>5. ASSUME NEW q \in Participant, q # s
      PROVE  Alive(database, q) <=> <<s, q>> \in knownParticipants'
  BY <1>1, <1>4, <1>5 DEF AnyOrderInv, AliveInv
<1> QED BY <1>1, <1>2, <1>4, <1>5, ReplacedDatabase

\* An operation that leaves the image and the known participants alone.
LEMMA SameImage ==
    ASSUME AnyOrderInv, KnownTypeOK', image' = image,
           knownParticipants' = knownParticipants
    PROVE  AnyOrderInv'
BY DEF AnyOrderInv, ImageInv, AliveInv, DatabaseOf, DatabaseInv, IsDatabase, Alive

\* The report of a removed endpoint (RemoveEndPoint) preserves the invariant.
LEMMA EndpointLostStep ==
    ASSUME AnyOrderInv, NEW s \in Reporter, NEW e \in Endpoint, EndpointLost(s, e)
    PROVE  AnyOrderInv'
<1>1. /\ knownParticipants' = knownParticipants
      /\ knownEndpoints' = knownEndpoints \ {<<s, e>>}
  BY DEF EndpointLost
<1>2. KnownTypeOK'
  BY <1>1 DEF AnyOrderInv, KnownTypeOK
<1>3. CASE ~Holds(s, Owner[e], e)
  <2>1. image' = image
    BY <1>3 DEF EndpointLost, RemoveEndPoint
  <2> QED BY <1>1, <1>2, <2>1, SameImage
<1>4. CASE Holds(s, Owner[e], e)
  <2> DEFINE database == WithoutEndpoint(DatabaseOf(s), Owner[e], e)
  <2>1. DatabaseOf(s) = image[s] /\ Owner[e] \in DOMAIN DatabaseOf(s)
    BY <1>4 DEF Holds, DatabaseOf
  <2>2. image' = Put(image, s, database)
    BY <1>4, <2>1 DEF EndpointLost, RemoveEndPoint
  <2>3. DatabaseInv(s, DatabaseOf(s))
    BY DatabaseOfInv DEF AnyOrderInv
  <2>4. /\ DatabaseInv(s, database)
        /\ \A q : Alive(database, q) <=> Alive(DatabaseOf(s), q)
    BY <2>1, <2>3, WithoutEndpointProps
  <2> HIDE DEF database
  <2>5. ASSUME NEW q \in Participant, q # s
        PROVE  Alive(database, q) <=> <<s, q>> \in knownParticipants'
    BY <1>1, <2>4, <2>5 DEF AnyOrderInv, AliveInv
  <2> QED BY <1>1, <1>2, <2>2, <2>4, <2>5, ReplacedDatabase
<1> QED BY <1>3, <1>4

\* on_liveliness_changed (UpdateSubLiveliness) preserves the invariant.
LEMMA LivelinessChangedStep ==
    ASSUME AnyOrderInv, NEW r \in Reader, NEW matched \in BOOLEAN,
           Owner[r] \in Reporter, LivelinessChanged(r, matched)
    PROVE  AnyOrderInv'
<1> DEFINE s == Owner[r]
<1>1. /\ knownParticipants' = knownParticipants
      /\ knownEndpoints' = knownEndpoints
  BY DEF LivelinessChanged
<1>2. KnownTypeOK'
  BY <1>1 DEF AnyOrderInv, KnownTypeOK
<1>3. CASE ~Holds(s, s, r)
  <2>1. image' = image
    BY <1>3 DEF LivelinessChanged, UpdateSubLiveliness
  <2> QED BY <1>1, <1>2, <2>1, SameImage
<1>4. CASE Holds(s, s, r)
  <2> DEFINE database == WithLiveliness(DatabaseOf(s), s, r, matched)
  <2>1. /\ DatabaseOf(s) = image[s]
        /\ s \in DOMAIN DatabaseOf(s)
        /\ r \in DatabaseOf(s)[s].endpoints
    BY <1>4 DEF Holds, DatabaseOf
  <2>2. image' = Put(image, s, database)
    BY <1>4, <2>1 DEF LivelinessChanged, UpdateSubLiveliness
  <2>3. DatabaseInv(s, DatabaseOf(s))
    BY DatabaseOfInv DEF AnyOrderInv
  <2>4. /\ DatabaseInv(s, database)
        /\ \A q : Alive(database, q) <=> Alive(DatabaseOf(s), q)
    BY <2>1, <2>3, WithLivelinessProps
  <2> HIDE DEF database
  <2>5. ASSUME NEW q \in Participant, q # s
        PROVE  Alive(database, q) <=> <<s, q>> \in knownParticipants'
    BY <1>1, <2>4, <2>5 DEF AnyOrderInv, AliveInv
  <2> QED BY <1>1, <1>2, <2>2, <2>4, <2>5, ReplacedDatabase
<1> QED BY <1>3, <1>4

\* removeParticipant, which drops the whole database of a reporter, preserves
\* the invariant.
LEMMA ReporterRemovedStep ==
    ASSUME AnyOrderInv, NEW s \in Reporter, ReporterRemoved(s)
    PROVE  AnyOrderInv'
<1>1. /\ image' = Erase(image, s)
      /\ knownParticipants' = {known \in knownParticipants : known[1] # s}
      /\ knownEndpoints' = {known \in knownEndpoints : known[1] # s}
  BY DEF ReporterRemoved, RemoveReporter
<1>2. KnownTypeOK'
  BY <1>1 DEF AnyOrderInv, KnownTypeOK
<1>3. /\ ImageInv'
      /\ DatabaseOf(s)' = EmptyDatabase
      /\ \A t : t # s => DatabaseOf(t)' = DatabaseOf(t)
  BY <1>1, EraseImage DEF AnyOrderInv
<1>4. ASSUME NEW t \in Reporter, NEW q \in Participant, t # q
      PROVE  Alive(DatabaseOf(t)', q) <=> <<t, q>> \in knownParticipants'
  <2>1. CASE t = s
    BY <1>1, <1>3, <2>1, EmptyDatabaseInv DEF Alive
  <2>2. CASE t # s
    BY <1>1, <1>3, <1>4, <2>2 DEF AnyOrderInv, AliveInv
  <2> QED BY <2>1, <2>2
<1>5. AliveInv'
  BY <1>4 DEF AliveInv, Alive
<1> QED BY <1>2, <1>3, <1>5 DEF AnyOrderInv

\* Every report but the discovery of an endpoint preserves the invariant.
LEMMA OtherReportStep ==
    ASSUME AnyOrderInv, NEW s \in Reporter, OtherReport(s)
    PROVE  AnyOrderInv'
<1>1. ASSUME NEW p \in Participant, NEW server \in BOOLEAN, ParticipantDiscovered(s, p, server)
      PROVE  AnyOrderInv'
  BY <1>1, ParticipantDiscoveredStep
<1>2. ASSUME NEW p \in Participant, ParticipantLost(s, p)
      PROVE  AnyOrderInv'
  BY <1>2, ParticipantLostStep
<1>3. ASSUME NEW e \in Endpoint, EndpointLost(s, e)
      PROVE  AnyOrderInv'
  BY <1>3, EndpointLostStep
<1>4. ASSUME NEW r \in Reader, NEW matched \in BOOLEAN, Owner[r] = s, LivelinessChanged(r, matched)
      PROVE  AnyOrderInv'
  BY <1>4, LivelinessChangedStep
<1>5. CASE ReporterRemoved(s)
  BY <1>5, ReporterRemovedStep
<1> QED BY <1>1, <1>2, <1>3, <1>4, <1>5 DEF OtherReport, ParticipantReport

\* Every step of the database, the reports being in any order, preserves the
\* invariant.
LEMMA AnyOrderStep == AnyOrderInv /\ [AnyOrderNext]_vars => AnyOrderInv'
<1> SUFFICES ASSUME AnyOrderInv, [AnyOrderNext]_vars PROVE AnyOrderInv'
  OBVIOUS
<1>1. ASSUME NEW s \in Reporter, OtherReport(s)
      PROVE  AnyOrderInv'
  BY <1>1, OtherReportStep
<1>2. ASSUME NEW s \in Reporter, NEW e \in Endpoint, EndpointDiscovered(s, e)
      PROVE  AnyOrderInv'
  BY <1>2, EndpointDiscoveredStep
<1>3. CASE UNCHANGED vars
  <2>1. KnownTypeOK'
    BY <1>3 DEF vars, AnyOrderInv, KnownTypeOK
  <2> QED BY <1>3, <2>1, SameImage DEF vars
<1> QED BY <1>1, <1>2, <1>3 DEF AnyOrderNext

\* The invariant every other result about reports in any order follows from.
THEOREM AnyOrderInvariant == AnyOrderSpec => []AnyOrderInv
<1>1. Init => AnyOrderInv
  BY InitAnyOrderInv
<1>2. AnyOrderInv /\ [AnyOrderNext]_vars => AnyOrderInv'
  BY AnyOrderStep
<1> QED BY <1>1, <1>2, PTL DEF AnyOrderSpec

\* Every reachable image is made of well-formed databases of reporters,
\* whatever the order in which the listeners' reports reach the database.
THEOREM TypeCorrectness == AnyOrderSpec => []TypeOK
<1>1. AnyOrderInv => TypeOK
  BY DEF AnyOrderInv, ImageInv, DatabaseInv, KnownTypeOK, TypeOK
<1> QED BY <1>1, AnyOrderInvariant, PTL

\* RemoveParticipant, RemoveEndPoint and AddEndPoint never leave a zombie that
\* has no endpoint to wait for, for any participants and any order of reports.
THEOREM NoEmptyZombie == AnyOrderSpec => []ZombiesHoldEndpoints
<1>1. AnyOrderInv => ZombiesHoldEndpoints
  BY DEF AnyOrderInv, ImageInv, DatabaseInv, ZombiesHoldEndpoints
<1> QED BY <1>1, AnyOrderInvariant, PTL

\* A participant is listed alive by exactly the reporters that reported it and
\* did not report its removal, in whatever order the reports came.
THEOREM LivingAreTheReported == AnyOrderSpec => []AliveExactlyWhenReported
<1>1. AnyOrderInv => AliveExactlyWhenReported
  <2> SUFFICES ASSUME AnyOrderInv, NEW s \in Reporter, NEW p \in Participant, s # p
               PROVE  (HasEntry(s, p) /\ image[s][p].alive) <=> <<s, p>> \in knownParticipants
    BY DEF AliveExactlyWhenReported
  <2>1. Alive(DatabaseOf(s), p) <=> <<s, p>> \in knownParticipants
    BY DEF AnyOrderInv, AliveInv
  <2>2. Alive(DatabaseOf(s), p) <=> HasEntry(s, p) /\ image[s][p].alive
    BY EmptyDatabaseInv DEF Alive, DatabaseOf, HasEntry
  <2> QED BY <2>1, <2>2
<1> QED BY <1>1, AnyOrderInvariant, PTL

\* A reporter's entry for itself never becomes a zombie.
THEOREM OwnEntryStaysAlive == AnyOrderSpec => []OwnEntryIsAlive
<1>1. AnyOrderInv => OwnEntryIsAlive
  BY DEF AnyOrderInv, ImageInv, DatabaseInv, OwnEntryIsAlive
<1> QED BY <1>1, AnyOrderInvariant, PTL

-----------------------------------------------------------------------------
(* Reports in order: endpoints are filed under their owners.               *)

Lists(database, e) ==
    Owner[e] \in DOMAIN database /\ e \in database[Owner[e]].endpoints

\* Every endpoint of a database is under its owner.
Filed(database) ==
    \A p \in DOMAIN database : \A e \in database[p].endpoints : Owner[e] = p

EndpointInv == /\ \A s \in DOMAIN image : Filed(image[s])
               /\ \A s \in Reporter, e \in Endpoint :
                    Lists(DatabaseOf(s), e) <=> <<s, e>> \in knownEndpoints

InOrderInv == AnyOrderInv /\ EndpointInv

\* Putting an item whose endpoints belong to its participant keeps a database
\* filed, and decides for the endpoints of that participant.
LEMMA PutEndpoints ==
    ASSUME NEW database, Filed(database), NEW p, NEW item,
           \A e \in item.endpoints : Owner[e] = p
    PROVE  /\ Filed(Put(database, p, item))
           /\ \A e : Lists(Put(database, p, item), e)
                        <=> IF Owner[e] = p THEN e \in item.endpoints ELSE Lists(database, e)
<1> DEFINE new == Put(database, p, item)
<1>1. /\ DOMAIN new = DOMAIN database \cup {p}
      /\ new[p] = item
      /\ \A k \in DOMAIN database : k # p => new[k] = database[k]
  BY DEF Put
<1> HIDE DEF new
<1>2. Filed(new)
  BY <1>1 DEF Filed
<1>3. ASSUME NEW e
      PROVE  Lists(new, e) <=> IF Owner[e] = p THEN e \in item.endpoints ELSE Lists(database, e)
  BY <1>1 DEF Lists
<1> QED BY <1>2, <1>3 DEF new

\* Erasing an entry without endpoints loses no endpoint.
LEMMA EraseEndpoints ==
    ASSUME NEW database, Filed(database), NEW p
    PROVE  /\ Filed(Erase(database, p))
           /\ \A e : Lists(Erase(database, p), e) <=> Owner[e] # p /\ Lists(database, e)
<1> DEFINE new == Erase(database, p)
<1>1. /\ DOMAIN new = DOMAIN database \ {p}
      /\ \A k \in DOMAIN database \ {p} : new[k] = database[k]
  BY EraseProps
<1> HIDE DEF new
<1>2. Filed(new)
  BY <1>1 DEF Filed
<1>3. \A e : Lists(new, e) <=> Owner[e] # p /\ Lists(database, e)
  BY <1>1 DEF Lists
<1> QED BY <1>2, <1>3 DEF new

\* AddParticipant loses no endpoint and invents none.
LEMMA WithParticipantEndpoints ==
    ASSUME NEW database, IsDatabase(database), Filed(database), NEW p, NEW server
    PROVE  /\ Filed(WithParticipant(database, p, server))
           /\ \A e : Lists(WithParticipant(database, p, server), e) <=> Lists(database, e)
<1>1. CASE p \notin DOMAIN database
  <2>1. NewItem(server).endpoints = {}
    BY DEF NewItem
  <2>2. \A e : Owner[e] = p => ~Lists(database, e)
    BY <1>1 DEF Lists
  <2>3. WithParticipant(database, p, server) = Put(database, p, NewItem(server))
    BY <1>1 DEF WithParticipant
  <2> QED BY <2>1, <2>2, <2>3, PutEndpoints
<1>2. CASE p \in DOMAIN database /\ database[p].alive
  BY <1>2 DEF WithParticipant
<1>3. CASE p \in DOMAIN database /\ ~database[p].alive
  <2> DEFINE item == [database[p] EXCEPT !.alive = TRUE, !.server = server]
  <2>1. item.endpoints = database[p].endpoints
    BY <1>3 DEF IsDatabase, ParticipantItem
  <2>2. WithParticipant(database, p, server) = Put(database, p, item)
    BY <1>3 DEF WithParticipant
  <2> HIDE DEF item
  <2>3. /\ \A e \in item.endpoints : Owner[e] = p
        /\ \A e : Owner[e] = p => (e \in item.endpoints <=> Lists(database, e))
    BY <1>3, <2>1 DEF Filed, Lists
  <2> QED BY <2>2, <2>3, PutEndpoints
<1> QED BY <1>1, <1>2, <1>3

\* RemoveParticipant loses no endpoint: that is what zombies are for.
LEMMA WithoutParticipantEndpoints ==
    ASSUME NEW database, IsDatabase(database), Filed(database), NEW p
    PROVE  /\ Filed(WithoutParticipant(database, p))
           /\ \A e : Lists(WithoutParticipant(database, p), e) <=> Lists(database, e)
<1>1. CASE p \notin DOMAIN database
  BY <1>1 DEF WithoutParticipant
<1>2. CASE p \in DOMAIN database /\ database[p].endpoints = {}
  <2>1. WithoutParticipant(database, p) = Erase(database, p)
    BY <1>2 DEF WithoutParticipant
  <2>2. \A e : Owner[e] = p => ~Lists(database, e)
    BY <1>2 DEF Lists
  <2> QED BY <2>1, <2>2, EraseEndpoints
<1>3. CASE p \in DOMAIN database /\ database[p].endpoints # {}
  <2> DEFINE item == Acknowledged(database[p], FALSE)
  <2>1. item.endpoints = database[p].endpoints
    BY <1>3, ItemUpdates DEF IsDatabase
  <2>2. WithoutParticipant(database, p) = Put(database, p, item)
    BY <1>3 DEF WithoutParticipant
  <2> HIDE DEF item
  <2>3. /\ \A e \in item.endpoints : Owner[e] = p
        /\ \A e : Owner[e] = p => (e \in item.endpoints <=> Lists(database, e))
    BY <1>3, <2>1 DEF Filed, Lists
  <2> QED BY <2>2, <2>3, PutEndpoints
<1> QED BY <1>1, <1>2, <1>3

\* AddEndPoint files an endpoint under its owner if the owner is the reporter or
\* is listed: then lower_bound points at the owner's entry, or it is emplaced.
LEMMA WithEndpointEndpoints ==
    ASSUME NEW s, NEW database, IsDatabase(database), Filed(database),
           NEW e \in Endpoint, Owner[e] = s \/ Owner[e] \in DOMAIN database
    PROVE  /\ Filed(WithEndpoint(database, s, e))
           /\ \A x : Lists(WithEndpoint(database, s, e), x)
                        <=> x = e \/ Lists(database, x)
<1>1. PICK p \in Participant : p = Owner[e]
  BY EndpointAssumption
<1>2. PICK filed : filed = ReceiverItem(database, s, p)
  OBVIOUS
<1>3. Receiver(database, s, p) = p
  <2>1. CASE EmplacesOwner(database, s, p)
    BY <2>1 DEF Receiver
  <2>2. CASE ~EmplacesOwner(database, s, p)
    <3>1. p \in DOMAIN database
      BY <1>1, <2>2 DEF EmplacesOwner
    <3>2. LowerBound(database, p) = p
      BY <3>1, LowerBoundOfMember, ParticipantAssumption DEF IsDatabase
    <3> QED BY <2>2, <3>2 DEF Receiver
  <2> QED BY <2>1, <2>2
<1>4. WithEndpoint(database, s, e) = Put(database, p, ItemWith(filed, e))
  BY <1>1, <1>2, <1>3 DEF WithEndpoint
<1>5. /\ filed \in ParticipantItem
      /\ filed.endpoints = EntryOrNew(database, p).endpoints
  <2>1. CASE EmplacesOwner(database, s, p)
    BY <1>2, <2>1, EntryOrNewType, ItemUpdates DEF ReceiverItem
  <2>2. CASE ~EmplacesOwner(database, s, p)
    <3>1. p \in DOMAIN database
      BY <1>1, <2>2 DEF EmplacesOwner
    <3>2. LowerBound(database, p) = p
      BY <3>1, LowerBoundOfMember, ParticipantAssumption DEF IsDatabase
    <3> QED BY <1>2, <2>2, <3>1, <3>2 DEF ReceiverItem, EntryOrNew, IsDatabase
  <2> QED BY <2>1, <2>2
<1>6. \A x : x \in EntryOrNew(database, p).endpoints
                <=> Owner[x] = p /\ Lists(database, x)
  BY DEF EntryOrNew, NewItem, Filed, Lists
<1>7. \A x : x \in ItemWith(filed, e).endpoints
                <=> x = e \/ (Owner[x] = p /\ Lists(database, x))
  BY <1>5, <1>6, ItemUpdates
<1>8. \A x \in ItemWith(filed, e).endpoints : Owner[x] = p
  BY <1>1, <1>7
<1>9. /\ Filed(Put(database, p, ItemWith(filed, e)))
      /\ \A x : Lists(Put(database, p, ItemWith(filed, e)), x)
                   <=> IF Owner[x] = p THEN x \in ItemWith(filed, e).endpoints
                       ELSE Lists(database, x)
  BY <1>8, PutEndpoints
<1> QED BY <1>1, <1>4, <1>7, <1>9

\* RemoveEndPoint loses the endpoint it removes and no other.
LEMMA WithoutEndpointEndpoints ==
    ASSUME NEW database, IsDatabase(database), Filed(database),
           NEW e, Lists(database, e)
    PROVE  /\ Filed(WithoutEndpoint(database, Owner[e], e))
           /\ \A x : Lists(WithoutEndpoint(database, Owner[e], e), x)
                        <=> x # e /\ Lists(database, x)
<1>1. PICK p : p = Owner[e]
  OBVIOUS
<1>2. p \in DOMAIN database /\ database[p] \in ParticipantItem
  BY <1>1 DEF Lists, IsDatabase
<1>3. PICK item : item = ItemWithout(database[p], e)
  OBVIOUS
<1>4. item.endpoints = database[p].endpoints \ {e}
  BY <1>2, <1>3, ItemUpdates
<1>5. \A x : x \in item.endpoints <=> x # e /\ Owner[x] = p /\ Lists(database, x)
  BY <1>2, <1>4 DEF Filed, Lists
<1>6. CASE item.endpoints = {} /\ ~database[p].alive
  <2>1. WithoutEndpoint(database, Owner[e], e) = Erase(database, p)
    BY <1>1, <1>3, <1>6 DEF WithoutEndpoint
  <2> QED BY <1>1, <1>5, <1>6, <2>1, EraseEndpoints
<1>7. CASE ~(item.endpoints = {} /\ ~database[p].alive)
  <2>1. WithoutEndpoint(database, Owner[e], e) = Put(database, p, item)
    BY <1>1, <1>3, <1>7 DEF WithoutEndpoint
  <2>2. \A x \in item.endpoints : Owner[x] = p
    BY <1>5
  <2>3. /\ Filed(Put(database, p, item))
        /\ \A x : Lists(Put(database, p, item), x)
                     <=> IF Owner[x] = p THEN x \in item.endpoints ELSE Lists(database, x)
    BY <2>2, PutEndpoints
  <2> QED BY <1>1, <1>5, <2>1, <2>3
<1> QED BY <1>6, <1>7

\* UpdateSubLiveliness moves no endpoint.
LEMMA WithLivelinessEndpoints ==
    ASSUME NEW database, IsDatabase(database), Filed(database),
           NEW p \in DOMAIN database, NEW r, NEW matched
    PROVE  /\ Filed(WithLiveliness(database, p, r, matched))
           /\ \A x : Lists(WithLiveliness(database, p, r, matched), x)
                        <=> Lists(database, x)
<1> DEFINE item == [database[p] EXCEPT !.lively = IF matched THEN @ \cup {r} ELSE @ \ {r}]
<1>1. item.endpoints = database[p].endpoints
  BY DEF IsDatabase, ParticipantItem
<1>2. WithLiveliness(database, p, r, matched) = Put(database, p, item)
  BY DEF WithLiveliness
<1> HIDE DEF item
<1>3. /\ \A e \in item.endpoints : Owner[e] = p
      /\ \A e : Owner[e] = p => (e \in item.endpoints <=> Lists(database, e))
  BY <1>1 DEF Filed, Lists
<1> QED BY <1>2, <1>3, PutEndpoints

\* EndpointInv follows from the endpoints of the database that was replaced.
LEMMA ReplacedEndpoints ==
    ASSUME InOrderInv, NEW s \in Reporter, NEW database, Filed(database),
           image' = Put(image, s, database),
           \A t \in Reporter, e \in Endpoint :
               t # s => (<<t, e>> \in knownEndpoints' <=> <<t, e>> \in knownEndpoints),
           \A e \in Endpoint : Lists(database, e) <=> <<s, e>> \in knownEndpoints'
    PROVE  EndpointInv'
<1>1. /\ DOMAIN image' = DOMAIN image \cup {s}
      /\ image'[s] = database
      /\ \A t \in DOMAIN image : t # s => image'[t] = image[t]
  BY DEF Put
<1>2. \A t \in DOMAIN image' : Filed(image'[t])
  BY <1>1 DEF InOrderInv, EndpointInv
<1>3. /\ DatabaseOf(s)' = database
      /\ \A t : t # s => DatabaseOf(t)' = DatabaseOf(t)
  BY <1>1 DEF DatabaseOf, EmptyDatabase, NewItem
<1>4. ASSUME NEW t \in Reporter, NEW e \in Endpoint
      PROVE  Lists(DatabaseOf(t)', e) <=> <<t, e>> \in knownEndpoints'
  BY <1>3 DEF InOrderInv, EndpointInv
<1> QED BY <1>2, <1>4 DEF EndpointInv, Filed, Lists

\* The database of a reporter is filed, created or not.
LEMMA DatabaseOfFiled ==
    ASSUME InOrderInv, NEW s
    PROVE  IsDatabase(DatabaseOf(s)) /\ Filed(DatabaseOf(s))
<1>1. IsDatabase(DatabaseOf(s))
  BY DatabaseOfInv DEF InOrderInv, AnyOrderInv, DatabaseInv
<1>2. Filed(DatabaseOf(s))
  BY EmptyDatabaseInv DEF InOrderInv, EndpointInv, DatabaseOf, Filed
<1> QED BY <1>1, <1>2

\* The discovery and the removal of a participant keep the listed endpoints
\* exactly those reported: RemoveParticipant keeps them in a zombie.
LEMMA InOrderParticipantSteps ==
    ASSUME InOrderInv, NEW s \in Reporter, ParticipantReport(s)
    PROVE  EndpointInv'
<1>1. ASSUME NEW p \in Participant, NEW server \in BOOLEAN, ParticipantDiscovered(s, p, server)
      PROVE  EndpointInv'
  <2>1. /\ image' = Put(image, s, WithParticipant(DatabaseOf(s), p, server))
        /\ knownEndpoints' = knownEndpoints
    BY <1>1 DEF ParticipantDiscovered, AddParticipant
  <2>2. /\ Filed(WithParticipant(DatabaseOf(s), p, server))
        /\ \A e : Lists(WithParticipant(DatabaseOf(s), p, server), e) <=> Lists(DatabaseOf(s), e)
    BY DatabaseOfFiled, WithParticipantEndpoints
  <2>3. \A e \in Endpoint : Lists(DatabaseOf(s), e) <=> <<s, e>> \in knownEndpoints
    BY DEF InOrderInv, EndpointInv
  <2> QED BY <2>1, <2>2, <2>3, ReplacedEndpoints
<1>2. ASSUME NEW p \in Participant, ParticipantLost(s, p)
      PROVE  EndpointInv'
  <2>1. /\ image' = Put(image, s, WithoutParticipant(DatabaseOf(s), p))
        /\ knownEndpoints' = knownEndpoints
    BY <1>2 DEF ParticipantLost, RemoveParticipant
  <2>2. /\ Filed(WithoutParticipant(DatabaseOf(s), p))
        /\ \A e : Lists(WithoutParticipant(DatabaseOf(s), p), e) <=> Lists(DatabaseOf(s), e)
    BY DatabaseOfFiled, WithoutParticipantEndpoints
  <2>3. \A e \in Endpoint : Lists(DatabaseOf(s), e) <=> <<s, e>> \in knownEndpoints
    BY DEF InOrderInv, EndpointInv
  <2> QED BY <2>1, <2>2, <2>3, ReplacedEndpoints
<1> QED BY <1>1, <1>2 DEF ParticipantReport

\* The discovery of an introduced endpoint (AddEndPoint) lists it under its
\* owner and loses no other.
LEMMA InOrderEndpointDiscovered ==
    ASSUME InOrderInv, NEW s \in Reporter, NEW e \in Endpoint,
           Introduced(s, e), EndpointDiscovered(s, e)
    PROVE  EndpointInv'
<1>1. /\ image' = Put(image, s, WithEndpoint(DatabaseOf(s), s, e))
      /\ knownEndpoints' = knownEndpoints \cup {<<s, e>>}
  BY DEF EndpointDiscovered, AddEndPoint
<1>2. Owner[e] = s \/ Owner[e] \in DOMAIN DatabaseOf(s)
  <2>1. CASE Owner[e] = s
    BY <2>1
  <2>2. CASE Owner[e] # s /\ <<s, Owner[e]>> \in knownParticipants
    <3>1. Owner[e] \in Participant
      BY EndpointAssumption
    <3>2. Alive(DatabaseOf(s), Owner[e])
      BY <2>2, <3>1 DEF InOrderInv, AnyOrderInv, AliveInv
    <3> QED BY <3>2 DEF Alive
  <2> QED BY <2>1, <2>2 DEF Introduced
<1>3. /\ Filed(WithEndpoint(DatabaseOf(s), s, e))
      /\ \A x : Lists(WithEndpoint(DatabaseOf(s), s, e), x)
                   <=> x = e \/ Lists(DatabaseOf(s), x)
  BY <1>2, DatabaseOfFiled, WithEndpointEndpoints
<1>4. \A x \in Endpoint : Lists(DatabaseOf(s), x) <=> <<s, x>> \in knownEndpoints
  BY DEF InOrderInv, EndpointInv
<1>5. /\ \A x \in Endpoint : Lists(WithEndpoint(DatabaseOf(s), s, e), x)
                                <=> <<s, x>> \in knownEndpoints'
      /\ \A t \in Reporter, x \in Endpoint :
             t # s => (<<t, x>> \in knownEndpoints' <=> <<t, x>> \in knownEndpoints)
  BY <1>1, <1>3, <1>4
<1> QED BY <1>1, <1>3, <1>5, ReplacedEndpoints

\* An operation that leaves the image and the known endpoints alone.
LEMMA SameEndpoints ==
    ASSUME InOrderInv, image' = image, knownEndpoints' = knownEndpoints
    PROVE  EndpointInv'
BY DEF InOrderInv, EndpointInv, DatabaseOf, Filed, Lists

\* The removal of an endpoint (RemoveEndPoint) delists it and no other.
LEMMA InOrderEndpointLost ==
    ASSUME InOrderInv, NEW s \in Reporter, NEW e \in Endpoint, EndpointLost(s, e)
    PROVE  EndpointInv'
<1>1. knownEndpoints' = knownEndpoints \ {<<s, e>>}
  BY DEF EndpointLost
<1>2. Holds(s, Owner[e], e) <=> Lists(DatabaseOf(s), e)
  BY EmptyDatabaseInv DEF Holds, Lists, DatabaseOf
<1>3. \A x \in Endpoint : Lists(DatabaseOf(s), x) <=> <<s, x>> \in knownEndpoints
  BY DEF InOrderInv, EndpointInv
<1>4. CASE ~Holds(s, Owner[e], e)
  <2>1. image' = image
    BY <1>4 DEF EndpointLost, RemoveEndPoint
  <2>2. knownEndpoints' = knownEndpoints
    BY <1>1, <1>2, <1>3, <1>4
  <2> QED BY <2>1, <2>2, SameEndpoints
<1>5. CASE Holds(s, Owner[e], e)
  <2>1. image' = Put(image, s, WithoutEndpoint(DatabaseOf(s), Owner[e], e))
    BY <1>5 DEF EndpointLost, RemoveEndPoint, Holds, DatabaseOf
  <2>2. /\ Filed(WithoutEndpoint(DatabaseOf(s), Owner[e], e))
        /\ \A x : Lists(WithoutEndpoint(DatabaseOf(s), Owner[e], e), x)
                     <=> x # e /\ Lists(DatabaseOf(s), x)
    BY <1>2, <1>5, DatabaseOfFiled, WithoutEndpointEndpoints
  <2>3. /\ \A x \in Endpoint : Lists(WithoutEndpoint(DatabaseOf(s), Owner[e], e), x)
                                  <=> <<s, x>> \in knownEndpoints'
        /\ \A t \in Reporter, x \in Endpoint :
               t # s => (<<t, x>> \in knownEndpoints' <=> <<t, x>> \in knownEndpoints)
    BY <1>1, <1>3, <2>2
  <2> QED BY <2>1, <2>2, <2>3, ReplacedEndpoints
<1> QED BY <1>4, <1>5

\* A change of liveliness (UpdateSubLiveliness) moves no endpoint.
LEMMA InOrderLivelinessChanged ==
    ASSUME InOrderInv, NEW r \in Reader, NEW matched \in BOOLEAN,
           Owner[r] \in Reporter, LivelinessChanged(r, matched)
    PROVE  EndpointInv'
<1>1. PICK s \in Reporter : s = Owner[r]
  OBVIOUS
<1>2. knownEndpoints' = knownEndpoints
  BY DEF LivelinessChanged
<1>3. CASE ~Holds(s, s, r)
  <2>1. image' = image
    BY <1>1, <1>3 DEF LivelinessChanged, UpdateSubLiveliness
  <2> QED BY <1>2, <2>1, SameEndpoints
<1>4. CASE Holds(s, s, r)
  <2>1. /\ image' = Put(image, s, WithLiveliness(DatabaseOf(s), s, r, matched))
        /\ s \in DOMAIN DatabaseOf(s)
    BY <1>1, <1>4 DEF LivelinessChanged, UpdateSubLiveliness, Holds, DatabaseOf
  <2>2. /\ Filed(WithLiveliness(DatabaseOf(s), s, r, matched))
        /\ \A x : Lists(WithLiveliness(DatabaseOf(s), s, r, matched), x)
                     <=> Lists(DatabaseOf(s), x)
    BY <2>1, DatabaseOfFiled, WithLivelinessEndpoints
  <2>3. \A e \in Endpoint : Lists(DatabaseOf(s), e) <=> <<s, e>> \in knownEndpoints
    BY DEF InOrderInv, EndpointInv
  <2> QED BY <1>2, <2>1, <2>2, <2>3, ReplacedEndpoints
<1> QED BY <1>3, <1>4

\* removeParticipant drops exactly the endpoints the reporter listed.
LEMMA InOrderReporterRemoved ==
    ASSUME InOrderInv, NEW s \in Reporter, ReporterRemoved(s)
    PROVE  EndpointInv'
<1>1. /\ image' = Erase(image, s)
      /\ knownEndpoints' = {known \in knownEndpoints : known[1] # s}
  BY DEF ReporterRemoved, RemoveReporter
<1>2. /\ DOMAIN image' = DOMAIN image \ {s}
      /\ \A t \in DOMAIN image' : image'[t] = image[t]
  BY <1>1, EraseProps
<1>3. \A t \in DOMAIN image' : Filed(image'[t])
  BY <1>2 DEF InOrderInv, EndpointInv
<1>4. /\ DatabaseOf(s)' = EmptyDatabase
      /\ \A t : t # s => DatabaseOf(t)' = DatabaseOf(t)
  BY <1>1, EraseImage DEF InOrderInv, AnyOrderInv
<1>5. ASSUME NEW t \in Reporter, NEW e \in Endpoint
      PROVE  Lists(DatabaseOf(t)', e) <=> <<t, e>> \in knownEndpoints'
  <2>1. CASE t = s
    BY <1>1, <1>4, <2>1, EmptyDatabaseInv DEF Lists
  <2>2. CASE t # s
    BY <1>1, <1>4, <2>2 DEF InOrderInv, EndpointInv
  <2> QED BY <2>1, <2>2
<1> QED BY <1>3, <1>5 DEF EndpointInv, Filed, Lists

\* Every step of the database, endpoints being introduced by their
\* participant, keeps the listed endpoints exactly those reported.
LEMMA InOrderStep == InOrderInv /\ [InOrderNext]_vars => EndpointInv'
<1> SUFFICES ASSUME InOrderInv, [InOrderNext]_vars PROVE EndpointInv'
  OBVIOUS
<1>1. ASSUME NEW s \in Reporter, ParticipantReport(s)
      PROVE  EndpointInv'
  BY <1>1, InOrderParticipantSteps
<1>2. ASSUME NEW s \in Reporter, NEW e \in Endpoint, EndpointLost(s, e)
      PROVE  EndpointInv'
  BY <1>2, InOrderEndpointLost
<1>3. ASSUME NEW r \in Reader, NEW matched \in BOOLEAN, Owner[r] \in Reporter,
             LivelinessChanged(r, matched)
      PROVE  EndpointInv'
  BY <1>3, InOrderLivelinessChanged
<1>4. ASSUME NEW s \in Reporter, ReporterRemoved(s)
      PROVE  EndpointInv'
  BY <1>4, InOrderReporterRemoved
<1>5. ASSUME NEW s \in Reporter, NEW e \in Endpoint, Introduced(s, e), EndpointDiscovered(s, e)
      PROVE  EndpointInv'
  BY <1>5, InOrderEndpointDiscovered
<1>6. CASE UNCHANGED vars
  BY <1>6, SameEndpoints DEF vars
<1> QED BY <1>1, <1>2, <1>3, <1>4, <1>5, <1>6 DEF InOrderNext, OtherReport

\* Reports that come in order are reports in some order: everything proved of
\* AnyOrderSpec holds of InOrderSpec.
THEOREM InOrderIsAnyOrder == InOrderSpec => AnyOrderSpec
<1>1. [InOrderNext]_vars => [AnyOrderNext]_vars
  BY DEF InOrderNext, AnyOrderNext
<1> QED BY <1>1, PTL DEF InOrderSpec, AnyOrderSpec

\* The invariant every result about introduced endpoints follows from: AddEndPoint
\* and RemoveEndPoint find the owner of each.
THEOREM InOrderInvariant == InOrderSpec => []InOrderInv
<1>1. Init => EndpointInv
  BY EmptyDatabaseInv DEF Init, EndpointInv, Lists, DatabaseOf
<1>2. AnyOrderInv /\ EndpointInv /\ [InOrderNext]_vars => EndpointInv'
  BY InOrderStep DEF InOrderInv
<1>3. InOrderSpec => []AnyOrderInv
  BY InOrderIsAnyOrder, AnyOrderInvariant, PTL
<1>4. AnyOrderInv /\ EndpointInv <=> InOrderInv
  BY DEF InOrderInv
<1> QED BY <1>1, <1>2, <1>3, <1>4, PTL DEF InOrderSpec

\* When endpoints are introduced by their participants, a reporter holds, where
\* RemoveEndPoint looks, exactly the endpoints it reported and did not take back.
THEOREM EndpointsAreTheReported == InOrderSpec => []EndpointsExactlyAsReported
<1>1. InOrderInv => EndpointsExactlyAsReported
  <2> SUFFICES ASSUME InOrderInv, NEW s \in Reporter, NEW e \in Endpoint
               PROVE  Holds(s, Owner[e], e) <=> <<s, e>> \in knownEndpoints
    BY DEF EndpointsExactlyAsReported
  <2>1. Lists(DatabaseOf(s), e) <=> <<s, e>> \in knownEndpoints
    BY DEF InOrderInv, EndpointInv
  <2>2. Holds(s, Owner[e], e) <=> Lists(DatabaseOf(s), e)
    BY EmptyDatabaseInv DEF Holds, Lists, DatabaseOf
  <2> QED BY <2>1, <2>2
<1> QED BY <1>1, InOrderInvariant, PTL

\* ... and files each of them under its owner.
THEOREM EndpointsAreFiled == InOrderSpec => []FiledUnderOwner
<1>1. InOrderInv => FiledUnderOwner
  BY DEF InOrderInv, EndpointInv, Filed, FiledUnderOwner
<1> QED BY <1>1, InOrderInvariant, PTL

=============================================================================
