----------------------- MODULE SnapshotCompareProofs -----------------------
(***************************************************************************)
(* What the walks over ordered sets compute, for every set of GUIDs.       *)
(*                                                                         *)
(* The walks are recursive functions over their positions.  WalkExists     *)
(* shows that a walk that gets nearer to its end with every step is        *)
(* defined, so that each walk may be unfolded one step at a time; what it  *)
(* computes then follows by taking a position nearest to the end at which  *)
(* it would compute something else.                                        *)
(***************************************************************************)
EXTENDS SnapshotCompare, WellFoundedInduction, FiniteSetTheorems, TLAPS

-----------------------------------------------------------------------------
(* Least elements, and walks.                                              *)

\* A set of natural numbers that is not empty has a least element.
LEMMA LeastElement ==
    ASSUME NEW T \in SUBSET Nat, T # {}
    PROVE  \E x \in T : \A y \in T : x <= y
<1>1. PICK x \in T : \A y \in T : ~ (<<y, x>> \in OpToRel(<, Nat))
  BY WFMin, NatLessThanWellFounded
<1>2. \A y \in T : x <= y
  <2> TAKE y \in T
  <2>1. x \in Nat /\ y \in Nat
    OBVIOUS
  <2>2. ~(y < x)
    BY <1>1, <2>1 DEF OpToRel
  <2> QED BY <2>1, <2>2
<1> QED BY <1>2

\* begin() of an ordered set that is not empty is its least GUID.
LEMMA FirstIsLeast ==
    ASSUME NEW guids \in SUBSET Nat, guids # {}
    PROVE  First(guids) \in guids /\ \A p \in guids : First(guids) <= p
BY LeastElement DEF First

\* A walk: what a step of it tells of a position depends only on what is told of
\* the positions nearer to the end.
IsWalk(P, Results, distance, bound, step) ==
    /\ Results # {}
    /\ distance \in [P -> Nat]
    /\ bound \in Nat
    /\ \A x \in P : distance[x] < bound
    /\ step \in [[P -> Results] -> [P -> Results]]
    /\ \A v, w \in [P -> Results], x \in P :
            (\A y \in P : distance[y] < distance[x] => v[y] = w[y]) => step[v][x] = step[w][x]

\* A walk is defined: there is a function that its steps compute.
LEMMA WalkExists ==
    ASSUME NEW P, NEW Results, NEW distance, NEW bound, NEW step,
           IsWalk(P, Results, distance, bound, step)
    PROVE  \E w \in [P -> Results] : w = step[w]
<1> USE DEF IsWalk
<1> DEFINE Upto(n, w) == \A x \in P : distance[x] < n => w[x] = step[w][x]
           Defined == {n \in Nat : \E w \in [P -> Results] : Upto(n, w)}
<1>1. 0 \in Defined
  <2>1. PICK result \in Results : TRUE
    OBVIOUS
  <2>2. [x \in P |-> result] \in [P -> Results]
    OBVIOUS
  <2>3. \A x \in P : ~(distance[x] < 0)
    OBVIOUS
  <2> QED BY <2>2, <2>3
<1>2. ASSUME NEW n \in Defined PROVE n + 1 \in Defined
  <2>1. PICK w \in [P -> Results] : Upto(n, w)
    BY <1>2
  <2>2. step[w] \in [P -> Results]
    OBVIOUS
  <2>3. ASSUME NEW x \in P, distance[x] < n + 1
        PROVE  step[w][x] = step[step[w]][x]
    <3>1. \A y \in P : distance[y] < distance[x] => distance[y] < n
      BY <1>2, <2>3
    <3>2. \A y \in P : distance[y] < distance[x] => w[y] = step[w][y]
      BY <2>1, <3>1
    <3> QED BY <2>2, <3>2
  <2>4. Upto(n + 1, step[w]) /\ n + 1 \in Nat
    BY <1>2, <2>3
  <2> QED BY <2>2, <2>4
<1>3. bound \in Defined
  <2> SUFFICES ASSUME bound \notin Defined PROVE FALSE
    OBVIOUS
  <2>1. PICK n \in Nat \ Defined : \A k \in Nat \ Defined : n <= k
    <3> HIDE DEF Defined
    <3> QED BY LeastElement
  <2>2. n - 1 \in Nat /\ n - 1 + 1 = n
    <3>1. n # 0
      BY <1>1
    <3> QED BY <3>1
  <2>3. n - 1 \in Defined
    <3> HIDE DEF Defined
    <3> QED BY <2>1, <2>2
  <2> QED
    <3> HIDE DEF Defined
    <3> QED BY <1>2, <2>1, <2>2, <2>3
<1>4. PICK w \in [P -> Results] : Upto(bound, w)
  BY <1>3
<1>5. \A x \in P : w[x] = step[w][x]
  BY <1>4
<1>6. w = step[w]
  BY <1>5
<1> QED BY <1>6

\* A set of GUIDs is finite, and ++ leaves one GUID less.
LEMMA AdvanceProps ==
    ASSUME NEW guids \in SUBSET Participant
    PROVE  /\ IsFiniteSet(guids)
           /\ Cardinality(guids) \in Nat
           /\ guids = {} <=> Cardinality(guids) = 0
           /\ guids # {} =>
                /\ First(guids) \in guids
                /\ \A p \in guids : First(guids) <= p
                /\ Advance(guids) \in SUBSET guids
                /\ Cardinality(Advance(guids)) = Cardinality(guids) - 1
<1>1. IsFiniteSet(guids)
  BY FiniteAssumption, FS_Subset
<1>2. Cardinality(guids) \in Nat /\ (guids = {} <=> Cardinality(guids) = 0)
  BY <1>1, FS_CardinalityType, FS_EmptySet
<1>3. guids # {} => First(guids) \in guids /\ \A p \in guids : First(guids) <= p
  BY FirstIsLeast, ParticipantAssumption
<1>4. guids # {} => /\ Advance(guids) \in SUBSET guids
                    /\ Cardinality(Advance(guids)) = Cardinality(guids) - 1
  BY <1>1, <1>3, FS_RemoveElement DEF Advance
<1> QED BY <1>1, <1>2, <1>3, <1>4

-----------------------------------------------------------------------------
(* The walk of operator==.                                                 *)

Positions(leftDb, rightDb) ==
    [left : SUBSET Living(leftDb), right : SUBSET Living(rightDb)]

SameSize(leftDb, rightDb) ==
    Cardinality(Living(leftDb)) = Cardinality(Living(rightDb))

SkipLeft(at, l) == First(at.right) = l

SkipRight(leftDb, rightDb, l, r, at) ==
    SkipsRight(at.left, at.right, r, SameSize(leftDb, rightDb), SkipLeft(at, l))

BothAdvanced(at) == [left |-> Advance(at.left), right |-> Advance(at.right)]

OwnSkipped(leftDb, rightDb, l, r, at) ==
    [left |-> IF SkipRight(leftDb, rightDb, l, r, at) THEN Advance(at.left) ELSE at.left,
     right |-> IF SkipLeft(at, l) THEN Advance(at.right) ELSE at.right]

\* One step of the walk, w telling how it goes on.
ComparisonStep(leftDb, rightDb, l, r, w, at) ==
    IF at.left = {} \/ at.right = {} THEN OnlyOwnLeft(at.left \cup at.right, {l, r})
    ELSE IF First(at.left) = First(at.right)
    THEN /\ SameItem(leftDb[First(at.left)], rightDb[First(at.right)])
         /\ w[BothAdvanced(at)]
    ELSE /\ SkipLeft(at, l) \/ SkipRight(leftDb, rightDb, l, r, at)
         /\ w[OwnSkipped(leftDb, rightDb, l, r, at)]

Distance(at) == Cardinality(at.left) + Cardinality(at.right)

\* Both participants' entries are of this deployment.
Comparable(leftDb, rightDb) ==
    Living(leftDb) \subseteq Participant /\ Living(rightDb) \subseteq Participant

\* Every step of the walk leaves less to be walked.
LEMMA ComparisonProceeds ==
    ASSUME NEW leftDb, NEW rightDb, Comparable(leftDb, rightDb), NEW l, NEW r,
           NEW at \in Positions(leftDb, rightDb)
    PROVE  /\ Distance(at) \in Nat
           /\ at.left # {} /\ at.right # {} =>
                /\ BothAdvanced(at) \in Positions(leftDb, rightDb)
                /\ Distance(BothAdvanced(at)) < Distance(at)
                /\ SkipLeft(at, l) \/ SkipRight(leftDb, rightDb, l, r, at) =>
                      /\ OwnSkipped(leftDb, rightDb, l, r, at) \in Positions(leftDb, rightDb)
                      /\ Distance(OwnSkipped(leftDb, rightDb, l, r, at)) < Distance(at)
<1> DEFINE both == BothAdvanced(at)
           own == OwnSkipped(leftDb, rightDb, l, r, at)
<1>1. /\ at.left \in SUBSET Living(leftDb) /\ at.right \in SUBSET Living(rightDb)
      /\ at.left \in SUBSET Participant /\ at.right \in SUBSET Participant
  BY DEF Positions, Comparable
<1>2. Cardinality(at.left) \in Nat /\ Cardinality(at.right) \in Nat
  BY <1>1, AdvanceProps
<1>3. ASSUME at.left # {}, at.right # {}
      PROVE  /\ Advance(at.left) \in SUBSET Living(leftDb)
             /\ Cardinality(Advance(at.left)) = Cardinality(at.left) - 1
             /\ Advance(at.right) \in SUBSET Living(rightDb)
             /\ Cardinality(Advance(at.right)) = Cardinality(at.right) - 1
  BY <1>1, <1>3, AdvanceProps
<1>4. ASSUME at.left # {}, at.right # {}
      PROVE  both \in Positions(leftDb, rightDb) /\ Distance(both) < Distance(at)
  BY <1>2, <1>3, <1>4 DEF Positions, Distance, BothAdvanced
<1>5. ASSUME at.left # {}, at.right # {},
             SkipLeft(at, l) \/ SkipRight(leftDb, rightDb, l, r, at)
      PROVE  own \in Positions(leftDb, rightDb) /\ Distance(own) < Distance(at)
  <2>1. own.left \in {at.left, Advance(at.left)} /\ own.right \in {at.right, Advance(at.right)}
    BY DEF OwnSkipped
  <2>2. own \in Positions(leftDb, rightDb)
    BY <1>1, <1>3, <1>5 DEF Positions, OwnSkipped
  <2>3. own.left = Advance(at.left) \/ own.right = Advance(at.right)
    BY <1>5 DEF OwnSkipped
  <2>4. Distance(own) < Distance(at)
    <3> HIDE DEF own
    <3> QED BY <1>2, <1>3, <1>5, <2>1, <2>3 DEF Distance
  <2> QED BY <2>2, <2>4
<1> QED BY <1>2, <1>4, <1>5 DEF Distance

\* The walk may be unfolded.
LEMMA ComparisonUnfolds ==
    ASSUME NEW leftDb, NEW rightDb, Comparable(leftDb, rightDb), NEW l, NEW r
    PROVE  /\ Comparison(leftDb, rightDb, l, r) \in [Positions(leftDb, rightDb) -> BOOLEAN]
           /\ \A at \in Positions(leftDb, rightDb) :
                Comparison(leftDb, rightDb, l, r)[at] =
                    ComparisonStep(leftDb, rightDb, l, r, Comparison(leftDb, rightDb, l, r), at)
<1> DEFINE P == Positions(leftDb, rightDb)
           S(w, at) == ComparisonStep(leftDb, rightDb, l, r, w, at)
           walk == Comparison(leftDb, rightDb, l, r)
           distance == [at \in P |-> Distance(at)]
           step == [w \in [P -> BOOLEAN] |-> [at \in P |-> S(w, at)]]
           bound == Cardinality(Living(leftDb)) + Cardinality(Living(rightDb)) + 1
<1>1. walk = CHOOSE w : w = [at \in P |-> S(w, at)]
  BY DEF Comparison, ComparisonStep, Positions, SameSize, SkipLeft, SkipRight,
         BothAdvanced, OwnSkipped
<1>2. distance \in [P -> Nat]
  BY ComparisonProceeds
<1>3. bound \in Nat /\ \A at \in P : distance[at] < bound
  <2>1. /\ IsFiniteSet(Living(leftDb)) /\ IsFiniteSet(Living(rightDb))
        /\ Cardinality(Living(leftDb)) \in Nat /\ Cardinality(Living(rightDb)) \in Nat
    BY AdvanceProps DEF Comparable
  <2>2. \A at \in P : /\ Cardinality(at.left) <= Cardinality(Living(leftDb))
                      /\ Cardinality(at.right) <= Cardinality(Living(rightDb))
    BY <2>1, FS_Subset DEF Positions
  <2>3. \A at \in P : Cardinality(at.left) \in Nat /\ Cardinality(at.right) \in Nat
    BY AdvanceProps DEF Positions, Comparable
  <2> QED BY <2>1, <2>2, <2>3 DEF Distance
<1>4. ASSUME NEW w \in [P -> BOOLEAN], NEW at \in P PROVE S(w, at) \in BOOLEAN
  <2>1. OnlyOwnLeft(at.left \cup at.right, {l, r}) \in BOOLEAN
    BY DEF OnlyOwnLeft
  <2> QED BY <2>1 DEF ComparisonStep
<1>5. step \in [[P -> BOOLEAN] -> [P -> BOOLEAN]]
  <2> HIDE DEF S, P
  <2> QED BY <1>4
<1>6. ASSUME NEW v \in [P -> BOOLEAN], NEW w \in [P -> BOOLEAN], NEW at \in P,
             \A y \in P : distance[y] < distance[at] => v[y] = w[y]
      PROVE  S(v, at) = S(w, at)
  <2>1. \A y \in P : Distance(y) < Distance(at) => v[y] = w[y]
    BY <1>6
  <2>2. at.left # {} /\ at.right # {} => v[BothAdvanced(at)] = w[BothAdvanced(at)]
    BY <2>1, ComparisonProceeds
  <2>3. at.left # {} /\ at.right # {} /\ (SkipLeft(at, l) \/ SkipRight(leftDb, rightDb, l, r, at)) =>
            v[OwnSkipped(leftDb, rightDb, l, r, at)] = w[OwnSkipped(leftDb, rightDb, l, r, at)]
    BY <2>1, ComparisonProceeds
  <2> HIDE DEF P
  <2> QED BY <2>2, <2>3 DEF ComparisonStep
<1>7. \E w \in [P -> BOOLEAN] : w = step[w]
  <2>1. \A v, w \in [P -> BOOLEAN], x \in P :
            (\A y \in P : distance[y] < distance[x] => v[y] = w[y]) => step[v][x] = step[w][x]
    <3> HIDE DEF S, P, distance
    <3> QED BY <1>6
  <2>2. BOOLEAN # {}
    OBVIOUS
  <2>3. IsWalk(P, BOOLEAN, distance, bound, step)
    <3> HIDE DEF S, P, distance, step, bound
    <3> QED BY <1>2, <1>3, <1>5, <2>1, <2>2 DEF IsWalk
  <2> HIDE DEF S, P, distance, step, bound
  <2> QED BY <2>3, WalkExists
<1>8. PICK w \in [P -> BOOLEAN] : w = [at \in P |-> S(w, at)]
  <2> HIDE DEF S, P
  <2> QED BY <1>7
<1>9. walk = [at \in P |-> S(walk, at)]
  <2> HIDE DEF S, P, walk
  <2> QED BY <1>1, <1>8
<1>10. walk \in [P -> BOOLEAN]
  <2>1. \A at \in P : S(walk, at) \in BOOLEAN
    BY DEF ComparisonStep, OnlyOwnLeft
  <2> HIDE DEF S, P, walk
  <2> QED BY <1>9, <2>1
<1> HIDE DEF S, P, walk
<1>11. \A at \in P : walk[at] = S(walk, at)
  BY <1>9
<1> QED BY <1>10, <1>11 DEF S, P, walk

\* Of positions that are not as they should be, one is nearest to the end.
LEMMA NearestPosition ==
    ASSUME NEW leftDb, NEW rightDb, Comparable(leftDb, rightDb),
           NEW Bad \in SUBSET Positions(leftDb, rightDb), Bad # {}
    PROVE  \E at \in Bad : \A other \in Positions(leftDb, rightDb) :
                Distance(other) < Distance(at) => other \notin Bad
<1> DEFINE T == {Distance(at) : at \in Bad}
<1>1. \A at \in Positions(leftDb, rightDb) : Distance(at) \in Nat
  BY ComparisonProceeds
<1>2. T \in SUBSET Nat /\ T # {}
  BY <1>1
<1>3. PICK n \in T : \A k \in T : n <= k
  BY <1>2, LeastElement
<1>4. PICK at \in Bad : Distance(at) = n
  OBVIOUS
<1>5. ASSUME NEW other \in Bad PROVE ~(Distance(other) < Distance(at))
  <2>1. Distance(other) \in T
    OBVIOUS
  <2> QED BY <1>1, <1>3, <1>4, <2>1
<1> QED BY <1>4, <1>5

\* What is left to be walked differs in the two owners' entries only.
AgreeFrom(leftDb, rightDb, l, r, at) ==
    /\ \A x \in at.left \cap at.right : SameItem(leftDb[x], rightDb[x])
    /\ (at.left \ at.right) \cup (at.right \ at.left) \subseteq {l, r}

\* Until one of the owners' entries has been passed both iterators have made as
\* many steps.
InStep(leftDb, rightDb, l, r, at) ==
    l \in at.right /\ r \in at.left /\ SameSize(leftDb, rightDb) =>
        Cardinality(at.left) = Cardinality(at.right)

\* At the end of either database: what is left of the other is an owner's entry.
LEMMA EndAgrees ==
    ASSUME NEW leftDb, NEW rightDb, Comparable(leftDb, rightDb), NEW l, NEW r,
           NEW at \in Positions(leftDb, rightDb), at.left = {} \/ at.right = {},
           OnlyOwnLeft(at.left \cup at.right, {l, r})
    PROVE  AgreeFrom(leftDb, rightDb, l, r, at)
<1> DEFINE rest == at.left \cup at.right
<1>1. rest \in SUBSET Participant
  BY DEF Positions, Comparable
<1>2. rest # {} => First(rest) \in {l, r} /\ rest \ {First(rest)} = {}
  BY DEF OnlyOwnLeft, Advance
<1>3. rest \subseteq {l, r}
  <2> HIDE DEF rest
  <2> QED BY <1>2
<1> QED BY <1>3 DEF AgreeFrom

\* Two entries of one participant that are alike are passed together.
LEMMA SharedEntryAgrees ==
    ASSUME NEW leftDb, NEW rightDb, Comparable(leftDb, rightDb), NEW l \in Nat, NEW r \in Nat,
           l < r, NEW at \in Positions(leftDb, rightDb), at.left # {}, at.right # {},
           First(at.left) = First(at.right),
           SameItem(leftDb[First(at.left)], rightDb[First(at.right)])
    PROVE  /\ InStep(leftDb, rightDb, l, r, at) =>
                InStep(leftDb, rightDb, l, r, BothAdvanced(at))
           /\ AgreeFrom(leftDb, rightDb, l, r, BothAdvanced(at)) =>
                AgreeFrom(leftDb, rightDb, l, r, at)
<1> DEFINE f == First(at.left)
<1>1. at.left \in SUBSET Participant /\ at.right \in SUBSET Participant
  BY DEF Positions, Comparable
<1>2. /\ f \in at.left /\ f \in at.right
      /\ Cardinality(at.left) \in Nat /\ Cardinality(at.right) \in Nat
      /\ Cardinality(Advance(at.left)) = Cardinality(at.left) - 1
      /\ Cardinality(Advance(at.right)) = Cardinality(at.right) - 1
  BY <1>1, AdvanceProps
<1>3. /\ BothAdvanced(at).left = at.left \ {f}
      /\ BothAdvanced(at).right = at.right \ {f}
  BY DEF BothAdvanced, Advance
<1>4. InStep(leftDb, rightDb, l, r, at) => InStep(leftDb, rightDb, l, r, BothAdvanced(at))
  BY <1>2, <1>3 DEF InStep, Advance
<1>5. AgreeFrom(leftDb, rightDb, l, r, BothAdvanced(at)) => AgreeFrom(leftDb, rightDb, l, r, at)
  <2> SUFFICES ASSUME AgreeFrom(leftDb, rightDb, l, r, BothAdvanced(at))
               PROVE  AgreeFrom(leftDb, rightDb, l, r, at)
    OBVIOUS
  <2>1. SameItem(leftDb[f], rightDb[f])
    OBVIOUS
  <2>2. \A x \in at.left \cap at.right : SameItem(leftDb[x], rightDb[x])
    <3> HIDE DEF f
    <3> QED BY <1>3, <2>1 DEF AgreeFrom
  <2>3. (at.left \ at.right) \cup (at.right \ at.left) \subseteq {l, r}
    <3> HIDE DEF f
    <3> QED BY <1>2, <1>3 DEF AgreeFrom
  <2> QED BY <2>2, <2>3 DEF AgreeFrom
<1> QED BY <1>4, <1>5

\* The larger participant's entry of the smaller one and the smaller one's entry of
\* the larger are skipped together: neither hides an entry that the other database
\* has as well.
LEMMA BothSkippedAgree ==
    ASSUME NEW leftDb, NEW rightDb, Comparable(leftDb, rightDb), NEW l \in Nat, NEW r \in Nat,
           l < r, NEW at \in Positions(leftDb, rightDb), at.left # {}, at.right # {},
           InStep(leftDb, rightDb, l, r, at),
           SkipLeft(at, l), SkipRight(leftDb, rightDb, l, r, at),
           AgreeFrom(leftDb, rightDb, l, r, OwnSkipped(leftDb, rightDb, l, r, at))
    PROVE  AgreeFrom(leftDb, rightDb, l, r, at)
<1> DEFINE A == at.left
           B == at.right
           own == OwnSkipped(leftDb, rightDb, l, r, at)
<1>1. A \in SUBSET Participant /\ B \in SUBSET Participant /\ Participant \subseteq Nat
  BY ParticipantAssumption DEF Positions, Comparable
<1>2. First(B) = l /\ First(A) = r /\ SameSize(leftDb, rightDb)
  BY DEF SkipLeft, SkipRight, SkipsRight
<1>3. /\ r \in A /\ l \in B
      /\ \A x \in A : r <= x
  BY <1>1, <1>2, AdvanceProps
<1>4. l \notin A
  BY <1>1, <1>3
<1>5. own.left = A \ {r} /\ own.right = B \ {l}
  BY <1>2 DEF OwnSkipped, Advance
<1>6. /\ IsFiniteSet(A) /\ IsFiniteSet(B)
      /\ Cardinality(A) \in Nat /\ Cardinality(A) = Cardinality(B)
  BY <1>1, <1>2, <1>3, AdvanceProps DEF InStep
<1>7. r \notin B
  <2> SUFFICES ASSUME r \in B PROVE FALSE
    OBVIOUS
  <2>1. B \ {l} = (A \ {r}) \cup {r}
    <3>1. ((A \ {r}) \ (B \ {l})) \cup ((B \ {l}) \ (A \ {r})) \subseteq {l, r}
      BY <1>5 DEF AgreeFrom
    <3> HIDE DEF A, B
    <3> QED BY <1>3, <1>4, <3>1
  <2>2. Cardinality(B \ {l}) = Cardinality(A) - 1
    BY <1>3, <1>6, FS_RemoveElement
  <2>3. B \ {l} = A
    <3> HIDE DEF A, B
    <3> QED BY <1>3, <2>1
  <2> HIDE DEF A, B
  <2> QED BY <1>6, <2>2, <2>3
<1>8. \A x \in A \cap B : SameItem(leftDb[x], rightDb[x])
  BY <1>4, <1>5, <1>7 DEF AgreeFrom
<1>9. (A \ B) \cup (B \ A) \subseteq {l, r}
  BY <1>5 DEF AgreeFrom
<1> QED BY <1>8, <1>9 DEF AgreeFrom

\* One owner's entry is skipped alone: the other database has no such entry.
LEMMA OneSkippedAgrees ==
    ASSUME NEW leftDb, NEW rightDb, Comparable(leftDb, rightDb), NEW l \in Nat, NEW r \in Nat,
           l < r, NEW at \in Positions(leftDb, rightDb), at.left # {}, at.right # {},
           First(at.left) # First(at.right),
           SkipLeft(at, l) \/ SkipRight(leftDb, rightDb, l, r, at),
           ~(SkipLeft(at, l) /\ SkipRight(leftDb, rightDb, l, r, at)),
           AgreeFrom(leftDb, rightDb, l, r, OwnSkipped(leftDb, rightDb, l, r, at))
    PROVE  AgreeFrom(leftDb, rightDb, l, r, at)
<1> DEFINE A == at.left
           B == at.right
           own == OwnSkipped(leftDb, rightDb, l, r, at)
<1>1. A \in SUBSET Participant /\ B \in SUBSET Participant /\ Participant \subseteq Nat
  BY ParticipantAssumption DEF Positions, Comparable
<1>2. /\ First(A) \in A /\ \A x \in A : First(A) <= x
      /\ First(B) \in B /\ \A x \in B : First(B) <= x
  BY <1>1, AdvanceProps
<1>3. /\ \A x \in own.left \cap own.right : SameItem(leftDb[x], rightDb[x])
      /\ (own.left \ own.right) \cup (own.right \ own.left) \subseteq {l, r}
  BY DEF AgreeFrom
<1>4. CASE SkipLeft(at, l) /\ ~SkipRight(leftDb, rightDb, l, r, at)
  <2>1. First(B) = l /\ own.left = A /\ own.right = B \ {l}
    BY <1>4 DEF SkipLeft, OwnSkipped, Advance
  <2>2. l \notin A
    <3> SUFFICES ASSUME l \in A PROVE FALSE
      OBVIOUS
    <3>1. First(A) <= l /\ First(A) # l /\ First(A) \in Nat
      BY <1>1, <1>2, <2>1
    <3>2. First(A) \notin B
      BY <1>2, <2>1, <3>1
    <3>3. First(A) \in {l, r}
      BY <1>2, <1>3, <2>1, <3>2
    <3> QED BY <1>1, <1>2, <3>1, <3>3
  <2>3. \A x \in A \cap B : SameItem(leftDb[x], rightDb[x])
    <3> HIDE DEF A, B, own
    <3> QED BY <1>3, <2>1, <2>2
  <2>4. (A \ B) \cup (B \ A) \subseteq {l, r}
    <3> HIDE DEF A, B, own
    <3> QED BY <1>3, <2>1
  <2> QED BY <2>3, <2>4 DEF AgreeFrom
<1>5. CASE ~SkipLeft(at, l) /\ SkipRight(leftDb, rightDb, l, r, at)
  <2>1. First(A) = r /\ First(B) # l /\ own.left = A \ {r} /\ own.right = B
    BY <1>5 DEF SkipLeft, SkipRight, SkipsRight, OwnSkipped, Advance
  <2>2. r \notin B
    <3> SUFFICES ASSUME r \in B PROVE FALSE
      OBVIOUS
    <3>1. First(B) <= r /\ First(B) # r /\ First(B) \in Nat
      BY <1>1, <1>2, <2>1
    <3>2. First(B) \notin A
      BY <1>2, <2>1, <3>1
    <3>3. First(B) \in {l, r}
      BY <1>2, <1>3, <2>1, <3>2
    <3> QED BY <1>1, <1>2, <2>1, <3>1, <3>3
  <2>3. \A x \in A \cap B : SameItem(leftDb[x], rightDb[x])
    <3> HIDE DEF A, B, own
    <3> QED BY <1>3, <2>1, <2>2
  <2>4. (A \ B) \cup (B \ A) \subseteq {l, r}
    <3> HIDE DEF A, B, own
    <3> QED BY <1>3, <2>1
  <2> QED BY <2>3, <2>4 DEF AgreeFrom
<1> QED BY <1>4, <1>5

\* operator== of two databases sweeps over nothing: when it says that they are
\* equal they differ in entries of their two owners only.
THEOREM MatchesHidesNothing ==
    ASSUME NEW leftDb, NEW rightDb, Comparable(leftDb, rightDb), NEW l \in Nat, NEW r \in Nat,
           l < r, Matches(leftDb, rightDb, l, r)
    PROVE  /\ \A x \in Living(leftDb) \cap Living(rightDb) :
                SameItem(leftDb[x], rightDb[x])
           /\ (Living(leftDb) \ Living(rightDb)) \cup (Living(rightDb) \ Living(leftDb))
                \subseteq {l, r}
<1> DEFINE P == Positions(leftDb, rightDb)
           walk == Comparison(leftDb, rightDb, l, r)
           Start == [left |-> Living(leftDb), right |-> Living(rightDb)]
           Bad == {at \in P : /\ walk[at]
                              /\ InStep(leftDb, rightDb, l, r, at)
                              /\ ~AgreeFrom(leftDb, rightDb, l, r, at)}
<1>1. Start \in P /\ walk[Start] /\ InStep(leftDb, rightDb, l, r, Start)
  BY DEF Positions, Matches, InStep, SameSize
<1>2. Bad = {}
  <2> SUFFICES ASSUME Bad # {} PROVE FALSE
    OBVIOUS
  <2>1. PICK at \in Bad : \A other \in P : Distance(other) < Distance(at) => other \notin Bad
    <3> HIDE DEF Bad
    <3>1. Bad \in SUBSET P
      BY DEF Bad
    <3> QED BY <3>1, NearestPosition
  <2>2. /\ at \in P /\ walk[at] /\ InStep(leftDb, rightDb, l, r, at)
        /\ ~AgreeFrom(leftDb, rightDb, l, r, at)
    OBVIOUS
  <2>3. \A other \in P :
            /\ Distance(other) < Distance(at)
            /\ walk[other]
            /\ InStep(leftDb, rightDb, l, r, other)
            => AgreeFrom(leftDb, rightDb, l, r, other)
    BY <2>1
  <2> HIDE DEF Bad, P, walk
  <2>4. ComparisonStep(leftDb, rightDb, l, r, walk, at)
    BY <2>2, ComparisonUnfolds DEF P, walk
  <2>5. at.left # {} /\ at.right # {}
    <3>1. at.left = {} \/ at.right = {} => OnlyOwnLeft(at.left \cup at.right, {l, r})
      BY <2>4 DEF ComparisonStep
    <3> QED BY <2>2, <3>1, EndAgrees DEF P
  <2>6. First(at.left) # First(at.right)
    <3> SUFFICES ASSUME First(at.left) = First(at.right) PROVE FALSE
      OBVIOUS
    <3>1. /\ SameItem(leftDb[First(at.left)], rightDb[First(at.right)])
          /\ walk[BothAdvanced(at)]
      BY <2>4, <2>5 DEF ComparisonStep
    <3>2. BothAdvanced(at) \in P /\ Distance(BothAdvanced(at)) < Distance(at)
      BY <2>2, <2>5, ComparisonProceeds DEF P
    <3>3. InStep(leftDb, rightDb, l, r, BothAdvanced(at))
      BY <2>2, <2>5, <3>1, SharedEntryAgrees DEF P
    <3>4. AgreeFrom(leftDb, rightDb, l, r, BothAdvanced(at))
      BY <2>3, <3>1, <3>2, <3>3
    <3> QED BY <2>2, <2>5, <3>1, <3>4, SharedEntryAgrees DEF P
  <2> DEFINE own == OwnSkipped(leftDb, rightDb, l, r, at)
  <2>7. (SkipLeft(at, l) \/ SkipRight(leftDb, rightDb, l, r, at)) /\ walk[own]
    BY <2>4, <2>5, <2>6 DEF ComparisonStep
  <2>8. own \in P /\ Distance(own) < Distance(at)
    BY <2>2, <2>5, <2>7, ComparisonProceeds DEF P
  <2>9. InStep(leftDb, rightDb, l, r, own)
    <3>1. l \notin own.right \/ r \notin own.left
      BY <2>7 DEF OwnSkipped, Advance, SkipLeft, SkipRight, SkipsRight
    <3> QED BY <3>1 DEF InStep
  <2>10. AgreeFrom(leftDb, rightDb, l, r, own)
    BY <2>3, <2>7, <2>8, <2>9
  <2>11. CASE SkipLeft(at, l) /\ SkipRight(leftDb, rightDb, l, r, at)
    BY <2>2, <2>5, <2>10, <2>11, BothSkippedAgree DEF P
  <2>12. CASE ~(SkipLeft(at, l) /\ SkipRight(leftDb, rightDb, l, r, at))
    BY <2>2, <2>5, <2>6, <2>7, <2>10, <2>12, OneSkippedAgrees DEF P
  <2> QED BY <2>11, <2>12
<1>3. AgreeFrom(leftDb, rightDb, l, r, Start)
  <2> HIDE DEF Start, walk, P
  <2> QED BY <1>1, <1>2
<1> QED BY <1>3 DEF AgreeFrom

-----------------------------------------------------------------------------
(* No false alarm.                                                         *)

\* What two participants that have been told the same may differ in: whether each
\* lists itself.  The sizes tell when both owners are to be skipped.
ToldAlike(leftDb, rightDb, l, r, at) ==
    /\ at.left \ {l, r} = at.right \ {l, r}
    /\ \A x \in at.left \cap at.right : SameItem(leftDb[x], rightDb[x])
    /\ l \in at.left => l \in at.right
    /\ r \in at.right => r \in at.left
    /\ l \in at.right => r \in at.left
    /\ l \in at.right \ at.left => (SameSize(leftDb, rightDb) <=> r \notin at.right)

\* A position at which the walk goes on with both iterators.
LEMMA AlikeAfterShared ==
    ASSUME NEW leftDb, NEW rightDb, Comparable(leftDb, rightDb), NEW l \in Nat, NEW r \in Nat,
           l < r, NEW at \in Positions(leftDb, rightDb), at.left # {}, at.right # {},
           ToldAlike(leftDb, rightDb, l, r, at), First(at.left) = First(at.right)
    PROVE  /\ SameItem(leftDb[First(at.left)], rightDb[First(at.right)])
           /\ ToldAlike(leftDb, rightDb, l, r, BothAdvanced(at))
<1> DEFINE f == First(at.left)
           A == at.left
           B == at.right
           next == BothAdvanced(at)
<1>1. A \in SUBSET Participant /\ B \in SUBSET Participant /\ Participant \subseteq Nat
  BY ParticipantAssumption DEF Positions, Comparable
<1>2. f \in A /\ f \in B /\ \A x \in B : f <= x
  BY <1>1, AdvanceProps
<1>3. SameItem(leftDb[f], rightDb[f])
  BY <1>2 DEF ToldAlike
<1>4. next.left = A \ {f} /\ next.right = B \ {f}
  BY DEF BothAdvanced, Advance
<1>5. l \in B => f # r
  BY <1>1, <1>2
<1>6. ToldAlike(leftDb, rightDb, l, r, BothAdvanced(at))
  <2>1. /\ A \ {l, r} = B \ {l, r}
        /\ \A x \in A \cap B : SameItem(leftDb[x], rightDb[x])
        /\ l \in A => l \in B
        /\ r \in B => r \in A
        /\ l \in B => r \in A
        /\ l \in B \ A => (SameSize(leftDb, rightDb) <=> r \notin B)
    BY DEF ToldAlike
  <2> HIDE DEF A, B, f, next
  <2>2. next.left \ {l, r} = next.right \ {l, r}
    BY <1>4, <2>1
  <2>3. \A x \in next.left \cap next.right : SameItem(leftDb[x], rightDb[x])
    BY <1>4, <2>1
  <2>4. /\ l \in next.left => l \in next.right
        /\ r \in next.right => r \in next.left
        /\ l \in next.right => r \in next.left
    BY <1>4, <1>5, <2>1
  <2>5. l \in next.right \ next.left => (SameSize(leftDb, rightDb) <=> r \notin next.right)
    BY <1>4, <1>5, <2>1
  <2> QED BY <2>2, <2>3, <2>4, <2>5 DEF ToldAlike, next
<1> QED BY <1>3, <1>6

\* A position at which the walk would stop: an owner's entry is skipped, and what
\* is left is alike.
LEMMA AlikeAfterSkip ==
    ASSUME NEW leftDb, NEW rightDb, Comparable(leftDb, rightDb), NEW l \in Nat, NEW r \in Nat,
           l < r, NEW at \in Positions(leftDb, rightDb), at.left # {}, at.right # {},
           ToldAlike(leftDb, rightDb, l, r, at), First(at.left) # First(at.right)
    PROVE  /\ SkipLeft(at, l) \/ SkipRight(leftDb, rightDb, l, r, at)
           /\ ToldAlike(leftDb, rightDb, l, r, OwnSkipped(leftDb, rightDb, l, r, at))
<1> DEFINE A == at.left
           B == at.right
           a == First(at.left)
           b == First(at.right)
           own == OwnSkipped(leftDb, rightDb, l, r, at)
           sameSize == SameSize(leftDb, rightDb)
<1>1. A \in SUBSET Participant /\ B \in SUBSET Participant /\ Participant \subseteq Nat
  BY ParticipantAssumption DEF Positions, Comparable
<1>2. /\ a \in A /\ \A x \in A : a <= x
      /\ b \in B /\ \A x \in B : b <= x
      /\ a # b /\ a \in Nat /\ b \in Nat
  BY <1>1, AdvanceProps
<1>3. /\ A \ {l, r} = B \ {l, r}
      /\ \A x \in A \cap B : SameItem(leftDb[x], rightDb[x])
      /\ l \in A => l \in B
      /\ r \in B => r \in A
      /\ l \in B => r \in A
      /\ l \in B \ A => (sameSize <=> r \notin B)
  BY DEF ToldAlike
<1>4. /\ SkipLeft(at, l) <=> b = l
      /\ SkipRight(leftDb, rightDb, l, r, at) <=> a = r /\ (sameSize \/ b # l)
  BY DEF SkipLeft, SkipRight, SkipsRight
<1>5. /\ own.left = IF SkipRight(leftDb, rightDb, l, r, at) THEN A \ {a} ELSE A
      /\ own.right = IF SkipLeft(at, l) THEN B \ {b} ELSE B
  BY DEF OwnSkipped, Advance
<1> HIDE DEF A, B, a, b, own, sameSize
<1>6. CASE b = l
  <2>1. l \notin A
    <3> SUFFICES ASSUME l \in A PROVE FALSE
      OBVIOUS
    <3>1. a < l
      BY <1>2, <1>6
    <3>2. a \notin B /\ a \notin {l, r}
      BY <1>2, <1>6, <3>1
    <3> QED BY <1>2, <1>3, <3>2
  <2>2. l \in B \ A
    BY <1>2, <1>6, <2>1
  <2>3. sameSize <=> r \notin B
    BY <1>3, <2>2
  <2>4. own.right = B \ {l}
    BY <1>4, <1>5, <1>6
  <2>5. own.left = IF a = r /\ sameSize THEN A \ {r} ELSE A
    BY <1>4, <1>5, <1>6
  <2>6. own.left \ {l, r} = own.right \ {l, r}
    BY <1>3, <2>4, <2>5
  <2>7. \A x \in own.left \cap own.right : SameItem(leftDb[x], rightDb[x])
    BY <1>3, <2>4, <2>5
  <2>8. l \notin own.left /\ l \notin own.right /\ (r \in own.right => r \in own.left)
    BY <1>3, <2>1, <2>3, <2>4, <2>5
  <2> QED BY <1>4, <1>6, <2>6, <2>7, <2>8 DEF ToldAlike, own
<1>7. CASE b # l
  <2>1. b # r
    <3> SUFFICES ASSUME b = r PROVE FALSE
      OBVIOUS
    <3>1. a < r
      BY <1>2, <1>3
    <3>2. a \notin B /\ a # r
      BY <1>2, <3>1
    <3>3. a = l
      BY <1>2, <1>3, <3>2
    <3> QED BY <1>2, <1>3, <3>2, <3>3
  <2>2. b \in A
    BY <1>2, <1>3, <1>7, <2>1
  <2>3. a < b /\ a \notin B
    BY <1>2, <2>2
  <2>4. a = r
    BY <1>2, <1>3, <2>3
  <2>5. l \notin B /\ r \notin B
    BY <1>2, <2>3, <2>4
  <2>6. own.left = A \ {r} /\ own.right = B
    BY <1>4, <1>5, <1>7, <2>4
  <2>7. own.left \ {l, r} = own.right \ {l, r}
    BY <1>3, <2>6
  <2>8. \A x \in own.left \cap own.right : SameItem(leftDb[x], rightDb[x])
    BY <1>3, <2>6
  <2>9. l \notin own.left /\ l \notin own.right /\ r \notin own.right
    BY <1>3, <2>5, <2>6
  <2> QED BY <1>4, <1>7, <2>4, <2>7, <2>8, <2>9 DEF ToldAlike, own
<1> QED BY <1>6, <1>7

\* operator== raises no false alarm: databases that have been told the same are
\* equal, whether or not their owners list themselves.
THEOREM ToldAlikeMatches ==
    ASSUME NEW leftDb, NEW rightDb, Comparable(leftDb, rightDb), NEW l \in Nat, NEW r \in Nat,
           l < r,
           ToldAlike(leftDb, rightDb, l, r, [left |-> Living(leftDb), right |-> Living(rightDb)])
    PROVE  Matches(leftDb, rightDb, l, r)
<1> DEFINE P == Positions(leftDb, rightDb)
           walk == Comparison(leftDb, rightDb, l, r)
           Start == [left |-> Living(leftDb), right |-> Living(rightDb)]
           Bad == {at \in P : ToldAlike(leftDb, rightDb, l, r, at) /\ ~walk[at]}
<1>1. Start \in P
  BY DEF Positions
<1>2. Bad = {}
  <2> SUFFICES ASSUME Bad # {} PROVE FALSE
    OBVIOUS
  <2>1. PICK at \in Bad : \A other \in P : Distance(other) < Distance(at) => other \notin Bad
    <3> HIDE DEF Bad
    <3>1. Bad \in SUBSET P
      BY DEF Bad
    <3> QED BY <3>1, NearestPosition
  <2>2. at \in P /\ ToldAlike(leftDb, rightDb, l, r, at) /\ ~walk[at]
    OBVIOUS
  <2>3. \A other \in P : /\ Distance(other) < Distance(at)
                         /\ ToldAlike(leftDb, rightDb, l, r, other)
                         => walk[other]
    BY <2>1
  <2> HIDE DEF Bad, P, walk
  <2>4. ~ComparisonStep(leftDb, rightDb, l, r, walk, at)
    BY <2>2, ComparisonUnfolds DEF P, walk
  <2>5. at.left # {} /\ at.right # {}
    <3> SUFFICES ASSUME at.left = {} \/ at.right = {} PROVE FALSE
      OBVIOUS
    <3> DEFINE rest == at.left \cup at.right
    <3>1. rest = {} \/ rest = {r}
      BY <2>2 DEF ToldAlike
    <3>2. rest \in SUBSET Participant
      BY <2>2 DEF P, Positions, Comparable
    <3>3. rest # {} => First(rest) = r /\ rest \ {r} = {}
      <4> HIDE DEF rest
      <4> QED BY <3>1, <3>2, AdvanceProps
    <3>4. OnlyOwnLeft(rest, {l, r})
      <4> HIDE DEF rest
      <4> QED BY <3>3 DEF OnlyOwnLeft, Advance
    <3> QED BY <2>4, <3>4 DEF ComparisonStep
  <2>6. CASE First(at.left) = First(at.right)
    <3>1. /\ SameItem(leftDb[First(at.left)], rightDb[First(at.right)])
          /\ ToldAlike(leftDb, rightDb, l, r, BothAdvanced(at))
      BY <2>2, <2>5, <2>6, AlikeAfterShared DEF P
    <3>2. BothAdvanced(at) \in P /\ Distance(BothAdvanced(at)) < Distance(at)
      BY <2>2, <2>5, ComparisonProceeds DEF P
    <3>3. walk[BothAdvanced(at)]
      BY <2>3, <3>1, <3>2
    <3> QED BY <2>4, <2>5, <2>6, <3>1, <3>3 DEF ComparisonStep
  <2>7. CASE First(at.left) # First(at.right)
    <3> DEFINE own == OwnSkipped(leftDb, rightDb, l, r, at)
    <3>1. /\ SkipLeft(at, l) \/ SkipRight(leftDb, rightDb, l, r, at)
          /\ ToldAlike(leftDb, rightDb, l, r, own)
      BY <2>2, <2>5, <2>7, AlikeAfterSkip DEF P
    <3>2. own \in P /\ Distance(own) < Distance(at)
      BY <2>2, <2>5, <3>1, ComparisonProceeds DEF P
    <3>3. walk[own]
      BY <2>3, <3>1, <3>2
    <3> QED BY <2>4, <2>5, <2>7, <3>1, <3>3 DEF ComparisonStep
  <2> QED BY <2>6, <2>7
<1>3. walk[Start]
  <2> HIDE DEF Start, walk, P
  <2> QED BY <1>1, <1>2 DEF Start
<1> QED BY <1>3 DEF Matches

-----------------------------------------------------------------------------
(* The walk of takeSnapshot.                                               *)

Paired(at) == at.ahead # {} /\ First(at.todo) = First(at.ahead)

Passed(at) == [at EXCEPT !.todo = Advance(@), !.ahead = Advance(@)]

\* One step of the walk, w telling how it goes on.
ListingStep(w, at) ==
    IF at.todo = {} THEN at.listed
    ELSE IF Paired(at) THEN w[Passed(at)]
    ELSE w[Emplaced(at)]

ToList(at) == 2 * Cardinality(at.todo) + (IF Paired(at) THEN 0 ELSE 1)

\* A database is emplaced at most once before a participant is passed.
LEMMA ListingProceeds ==
    ASSUME NEW at \in Walk
    PROVE  /\ ToList(at) \in Nat
           /\ at.todo # {} /\ Paired(at) =>
                Passed(at) \in Walk /\ ToList(Passed(at)) < ToList(at)
           /\ at.todo # {} /\ ~Paired(at) =>
                Emplaced(at) \in Walk /\ ToList(Emplaced(at)) < ToList(at)
<1>1. /\ at.todo \in SUBSET Participant
      /\ at.listed \in SUBSET Participant
      /\ at.ahead \in SUBSET Participant
  BY DEF Walk
<1>2. Cardinality(at.todo) \in Nat
  BY <1>1, AdvanceProps
<1>3. ASSUME at.todo # {}, Paired(at)
      PROVE  Passed(at) \in Walk /\ ToList(Passed(at)) < ToList(at)
  <2>1. /\ Advance(at.todo) \in SUBSET Participant
        /\ Advance(at.ahead) \in SUBSET Participant
        /\ Cardinality(Advance(at.todo)) = Cardinality(at.todo) - 1
    BY <1>1, <1>3, AdvanceProps DEF Paired
  <2>2. Passed(at) \in Walk /\ Passed(at).todo = Advance(at.todo)
    BY <2>1 DEF Passed, Walk
  <2>3. ToList(Passed(at)) <= 2 * (Cardinality(at.todo) - 1) + 1
    BY <1>2, <2>1, <2>2 DEF ToList
  <2>4. ToList(at) = 2 * Cardinality(at.todo)
    BY <1>2, <1>3 DEF ToList
  <2>5. ToList(Passed(at)) \in Int
    BY <1>2, <2>1, <2>2 DEF ToList
  <2> QED BY <1>2, <2>2, <2>3, <2>4, <2>5
<1>4. ASSUME at.todo # {}, ~Paired(at)
      PROVE  Emplaced(at) \in Walk /\ ToList(Emplaced(at)) < ToList(at)
  <2> DEFINE f == First(at.todo)
             next == Emplaced(at)
  <2>1. f \in Participant /\ f \in Nat /\ f <= f
    <3>1. f \in at.todo
      BY <1>1, <1>4, AdvanceProps
    <3> HIDE DEF f
    <3>2. f \in Participant /\ f \in Nat
      BY <1>1, <3>1, ParticipantAssumption
    <3> QED BY <3>2
  <2>2. /\ next.todo = at.todo
        /\ next.listed = at.listed \cup {f}
        /\ next.ahead = {p \in next.listed : f <= p}
    BY DEF Emplaced
  <2>3. next \in Walk
    BY <1>1, <2>1 DEF Emplaced, Walk
  <2> HIDE DEF f, next
  <2>4. f \in next.ahead /\ next.ahead \in SUBSET Participant /\ \A p \in next.ahead : f <= p
    BY <1>1, <2>1, <2>2
  <2>5. First(next.ahead) \in next.ahead /\ First(next.ahead) <= f
    BY <2>4, AdvanceProps
  <2>6. First(next.ahead) = f
    BY <2>1, <2>4, <2>5, ParticipantAssumption
  <2>7. Paired(next)
    BY <2>2, <2>4, <2>6 DEF Paired, f
  <2>8. ToList(next) = 2 * Cardinality(at.todo) /\ ToList(at) = 2 * Cardinality(at.todo) + 1
    BY <1>2, <1>4, <2>2, <2>7 DEF ToList
  <2> QED BY <1>2, <2>3, <2>8 DEF next
<1>5. ToList(at) \in Nat
  BY <1>2 DEF ToList
<1> QED BY <1>3, <1>4, <1>5

\* The walk may be unfolded.
LEMMA ListingUnfolds == \A at \in Walk : Listing[at] = ListingStep(Listing, at)
<1> DEFINE Results == SUBSET Participant
           distance == [at \in Walk |-> ToList(at)]
           step == [w \in [Walk -> Results] |-> [at \in Walk |-> ListingStep(w, at)]]
           bound == 2 * Cardinality(Participant) + 2
<1>1. Listing = CHOOSE w : w = [at \in Walk |-> ListingStep(w, at)]
  BY DEF Listing, ListingStep, Paired, Passed
<1>2. distance \in [Walk -> Nat]
  BY ListingProceeds
<1>3. bound \in Nat /\ \A at \in Walk : distance[at] < bound
  <2>1. Cardinality(Participant) \in Nat
    BY FiniteAssumption, FS_CardinalityType
  <2>2. \A at \in Walk : /\ Cardinality(at.todo) <= Cardinality(Participant)
                         /\ Cardinality(at.todo) \in Nat
    BY FiniteAssumption, FS_Subset, AdvanceProps DEF Walk
  <2> QED BY <2>1, <2>2 DEF ToList
<1>4. ASSUME NEW w \in [Walk -> Results], NEW at \in Walk PROVE ListingStep(w, at) \in Results
  <2>1. at.listed \in Results
    BY DEF Walk
  <2> HIDE DEF Results
  <2> QED BY <2>1, ListingProceeds DEF ListingStep
<1>5. step \in [[Walk -> Results] -> [Walk -> Results]]
  <2> HIDE DEF Results
  <2> QED BY <1>4
<1>6. ASSUME NEW v \in [Walk -> Results], NEW w \in [Walk -> Results], NEW at \in Walk,
             \A y \in Walk : distance[y] < distance[at] => v[y] = w[y]
      PROVE  ListingStep(v, at) = ListingStep(w, at)
  <2>1. \A y \in Walk : ToList(y) < ToList(at) => v[y] = w[y]
    BY <1>6
  <2>2. at.todo # {} /\ Paired(at) => v[Passed(at)] = w[Passed(at)]
    BY <2>1, ListingProceeds
  <2>3. at.todo # {} /\ ~Paired(at) => v[Emplaced(at)] = w[Emplaced(at)]
    BY <2>1, ListingProceeds
  <2> QED BY <2>2, <2>3 DEF ListingStep
<1>7. IsWalk(Walk, Results, distance, bound, step)
  <2>1. \A v, w \in [Walk -> Results], x \in Walk :
            (\A y \in Walk : distance[y] < distance[x] => v[y] = w[y]) => step[v][x] = step[w][x]
    <3> HIDE DEF Results, distance
    <3> QED BY <1>6
  <2>2. Results # {}
    OBVIOUS
  <2> HIDE DEF Results, distance, step, bound
  <2> QED BY <1>2, <1>3, <1>5, <2>1, <2>2 DEF IsWalk
<1>8. PICK w \in [Walk -> Results] : w = step[w]
  <2> HIDE DEF Results, distance, step, bound
  <2> QED BY <1>7, WalkExists
<1>9. w = [at \in Walk |-> ListingStep(w, at)]
  <2> HIDE DEF Results
  <2> QED BY <1>8
<1>10. Listing = [at \in Walk |-> ListingStep(Listing, at)]
  BY <1>1, <1>9
<1> QED BY <1>10

\* takeSnapshot lists the participants of the process and those the image has
\* databases of, each once, whatever their order.
THEOREM ListedIsUnion ==
    ASSUME NEW managed \in SUBSET Participant, NEW reporting \in SUBSET Participant
    PROVE  Listed(managed, reporting) = managed \cup reporting
<1> DEFINE Right(at) == at.ahead \subseteq at.listed => Listing[at] = at.listed \cup at.todo
           T == {ToList(at) : at \in {other \in Walk : ~Right(other)}}
           start == [todo |-> managed, listed |-> reporting, ahead |-> reporting]
<1>1. T \in SUBSET Nat
  BY ListingProceeds
<1>2. \A at \in Walk : Right(at)
  <2> SUFFICES ASSUME NEW bad \in Walk, ~Right(bad) PROVE FALSE
    OBVIOUS
  <2>1. PICK n \in T : \A k \in T : n <= k
    <3>1. T # {}
      <4> HIDE DEF Right
      <4> QED OBVIOUS
    <3> HIDE DEF T
    <3> QED BY <1>1, <3>1, LeastElement
  <2>2. PICK at \in Walk : ~Right(at) /\ ToList(at) = n
    <3> HIDE DEF Right
    <3> QED OBVIOUS
  <2>3. ASSUME NEW other \in Walk, ToList(other) < ToList(at) PROVE Right(other)
    <3> SUFFICES ASSUME ~Right(other) PROVE FALSE
      OBVIOUS
    <3>1. ToList(other) \in T
      <4> HIDE DEF Right
      <4> QED OBVIOUS
    <3>2. n <= ToList(other) /\ n \in Nat /\ ToList(other) \in Nat
      BY <1>1, <2>1, <3>1
    <3> QED BY <2>2, <2>3, <3>2
  <2>4. /\ at.todo \in SUBSET Participant /\ at.ahead \in SUBSET Participant
        /\ at.ahead \subseteq at.listed /\ Listing[at] # at.listed \cup at.todo
    BY <2>2 DEF Walk
  <2>5. Listing[at] = ListingStep(Listing, at)
    BY ListingUnfolds
  <2>6. at.todo # {}
    BY <2>4, <2>5 DEF ListingStep
  <2>7. First(at.todo) \in at.todo
    BY <2>4, <2>6, AdvanceProps
  <2>8. CASE Paired(at)
    <3>1. Passed(at) \in Walk /\ ToList(Passed(at)) < ToList(at)
      BY <2>6, <2>8, ListingProceeds
    <3>2. Listing[at] = Listing[Passed(at)]
      BY <2>5, <2>6, <2>8 DEF ListingStep
    <3>3. /\ Passed(at).todo = at.todo \ {First(at.todo)}
          /\ Passed(at).listed = at.listed
          /\ Passed(at).ahead \subseteq at.ahead
      BY DEF Passed, Advance, Walk
    <3>4. First(at.todo) \in at.listed
      BY <2>4, <2>8, AdvanceProps DEF Paired
    <3>5. Right(Passed(at))
      BY <2>3, <3>1
    <3>6. Listing[Passed(at)] = at.listed \cup (at.todo \ {First(at.todo)})
      BY <2>4, <3>3, <3>5
    <3> QED BY <2>4, <2>7, <3>2, <3>4, <3>6
  <2>9. CASE ~Paired(at)
    <3>1. Emplaced(at) \in Walk /\ ToList(Emplaced(at)) < ToList(at)
      BY <2>6, <2>9, ListingProceeds
    <3>2. Listing[at] = Listing[Emplaced(at)]
      BY <2>5, <2>6, <2>9 DEF ListingStep
    <3>3. /\ Emplaced(at).todo = at.todo
          /\ Emplaced(at).listed = at.listed \cup {First(at.todo)}
          /\ Emplaced(at).ahead \subseteq Emplaced(at).listed
      BY DEF Emplaced
    <3>4. Right(Emplaced(at))
      BY <2>3, <3>1
    <3>5. Listing[Emplaced(at)] = at.listed \cup {First(at.todo)} \cup at.todo
      BY <3>3, <3>4
    <3> QED BY <2>4, <2>7, <3>2, <3>5
  <2> QED BY <2>8, <2>9
<1>3. start \in Walk /\ start.ahead \subseteq start.listed
  BY DEF Walk
<1>4. Listing[start] = reporting \cup managed
  BY <1>2, <1>3
<1> QED BY <1>4 DEF Listed

=============================================================================
