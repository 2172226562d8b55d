------------------------- MODULE Activities_proofs -------------------------
(***************************************************************************)
(* Proofs about Activities: the types of the desks and waiting lists, that *)
(* nobody waits beside a free desk, that no start of a rite is missed, that*)
(* whoever hosts or waits is in the channel, and that the desks and lists  *)
(* keep the promise of RiteQueue.                                          *)
(***************************************************************************)
EXTENDS Activities, FiniteSetTheorems, SequenceTheorems, WellFoundedInduction, TLAPS

-----------------------------------------------------------------------------
(* The first of a set of indexes, and the elements kept of a sequence.     *)

(* A set of natural numbers that is not empty has a least element: the     *)
(* loops that look for a desk, a seat or a turn find one if there is one.  *)
LEMMA FirstIn ==
  ASSUME NEW S, S \subseteq Nat, S # {}
  PROVE  First(S) \in S /\ \A m \in S : First(S) <= m
<1>1. PICK n \in S : \A m \in S : ~(<<m, n>> \in OpToRel(<, Nat))
  BY WFMin, NatLessThanWellFounded, Zenon
<1>2. \A m \in S : n <= m
  <2>. SUFFICES ASSUME NEW m \in S PROVE n <= m
    OBVIOUS
  <2>1. m \in Nat /\ n \in Nat
    OBVIOUS
  <2>2. ~(m < n)
    BY <1>1, <2>1, Zenon DEF OpToRel
  <2>. QED
    BY <2>1, <2>2
<1>. QED
  BY <1>2 DEF First

(* Among the elements of a finite set of numbers there is a j-th one. *)
LEMMA Ranked ==
  ASSUME NEW n \in Nat, NEW S \in SUBSET (1 .. n), NEW j \in 1 .. Cardinality(S)
  PROVE  \E i \in S : Cardinality({m \in S : m <= i}) = j
<1>. DEFINE Below(i) == {m \in S : m <= i}
            Reach == {i \in 0 .. n : Cardinality(Below(i)) >= j}
<1>1. IsFiniteSet(S) /\ Cardinality(S) \in Nat
  <2>1. IsFiniteSet(1 .. n)
    BY FS_Interval
  <2>. QED
    BY <2>1, FS_Subset, FS_CardinalityType
<1>2. \A i \in 0 .. n : IsFiniteSet(Below(i)) /\ Cardinality(Below(i)) \in Nat
  BY <1>1, FS_Subset, FS_CardinalityType
<1>3. Below(n) = S /\ Below(0) = {}
  <2>1. \A m \in S : m <= n /\ ~(m <= 0)
    OBVIOUS
  <2>. QED
    BY <2>1
<1>4. n \in Reach
  BY <1>1, <1>3
<1>5. PICK k \in Reach : \A m \in Reach : k <= m
  <2>. HIDE DEF Reach
  <2>1. Reach \subseteq Nat
    BY DEF Reach
  <2>. QED
    BY <1>4, <2>1, FirstIn
<1>6. Cardinality(Below(0)) = 0
  BY <1>3, FS_EmptySet
<1>7. k \in 1 .. n
  BY <1>1, <1>5, <1>6
<1>8. k - 1 \notin Reach /\ k - 1 \in 0 .. n
  <2>1. k - 1 < k /\ k - 1 \in 0 .. n
    BY <1>7
  <2>2. k - 1 \notin Reach
    <3>. HIDE DEF Reach
    <3>1. k - 1 \in Reach => k <= k - 1
      BY <1>5
    <3>. QED
      BY <1>7, <3>1
  <2>. QED
    BY <2>1, <2>2
<1>9. k \in S /\ Below(k) = Below(k - 1) \cup {k}
  <2>1. \A m \in S : m <= k <=> m <= k - 1 \/ m = k
    BY <1>7
  <2>2. k \in S
    <3>1. SUFFICES ASSUME k \notin S PROVE FALSE
      OBVIOUS
    <3>2. \A m \in S : m <= k <=> m <= k - 1
      BY <2>1, <3>1
    <3>3. Below(k) = Below(k - 1)
      BY <3>2
    <3>. QED
      BY <1>5, <1>8, <3>3
  <2>. QED
    BY <1>7, <2>1, <2>2
<1>10. Cardinality(Below(k)) = Cardinality(Below(k - 1)) + 1
  <2>1. k \notin Below(k - 1)
    BY <1>7
  <2>. QED
    BY <1>2, <1>8, <1>9, <2>1, FS_AddElement
<1>11. Cardinality(Below(k)) = j
  <2>. HIDE DEF Below
  <2>1. Cardinality(Below(k)) >= j /\ ~(Cardinality(Below(k - 1)) >= j)
    BY <1>5, <1>8
  <2>2. Cardinality(Below(k - 1)) \in Nat /\ j \in Nat
    BY <1>2, <1>8, <1>1
  <2>. QED
    BY <1>10, <2>1, <2>2
<1>. QED
  BY <1>9, <1>11

(* What is kept of a sequence is a sequence of elements of the kept places.*)
LEMMA KeptElements ==
  ASSUME NEW E, NEW w \in Seq(E), NEW S \in SUBSET DOMAIN w
  PROVE  /\ Kept(w, S) \in Seq(E)
         /\ \A j \in DOMAIN Kept(w, S) : \E i \in S : Kept(w, S)[j] = w[i]
<1>. DEFINE Place(j) == CHOOSE i \in S : Cardinality({m \in S : m <= i}) = j
<1>1. Len(w) \in Nat /\ DOMAIN w = 1 .. Len(w)
  OBVIOUS
<1>2. Cardinality(S) \in Nat
  <2>1. IsFiniteSet(1 .. Len(w)) /\ S \in SUBSET (1 .. Len(w))
    BY <1>1, FS_Interval
  <2>. QED
    BY <2>1, FS_Subset, FS_CardinalityType
<1>3. \A j \in 1 .. Cardinality(S) : Place(j) \in S
  BY <1>1, Ranked
<1>4. \A j \in 1 .. Cardinality(S) : Kept(w, S)[j] = w[Place(j)]
  BY DEF Kept
<1>5. DOMAIN Kept(w, S) = 1 .. Cardinality(S)
  BY DEF Kept
<1>. HIDE DEF Place
<1>6. \A j \in 1 .. Cardinality(S) : w[Place(j)] \in E
  BY <1>1, <1>3
<1>7. Kept(w, S) \in [1 .. Cardinality(S) -> E]
  BY <1>4, <1>5, <1>6 DEF Kept
<1>8. Kept(w, S) \in Seq(E)
  BY <1>2, <1>7
<1>. QED
  BY <1>3, <1>4, <1>5, <1>8
-----------------------------------------------------------------------------
(* The inductive invariant, place by place.                                *)

(* A rite of many that is not over: its host sits on seat 0, nobody is     *)
(* still to answer once the host has said GO, and somebody is still to     *)
(* start as long as it is not marked started.                              *)
SeatsOK(x) ==
  x.host # NoUser /\ IsMulti(x) =>
    /\ Host(x) = x.host
    /\ x.flag = "no" => x.users[0].status = "READY"
    /\ x.flag # "no" => \A i \in Seats : x.users[i].who # NoUser =>
                                          x.users[i].status \in {"READY", "START"}
GoOK(x) == x.host # NoUser /\ IsMulti(x) /\ x.flag = "go" => ~AllStarted(x)
DeskOK(x) == /\ x \in DeskTypes
             /\ x.host = NoUser => x = FreeDesk
             /\ ~LateInvites => SeatsOK(x) /\ GoOK(x)

(* A waiting rite has a host, who is ready for it. *)
EntryOK(e) == /\ e \in Entries
              /\ Host(e) \in Users
              /\ IsMulti(e) => e.users[0].status = "READY"

PlaceOK(a, p) ==
  /\ a \in [desk : [Desks(p) -> DeskTypes], wait : Seq(Entries)]
  /\ \A d \in Desks(p) : DeskOK(a.desk[d])
  /\ \A i \in DOMAIN a.wait : EntryOK(a.wait[i])
  /\ a.wait # <<>> => \A d \in Desks(p) : a.desk[d].host # NoUser

IInv == /\ place \in [Users -> {"here", "elsewhere", "offline"}]
        /\ DOMAIN act = Positions
        /\ \A p \in Positions : PlaceOK(act[p], p)
-----------------------------------------------------------------------------
(* What the operations on a desk or on an entry preserve.                  *)

LEMMA SeatSet == /\ 0 \in Seats /\ Seats \subseteq Nat /\ Joins \subseteq Seats
                 /\ 0 \notin Joins
  BY GuestsOK DEF Seats, Joins

LEMMA FreeDeskOK == DeskOK(FreeDesk)
  BY SeatSet DEF DeskOK, FreeDesk, DeskTypes, SeatTypes, Statuses, Nobody, SeatsOK, GoOK

(* The seat of a guest is not the host's. *)
LEMMA SeatOfGuest ==
  ASSUME NEW x, NEW u, Joined(x, u)
  PROVE  SeatOf(x, u) \in Joins /\ x.users[SeatOf(x, u)].who = u
<1>. DEFINE S == {i \in Joins : x.users[i].who = u}
<1>1. S # {} /\ S \subseteq Nat
  BY SeatSet DEF Joined
<1>2. First(S) \in S
  <2>. HIDE DEF S
  <2>. QED
    BY <1>1, FirstIn
<1>. QED
  BY <1>2 DEF SeatOf

(* Whoever marks a rite as started when all have started it leaves a rite  *)
(* that is not marked with somebody still to start.                        *)
LEMMA CheckOK ==
  ASSUME NEW x \in DeskTypes, x.host = NoUser => x = FreeDesk,
         ~LateInvites => SeatsOK(x)
  PROVE  /\ DeskOK(CheckMultiactAllStarted(x))
         /\ CheckMultiactAllStarted(x).host = x.host
<1>. DEFINE y == [x EXCEPT !.flag = "started"]
<1>1. CASE x.host # NoUser /\ x.flag # "started" /\ AllStarted(x)
  <2>1. CheckMultiactAllStarted(x) = y
    BY <1>1 DEF CheckMultiactAllStarted
  <2>2. y \in DeskTypes /\ y.host = x.host /\ y.type = x.type /\ y.users = x.users
        /\ y.flag = "started"
    BY DEF DeskTypes
  <2>. HIDE DEF y
  <2>3. ~LateInvites => SeatsOK(y)
    BY <1>1, <2>2, SeatSet DEF SeatsOK, Host, IsMulti, AllStarted
  <2>4. GoOK(y)
    BY <2>2 DEF GoOK
  <2>. QED
    BY <1>1, <2>1, <2>2, <2>3, <2>4 DEF DeskOK
<1>2. CASE ~(x.host # NoUser /\ x.flag # "started" /\ AllStarted(x))
  <2>1. CheckMultiactAllStarted(x) = x
    BY <1>2 DEF CheckMultiactAllStarted
  <2>2. GoOK(x)
    BY <1>2 DEF GoOK
  <2>. QED
    BY <2>1, <2>2 DEF DeskOK
<1>. QED
  BY <1>1, <1>2

(* Changing who sits on a guest's seat, with a status that fits the rite.  *)
LEMMA SeatChange ==
  ASSUME NEW x, DeskOK(x), x.host # NoUser, NEW j \in Joins, NEW s \in SeatTypes,
         s.who = NoUser \/ s.status \in {"READY", "START"} \/ x.flag = "no"
  PROVE  LET y == [x EXCEPT !.users[j] = s]
         IN /\ y \in DeskTypes /\ y.host = x.host /\ y.flag = x.flag
            /\ ~LateInvites => SeatsOK(y)
<1>. DEFINE y == [x EXCEPT !.users[j] = s]
<1>1. x \in DeskTypes /\ j \in Seats /\ j # 0
  BY SeatSet DEF DeskOK
<1>2. /\ y \in DeskTypes /\ y.host = x.host /\ y.flag = x.flag /\ y.type = x.type
      /\ y.users[j] = s /\ \A i \in Seats \ {j} : y.users[i] = x.users[i]
  BY <1>1 DEF DeskTypes
<1>3. ~LateInvites => SeatsOK(y)
  <2>. HIDE DEF y
  <2>. QED
    BY <1>1, <1>2, SeatSet DEF DeskOK, SeatsOK, Host, IsMulti
<1>. QED
  BY <1>2, <1>3

(* The same while GO has not been said, when nobody can have started.      *)
LEMMA SeatChangeBefore ==
  ASSUME NEW x, DeskOK(x), x.host # NoUser, NEW j \in Joins, NEW s \in SeatTypes,
         x.flag = "no"
  PROVE  DeskOK([x EXCEPT !.users[j] = s]) /\ [x EXCEPT !.users[j] = s].host = x.host
<1>. DEFINE y == [x EXCEPT !.users[j] = s]
<1>1. /\ y \in DeskTypes /\ y.host = x.host /\ y.flag = x.flag
      /\ ~LateInvites => SeatsOK(y)
  BY SeatChange
<1>. HIDE DEF y
<1>. QED
  BY <1>1 DEF DeskOK, GoOK, y

LEMMA EntryChange ==
  ASSUME NEW e, EntryOK(e), NEW j \in Joins, NEW s \in SeatTypes
  PROVE  /\ EntryOK([e EXCEPT !.users[j] = s])
         /\ Host([e EXCEPT !.users[j] = s]) = Host(e)
<1>. DEFINE y == [e EXCEPT !.users[j] = s]
<1>1. j \in Seats /\ j # 0 /\ 0 \in Seats /\ e \in Entries
  BY SeatSet DEF EntryOK
<1>2. y \in Entries /\ y.type = e.type /\ y.users[0] = e.users[0]
  BY <1>1 DEF Entries
<1>. QED
  BY <1>2 DEF EntryOK, Host, IsMulti

LEMMA NobodySits == Nobody \in SeatTypes /\ Nobody.who = NoUser
                    /\ \A u \in Users : Asked(u) \in SeatTypes
  BY DEF Nobody, Asked, SeatTypes, Statuses

(* A guest who gives up his seat. *)
LEMMA GiveUpDesk ==
  ASSUME NEW x, DeskOK(x), x.host # NoUser, NEW u, Joined(x, u), NEW c
  PROVE  /\ DeskOK(CheckMultiactAllStarted(GiveUp(x, u, c)))
         /\ CheckMultiactAllStarted(GiveUp(x, u, c)).host = x.host
<1>. DEFINE y == GiveUp(x, u, c)
<1>1. y \in DeskTypes /\ y.host = x.host /\ (~LateInvites => SeatsOK(y))
  <2>1. y = x \/ y = [x EXCEPT !.users[SeatOf(x, u)] = Nobody]
    BY DEF GiveUp
  <2>2. SeatOf(x, u) \in Joins
    BY SeatOfGuest
  <2>. HIDE DEF y
  <2>3. CASE y = x
    BY <2>3 DEF DeskOK
  <2>4. CASE y = [x EXCEPT !.users[SeatOf(x, u)] = Nobody]
    BY <2>2, <2>4, SeatChange, NobodySits
  <2>. QED
    BY <2>1, <2>3, <2>4
<1>. HIDE DEF y
<1>2. DeskOK(CheckMultiactAllStarted(y)) /\ CheckMultiactAllStarted(y).host = y.host
  BY <1>1, CheckOK
<1>. QED
  BY <1>1, <1>2 DEF y

LEMMA GiveUpTurn ==
  ASSUME NEW e, EntryOK(e), NEW u, Joined(e, u), NEW c
  PROVE  EntryOK(GiveUp(e, u, c)) /\ Host(GiveUp(e, u, c)) = Host(e)
<1>1. SeatOf(e, u) \in Joins
  BY SeatOfGuest
<1>2. EntryOK([e EXCEPT !.users[SeatOf(e, u)] = Nobody])
      /\ Host([e EXCEPT !.users[SeatOf(e, u)] = Nobody]) = Host(e)
  BY <1>1, EntryChange, NobodySits
<1>. QED
  BY <1>2 DEF GiveUp
-----------------------------------------------------------------------------
(* What they preserve of a place.                                          *)

LEMMA NewPlace ==
  ASSUME NEW p \in Positions, NEW f \in [Desks(p) -> DeskTypes], NEW w \in Seq(Entries),
         \A d \in Desks(p) : DeskOK(f[d]), \A i \in DOMAIN w : EntryOK(w[i]),
         w # <<>> => \A d \in Desks(p) : f[d].host # NoUser
  PROVE  PlaceOK([desk |-> f, wait |-> w], p)
BY DEF PlaceOK

LEMMA DeskChange ==
  ASSUME NEW p \in Positions, NEW a, PlaceOK(a, p), NEW d \in Desks(p), NEW x, DeskOK(x),
         a.wait # <<>> => x.host # NoUser
  PROVE  /\ PlaceOK([a EXCEPT !.desk[d] = x], p)
         /\ PlaceOK([desk |-> [a.desk EXCEPT ![d] = x], wait |-> a.wait], p)
<1>. DEFINE f == [a.desk EXCEPT ![d] = x]
<1>1. a \in [desk : [Desks(p) -> DeskTypes], wait : Seq(Entries)] /\ x \in DeskTypes
  BY DEF PlaceOK, DeskOK
<1>2. /\ f \in [Desks(p) -> DeskTypes] /\ f[d] = x
      /\ \A c \in Desks(p) \ {d} : f[c] = a.desk[c]
  BY <1>1
<1>3. [a EXCEPT !.desk[d] = x] = [desk |-> f, wait |-> a.wait]
  BY <1>1
<1>. HIDE DEF f
<1>4. PlaceOK([desk |-> f, wait |-> a.wait], p)
  BY <1>2 DEF PlaceOK
<1>. QED
  BY <1>3, <1>4 DEF f

LEMMA WaitChange ==
  ASSUME NEW p \in Positions, NEW a, PlaceOK(a, p), NEW w \in Seq(Entries),
         \A i \in DOMAIN w : EntryOK(w[i]),
         w # <<>> => \A d \in Desks(p) : a.desk[d].host # NoUser
  PROVE  PlaceOK([a EXCEPT !.wait = w], p)
<1>1. a \in [desk : [Desks(p) -> DeskTypes], wait : Seq(Entries)]
  BY DEF PlaceOK
<1>2. [a EXCEPT !.wait = w] = [desk |-> a.desk, wait |-> w]
  BY <1>1
<1>. QED
  BY <1>1, <1>2 DEF PlaceOK

LEMMA TurnChange ==
  ASSUME NEW w \in Seq(Entries), \A i \in DOMAIN w : EntryOK(w[i]),
         NEW k \in DOMAIN w, NEW e, EntryOK(e)
  PROVE  /\ [w EXCEPT ![k] = e] \in Seq(Entries)
         /\ \A i \in DOMAIN [w EXCEPT ![k] = e] : EntryOK([w EXCEPT ![k] = e][i])
         /\ w # <<>> /\ [w EXCEPT ![k] = e] # <<>>
<1>1. e \in Entries
  BY DEF EntryOK
<1>. QED
  BY <1>1

LEMMA RestOK ==
  ASSUME NEW w \in Seq(Entries), \A i \in DOMAIN w : EntryOK(w[i]),
         NEW k \in Nat, NEW u
  PROVE  Rest(w, k, u) \in Seq(Entries) /\ \A i \in DOMAIN Rest(w, k, u) : EntryOK(Rest(w, k, u)[i])
<1>. DEFINE S == {i \in k + 1 .. Len(w) : Host(w[i]) # u /\ Online(Host(w[i]))}
<1>1. S \in SUBSET DOMAIN w
  OBVIOUS
<1>. HIDE DEF S
<1>2. Kept(w, S) \in Seq(Entries) /\ \A j \in DOMAIN Kept(w, S) : \E i \in S : Kept(w, S)[j] = w[i]
  BY <1>1, KeptElements
<1>3. \A j \in DOMAIN Kept(w, S) : EntryOK(Kept(w, S)[j])
  BY <1>1, <1>2
<1>. QED
  BY <1>2, <1>3 DEF Rest, S

LEMMA UnqueueOK ==
  ASSUME NEW w \in Seq(Entries), \A i \in DOMAIN w : EntryOK(w[i]), NEW u
  PROVE  /\ Unqueue(w, u) \in Seq(Entries)
         /\ \A i \in DOMAIN Unqueue(w, u) : EntryOK(Unqueue(w, u)[i])
         /\ Unqueue(w, u) # <<>> => w # <<>>
<1>. DEFINE own == {i \in DOMAIN w : Host(w[i]) = u}
            k == First(own)
<1>1. CASE own = {}
  BY <1>1 DEF Unqueue
<1>2. CASE own # {}
  <2>1. own \subseteq Nat /\ w # <<>>
    BY <1>2
  <2>2. k \in own
    <3>. HIDE DEF own
    <3>. QED
      BY <1>2, <2>1, FirstIn
  <2>3. k \in 1 .. Len(w)
    BY <2>2
  <2>. DEFINE v == SubSeq(w, 1, k - 1)
              r == Rest(w, k, u)
  <2>4. Unqueue(w, u) = v \o r
    BY <1>2 DEF Unqueue
  <2>. HIDE DEF k
  <2>5. v \in Seq(Entries) /\ \A i \in DOMAIN v : EntryOK(v[i])
    BY <2>3
  <2>6. r \in Seq(Entries) /\ \A i \in DOMAIN r : EntryOK(r[i])
    BY <2>3, RestOK
  <2>. HIDE DEF v, r
  <2>7. v \o r \in Seq(Entries) /\ \A i \in DOMAIN (v \o r) : EntryOK((v \o r)[i])
    BY <2>5, <2>6
  <2>. QED
    BY <2>1, <2>4, <2>7
<1>. QED
  BY <1>1, <1>2

LEMMA PromoteOK ==
  ASSUME NEW e, EntryOK(e)
  PROVE  DeskOK(Promote(e)) /\ Promote(e).host # NoUser
<1>. DEFINE x == Promote(e)
<1>1. /\ x \in DeskTypes /\ x.host = Host(e) /\ x.flag = "no" /\ x.type = e.type
      /\ x.users = e.users
  BY DEF Promote, EntryOK, Entries, DeskTypes
<1>2. x.host # NoUser
  BY <1>1, UsersOK DEF EntryOK
<1>. HIDE DEF x
<1>. QED
  BY <1>1, <1>2 DEF DeskOK, SeatsOK, GoOK, EntryOK, Host, IsMulti, x

(* A desk that is given up goes to the first waiting host who is there, or *)
(* becomes free with nobody left in the line.                              *)
LEMMA PassOnOK ==
  ASSUME NEW p \in Positions, NEW a, PlaceOK(a, p), NEW d \in Desks(p), NEW u
  PROVE  PlaceOK(PassOn(a, d, u), p)
<1>. DEFINE there == {i \in DOMAIN a.wait : Online(Host(a.wait[i]))}
            k == First(there)
<1>1. /\ a.desk \in [Desks(p) -> DeskTypes] /\ a.wait \in Seq(Entries)
      /\ \A c \in Desks(p) : DeskOK(a.desk[c])
      /\ \A i \in DOMAIN a.wait : EntryOK(a.wait[i])
      /\ a.wait # <<>> => \A c \in Desks(p) : a.desk[c].host # NoUser
  BY DEF PlaceOK
<1>2. CASE there = {}
  <2>. DEFINE f == [a.desk EXCEPT ![d] = FreeDesk]
  <2>1. PassOn(a, d, u) = [desk |-> f, wait |-> <<>>]
    BY <1>2 DEF PassOn
  <2>2. FreeDesk \in DeskTypes
    BY FreeDeskOK DEF DeskOK
  <2>3. f \in [Desks(p) -> DeskTypes] /\ \A c \in Desks(p) : DeskOK(f[c])
    BY <1>1, <2>2, FreeDeskOK
  <2>. HIDE DEF f
  <2>4. <<>> \in Seq(Entries) /\ DOMAIN <<>> = {}
    OBVIOUS
  <2>5. PlaceOK([desk |-> f, wait |-> <<>>], p)
    BY <2>3, <2>4, NewPlace
  <2>. QED
    BY <2>1, <2>5
<1>3. CASE there # {}
  <2>1. k \in there
    <3>1. there \subseteq Nat
      BY <1>1
    <3>. HIDE DEF there
    <3>. QED
      BY <1>3, <3>1, FirstIn
  <2>2. k \in DOMAIN a.wait /\ k \in Nat /\ a.wait # <<>>
    BY <1>1, <2>1
  <2>. DEFINE x == Promote(a.wait[k])
              f == [a.desk EXCEPT ![d] = x]
              w == Rest(a.wait, k, u)
  <2>3. PassOn(a, d, u) = [desk |-> f, wait |-> w]
    BY <1>3 DEF PassOn
  <2>. HIDE DEF k
  <2>4. DeskOK(x) /\ x.host # NoUser
    BY <1>1, <2>2, PromoteOK
  <2>. HIDE DEF x
  <2>5. /\ f \in [Desks(p) -> DeskTypes] /\ \A c \in Desks(p) : DeskOK(f[c])
        /\ \A c \in Desks(p) : f[c].host # NoUser
    BY <1>1, <2>2, <2>4 DEF DeskOK
  <2>6. w \in Seq(Entries) /\ \A i \in DOMAIN w : EntryOK(w[i])
    BY <1>1, <2>2, RestOK
  <2>. HIDE DEF f, w
  <2>7. PlaceOK([desk |-> f, wait |-> w], p)
    BY <2>5, <2>6, NewPlace
  <2>. QED
    BY <2>3, <2>7
<1>. QED
  BY <1>2, <1>3

(* The first desk or turn of u in a place. *)
LEMMA DeskOf ==
  ASSUME NEW p \in Positions, NEW a, PlaceOK(a, p), NEW u, DesksOf(a, u) # {}
  PROVE  LET d == First(DesksOf(a, u))
         IN d \in Desks(p) /\ DeskOK(a.desk[d]) /\ AtDesk(a.desk[d], u)
<1>1. DesksOf(a, u) \subseteq Desks(p) /\ Desks(p) \subseteq Nat
  BY DesksOK DEF DesksOf, PlaceOK, Desks
<1>2. First(DesksOf(a, u)) \in DesksOf(a, u)
  BY <1>1, FirstIn
<1>. QED
  BY <1>1, <1>2 DEF DesksOf, PlaceOK

LEMMA TurnOf ==
  ASSUME NEW p \in Positions, NEW a, PlaceOK(a, p), NEW u, TurnsOf(a, u) # {}
  PROVE  LET i == First(TurnsOf(a, u))
         IN i \in DOMAIN a.wait /\ EntryOK(a.wait[i]) /\ InLine(a.wait[i], u)
<1>1. TurnsOf(a, u) \subseteq DOMAIN a.wait /\ DOMAIN a.wait \subseteq Nat
  BY DEF TurnsOf, PlaceOK
<1>2. First(TurnsOf(a, u)) \in TurnsOf(a, u)
  BY <1>1, FirstIn
<1>. QED
  BY <1>1, <1>2 DEF TurnsOf, PlaceOK

(* Whatever part u has in the rites of a place, it is given up cleanly. *)
LEMMA CancelOK ==
  ASSUME NEW p \in Positions, NEW a, PlaceOK(a, p), NEW u \in Users, NEW c
  PROVE  PlaceOK(ActWaitCancel(a, u, c), p)
<1>. DEFINE d == First(DesksOf(a, u))
            i == First(TurnsOf(a, u))
<1>1. /\ a \in [desk : [Desks(p) -> DeskTypes], wait : Seq(Entries)]
      /\ \A e \in Desks(p) : DeskOK(a.desk[e])
      /\ \A j \in DOMAIN a.wait : EntryOK(a.wait[j])
      /\ a.wait # <<>> => \A e \in Desks(p) : a.desk[e].host # NoUser
  BY DEF PlaceOK
<1>2. CASE DesksOf(a, u) # {}
  <2>1. d \in Desks(p) /\ DeskOK(a.desk[d]) /\ AtDesk(a.desk[d], u)
    BY <1>2, DeskOf
  <2>2. CASE a.desk[d].host = u
    <3>1. ActWaitCancel(a, u, c) = PassOn(a, d, u)
      BY <1>2, <2>2 DEF ActWaitCancel
    <3>. HIDE DEF d
    <3>. QED
      BY <2>1, <3>1, PassOnOK
  <2>3. CASE a.desk[d].host # u
    <3>. DEFINE x == CheckMultiactAllStarted(GiveUp(a.desk[d], u, c))
                f == [a.desk EXCEPT ![d] = x]
                w == Unqueue(a.wait, u)
    <3>1. ActWaitCancel(a, u, c) = [desk |-> f, wait |-> w]
      BY <1>2, <2>3 DEF ActWaitCancel
    <3>. HIDE DEF d
    <3>2. a.desk[d].host # NoUser /\ Joined(a.desk[d], u)
      BY <2>1, <2>3 DEF AtDesk
    <3>3. DeskOK(x) /\ x.host = a.desk[d].host
      BY <2>1, <3>2, GiveUpDesk
    <3>. HIDE DEF x
    <3>4. /\ f \in [Desks(p) -> DeskTypes] /\ \A e \in Desks(p) : DeskOK(f[e])
          /\ \A e \in Desks(p) : f[e].host = a.desk[e].host
      BY <1>1, <2>1, <3>3 DEF DeskOK
    <3>5. /\ w \in Seq(Entries) /\ \A j \in DOMAIN w : EntryOK(w[j])
          /\ w # <<>> => a.wait # <<>>
      BY <1>1, UnqueueOK
    <3>. HIDE DEF f, w
    <3>6. PlaceOK([desk |-> f, wait |-> w], p)
      BY <1>1, <3>4, <3>5, NewPlace
    <3>. QED
      BY <3>1, <3>6
  <2>. QED
    BY <2>2, <2>3
<1>3. CASE DesksOf(a, u) = {} /\ TurnsOf(a, u) # {}
  <2>1. i \in DOMAIN a.wait /\ EntryOK(a.wait[i]) /\ InLine(a.wait[i], u)
    BY <1>3, TurnOf
  <2>2. CASE Host(a.wait[i]) = u
    <3>. DEFINE w == Unqueue(a.wait, u)
    <3>1. ActWaitCancel(a, u, c) = [a EXCEPT !.wait = w]
      BY <1>3, <2>2 DEF ActWaitCancel
    <3>2. /\ w \in Seq(Entries) /\ \A j \in DOMAIN w : EntryOK(w[j])
          /\ w # <<>> => a.wait # <<>>
      BY <1>1, UnqueueOK
    <3>. HIDE DEF w
    <3>. QED
      BY <1>1, <3>1, <3>2, WaitChange
  <2>3. CASE Host(a.wait[i]) # u
    <3>. DEFINE e == GiveUp(a.wait[i], u, c)
                v == [a.wait EXCEPT ![i] = e]
                w == Unqueue(v, u)
    <3>1. ActWaitCancel(a, u, c) = [a EXCEPT !.wait = w]
      BY <1>3, <2>3 DEF ActWaitCancel
    <3>. HIDE DEF i
    <3>2. EntryOK(e)
      BY <2>1, <2>3, GiveUpTurn DEF InLine
    <3>. HIDE DEF e
    <3>3. v \in Seq(Entries) /\ (\A j \in DOMAIN v : EntryOK(v[j])) /\ a.wait # <<>>
      BY <1>1, <2>1, <3>2, TurnChange
    <3>. HIDE DEF v
    <3>4. w \in Seq(Entries) /\ \A j \in DOMAIN w : EntryOK(w[j])
      BY <3>3, UnqueueOK
    <3>. HIDE DEF w
    <3>. QED
      BY <1>1, <3>1, <3>3, <3>4, WaitChange
  <2>. QED
    BY <2>2, <2>3
<1>4. CASE DesksOf(a, u) = {} /\ TurnsOf(a, u) = {}
  BY <1>4 DEF ActWaitCancel
<1>. QED
  BY <1>2, <1>3, <1>4

(* The rite of many that u is among the users of. *)
LEMMA GroupDesk ==
  ASSUME NEW p \in Positions, NEW a, PlaceOK(a, p), NEW u \in Users, GroupDesks(a, u) # {}
  PROVE  LET d == First(GroupDesks(a, u))
         IN /\ d \in Desks(p) /\ DeskOK(a.desk[d]) /\ a.desk[d].host # NoUser
            /\ InGroup(a.desk[d], u)
<1>. DEFINE d == First(GroupDesks(a, u))
<1>1. GroupDesks(a, u) \subseteq Desks(p) /\ Desks(p) \subseteq Nat
  BY DesksOK DEF GroupDesks, PlaceOK, Desks
<1>2. d \in GroupDesks(a, u)
  BY <1>1, FirstIn
<1>. HIDE DEF d
<1>3. d \in Desks(p) /\ DeskOK(a.desk[d]) /\ InGroup(a.desk[d], u)
  BY <1>1, <1>2 DEF GroupDesks, PlaceOK
<1>4. a.desk[d].host # NoUser
  BY <1>3 DEF DeskOK, FreeDesk, InGroup, IsMulti
<1>. QED
  BY <1>3, <1>4 DEF d

LEMMA GroupTurn ==
  ASSUME NEW p \in Positions, NEW a, PlaceOK(a, p), NEW u, GroupTurns(a, u) # {}
  PROVE  LET i == First(GroupTurns(a, u))
         IN i \in DOMAIN a.wait /\ EntryOK(a.wait[i]) /\ InGroup(a.wait[i], u)
<1>1. GroupTurns(a, u) \subseteq DOMAIN a.wait /\ DOMAIN a.wait \subseteq Nat
  BY DEF GroupTurns, PlaceOK
<1>2. First(GroupTurns(a, u)) \in GroupTurns(a, u)
  BY <1>1, FirstIn
<1>. QED
  BY <1>1, <1>2 DEF GroupTurns, PlaceOK

LEMMA OneTurnChange ==
  ASSUME NEW p \in Positions, NEW a, PlaceOK(a, p), NEW i \in DOMAIN a.wait, NEW e, EntryOK(e)
  PROVE  PlaceOK([a EXCEPT !.wait[i] = e], p)
<1>. DEFINE w == [a.wait EXCEPT ![i] = e]
<1>1. /\ a \in [desk : [Desks(p) -> DeskTypes], wait : Seq(Entries)]
      /\ \A j \in DOMAIN a.wait : EntryOK(a.wait[j])
      /\ a.wait # <<>> => \A d \in Desks(p) : a.desk[d].host # NoUser
  BY DEF PlaceOK
<1>2. [a EXCEPT !.wait[i] = e] = [a EXCEPT !.wait = w]
  BY <1>1
<1>3. w \in Seq(Entries) /\ (\A j \in DOMAIN w : EntryOK(w[j])) /\ a.wait # <<>>
  BY <1>1, TurnChange
<1>. HIDE DEF w
<1>. QED
  BY <1>1, <1>2, <1>3, WaitChange

LEMMA GroupChange ==
  ASSUME NEW p \in Positions, NEW a, PlaceOK(a, p), NEW u \in Users, NEW y, NEW e,
         GroupDesks(a, u) # {} =>
           DeskOK(y) /\ y.host = a.desk[First(GroupDesks(a, u))].host,
         GroupTurns(a, u) # {} => EntryOK(e)
  PROVE  PlaceOK(IF GroupDesks(a, u) # {}
                 THEN [a EXCEPT !.desk[First(GroupDesks(a, u))] = y]
                 ELSE IF GroupTurns(a, u) # {}
                 THEN [a EXCEPT !.wait[First(GroupTurns(a, u))] = e] ELSE a, p)
<1>1. CASE GroupDesks(a, u) # {}
  BY <1>1, GroupDesk, DeskChange
<1>2. CASE GroupDesks(a, u) = {} /\ GroupTurns(a, u) # {}
  BY <1>2, GroupTurn, OneTurnChange
<1>3. CASE GroupDesks(a, u) = {} /\ GroupTurns(a, u) = {}
  BY <1>3
<1>. QED
  BY <1>1, <1>2, <1>3
-----------------------------------------------------------------------------
(* The steps: what happens at one place, at one desk, at all places.       *)

Placed == place' \in [Users -> {"here", "elsewhere", "offline"}]

LEMMA PlaceStep ==
  ASSUME IInv, Placed, NEW p \in Positions, NEW b, PlaceOK(b, p),
         act' = [act EXCEPT ![p] = b]
  PROVE  IInv'
<1>1. DOMAIN act' = Positions /\ act'[p] = b /\ \A q \in Positions \ {p} : act'[q] = act[q]
  BY DEF IInv
<1>. QED
  BY <1>1 DEF IInv, Placed, PlaceOK, DeskOK, EntryOK, SeatsOK, GoOK, Host, IsMulti, AllStarted

LEMMA DeskStep ==
  ASSUME IInv, Placed, NEW p \in Positions, NEW d \in Desks(p), NEW x, DeskOK(x),
         act[p].wait # <<>> => x.host # NoUser, act' = [act EXCEPT ![p].desk[d] = x]
  PROVE  IInv'
<1>. DEFINE b == [act[p] EXCEPT !.desk[d] = x]
<1>1. PlaceOK(b, p)
  BY DeskChange DEF IInv
<1>2. act' = [act EXCEPT ![p] = b]
  BY DEF IInv
<1>. HIDE DEF b
<1>. QED
  BY <1>1, <1>2, PlaceStep

LEMMA AllStep ==
  ASSUME Placed, NEW acts, DOMAIN acts = Positions, act' = acts,
         \A p \in Positions : PlaceOK(acts[p], p)
  PROVE  IInv'
BY DEF IInv, Placed, PlaceOK, DeskOK, EntryOK, SeatsOK, GoOK, Host, IsMulti, AllStarted

LEMMA AllCancelOK ==
  ASSUME NEW acts, \A p \in Positions : PlaceOK(acts[p], p), NEW u \in Users, NEW c
  PROVE  /\ DOMAIN AllActCancel(acts, u, c) = Positions
         /\ \A p \in Positions : PlaceOK(AllActCancel(acts, u, c)[p], p)
BY CancelOK DEF AllActCancel
-----------------------------------------------------------------------------
(* The actions of one user, and a rite of one.                             *)

LEMMA ComesAndGoes ==
  ASSUME IInv, NEW u \in Users,
         LogIn(u) \/ EnterRoom(u) \/ OutRoom(u) \/ RemoveFamily(u)
  PROVE  IInv'
<1>1. Placed
  BY DEF IInv, Placed, LogIn, EnterRoom, OutRoom, RemoveFamily
<1>2. (LogIn(u) \/ EnterRoom(u)) => IInv'
  BY <1>1 DEF LogIn, EnterRoom, IInv, Placed, PlaceOK, DeskOK, EntryOK, SeatsOK, GoOK, Host,
              IsMulti, AllStarted
<1>. DEFINE once == AllActCancel(act, u, FALSE)
<1>3. DOMAIN once = Positions /\ \A p \in Positions : PlaceOK(once[p], p)
  BY AllCancelOK DEF IInv
<1>. HIDE DEF once
<1>4. ASSUME OutRoom(u) PROVE IInv'
  <2>1. act' = once
    BY <1>4 DEF OutRoom, once
  <2>. QED
    BY <1>1, <1>3, <2>1, AllStep
<1>5. ASSUME RemoveFamily(u) PROVE IInv'
  <2>. DEFINE b == IF Here(u) THEN once ELSE act
              c == AllActCancel(b, u, TRUE)
  <2>1. \A p \in Positions : PlaceOK(b[p], p)
    BY <1>3 DEF IInv
  <2>. HIDE DEF b
  <2>2. DOMAIN c = Positions /\ \A p \in Positions : PlaceOK(c[p], p)
    BY <2>1, AllCancelOK
  <2>3. act' = c
    BY <1>5 DEF RemoveFamily, b, once
  <2>. HIDE DEF c
  <2>. QED
    BY <1>1, <2>2, <2>3, AllStep
<1>. QED
  BY <1>2, <1>4, <1>5

(* A free desk of a place, and the line beside taken ones. *)
LEMMA FreeDeskOf ==
  ASSUME NEW p \in Positions, NEW a, PlaceOK(a, p), Free(a) # {}
  PROVE  First(Free(a)) \in Desks(p) /\ a.desk[First(Free(a))].host = NoUser /\ a.wait = <<>>
<1>1. Free(a) \subseteq Desks(p) /\ Desks(p) \subseteq Nat
  BY DesksOK DEF Free, PlaceOK, Desks
<1>2. First(Free(a)) \in Free(a)
  BY <1>1, FirstIn
<1>. QED
  BY <1>1, <1>2 DEF Free, PlaceOK

LEMMA NewTurn ==
  ASSUME NEW p \in Positions, NEW a, PlaceOK(a, p), Free(a) = {}, NEW e, EntryOK(e)
  PROVE  PlaceOK([a EXCEPT !.wait = Append(a.wait, e)], p)
<1>. DEFINE w == Append(a.wait, e)
<1>1. /\ a \in [desk : [Desks(p) -> DeskTypes], wait : Seq(Entries)] /\ e \in Entries
      /\ \A j \in DOMAIN a.wait : EntryOK(a.wait[j])
  BY DEF PlaceOK, EntryOK
<1>2. w \in Seq(Entries) /\ \A j \in DOMAIN w : EntryOK(w[j])
  BY <1>1
<1>3. \A d \in Desks(p) : a.desk[d].host # NoUser
  BY <1>1 DEF Free
<1>. HIDE DEF w
<1>4. PlaceOK([a EXCEPT !.wait = w], p)
  BY <1>2, <1>3, WaitChange
<1>. QED
  BY <1>4 DEF w

LEMMA SingleRequest ==
  ASSUME IInv, NEW u \in Users, NEW p \in Positions, ACT_REQ(u, p)
  PROVE  IInv'
<1>1. Placed /\ PlaceOK(act[p], p) /\ u # NoUser
  BY UsersOK DEF IInv, Placed, ACT_REQ
<1>. DEFINE d == First(Free(act[p]))
            x == [FreeDesk EXCEPT !.host = u, !.type = "single"]
            e == [type |-> "single", users |-> [i \in Seats |-> IF i = 0 THEN Asked(u) ELSE Nobody]]
<1>2. CASE Free(act[p]) # {} /\ act' = [act EXCEPT ![p].desk[d] = x]
  <2>1. d \in Desks(p) /\ act[p].wait = <<>>
    BY <1>1, <1>2, FreeDeskOf
  <2>. HIDE DEF d
  <2>2. x \in DeskTypes /\ x.host = u /\ x.type = "single"
    BY <1>1, FreeDeskOK DEF DeskOK, DeskTypes, FreeDesk
  <2>. HIDE DEF x
  <2>3. DeskOK(x)
    BY <1>1, <2>2 DEF DeskOK, SeatsOK, GoOK, IsMulti
  <2>. QED
    BY <1>1, <1>2, <2>1, <2>3, DeskStep
<1>3. CASE Free(act[p]) = {} /\ act' = [act EXCEPT ![p].wait = Append(@, e)]
  <2>1. e \in Entries /\ Host(e) = u /\ ~IsMulti(e)
    BY SeatSet, NobodySits DEF Entries, Host, IsMulti, Asked
  <2>2. EntryOK(e)
    BY <2>1 DEF EntryOK
  <2>. HIDE DEF e
  <2>. DEFINE b == [act[p] EXCEPT !.wait = Append(act[p].wait, e)]
  <2>3. PlaceOK(b, p)
    BY <1>1, <1>3, <2>2, NewTurn
  <2>4. act' = [act EXCEPT ![p] = b]
    BY <1>3 DEF IInv
  <2>. HIDE DEF b
  <2>. QED
    BY <1>1, <2>3, <2>4, PlaceStep
<1>. QED
  BY <1>2, <1>3 DEF ACT_REQ

LEMMA PlaceOf ==
  ASSUME NEW u, Busy(u)
  PROVE  FirstPlace(u) \in Positions /\ BusyAt(act[FirstPlace(u)], u)
<1>. DEFINE S == {p \in Positions : BusyAt(act[p], u)}
<1>1. S # {} /\ S \subseteq Nat
  BY PlacesOK DEF Busy
<1>2. First(S) \in S
  <2>. HIDE DEF S
  <2>. QED
    BY <1>1, FirstIn
<1>. QED
  BY <1>2 DEF FirstPlace

LEMMA SingleStart ==
  ASSUME IInv, NEW u \in Users, ACT_START(u)
  PROVE  IInv'
<1>. DEFINE p == FirstPlace(u)
            d == First(DesksOf(act[p], u))
            y == [act[p].desk[d] EXCEPT !.flag = "started"]
<1>1. Placed /\ p \in Positions
  BY PlaceOf DEF IInv, Placed, ACT_START
<1>2. DesksOf(act[p], u) # {} /\ ~IsMulti(act[p].desk[d])
  BY DEF ACT_START
<1>3. act' = [act EXCEPT ![p].desk[d].flag = "started"]
  BY DEF ACT_START
<1>. HIDE DEF p
<1>4. PlaceOK(act[p], p)
  BY <1>1 DEF IInv
<1>5. d \in Desks(p) /\ DeskOK(act[p].desk[d]) /\ AtDesk(act[p].desk[d], u)
  BY <1>1, <1>2, <1>4, DeskOf
<1>6. act' = [act EXCEPT ![p].desk[d] = y]
  BY <1>1, <1>3, <1>4, <1>5 DEF IInv, PlaceOK
<1>. HIDE DEF d
<1>7. /\ y \in DeskTypes /\ y.host = act[p].desk[d].host /\ y.type = act[p].desk[d].type
      /\ act[p].desk[d].host # NoUser
  BY <1>5 DEF DeskOK, DeskTypes, AtDesk
<1>. HIDE DEF y
<1>8. DeskOK(y)
  BY <1>2, <1>7 DEF DeskOK, SeatsOK, GoOK, IsMulti
<1>. QED
  BY <1>1, <1>5, <1>6, <1>7, <1>8, DeskStep

(* Giving up one place: ending a rite, leaving its line. *)
LEMMA GivesUp ==
  ASSUME IInv, NEW u \in Users, NEW p \in Positions,
         ACT_WAIT_CANCEL(u, p) \/ ACT_RELEASE(u) \/ MULTIACT_RELEASE(u, p)
  PROVE  IInv'
<1>1. Placed
  BY DEF IInv, Placed, ACT_WAIT_CANCEL, ACT_RELEASE, MULTIACT_RELEASE
<1>2. ASSUME NEW q \in Positions, act' = [act EXCEPT ![q] = ActWaitCancel(@, u, TRUE)]
      PROVE  IInv'
  <2>1. PlaceOK(ActWaitCancel(act[q], u, TRUE), q)
    BY CancelOK DEF IInv
  <2>2. act' = [act EXCEPT ![q] = ActWaitCancel(act[q], u, TRUE)]
    BY <1>2
  <2>. QED
    BY <1>1, <2>1, <2>2, PlaceStep
<1>3. ACT_RELEASE(u) => FirstPlace(u) \in Positions
  BY PlaceOf DEF ACT_RELEASE
<1>. QED
  BY <1>2, <1>3 DEF ACT_WAIT_CANCEL, ACT_RELEASE, MULTIACT_RELEASE

LEMMA LineCloses ==
  ASSUME IInv, NEW p \in LuckAt, CancelActivityWaiting(p)
  PROVE  IInv'
<1>1. Placed /\ p \in Positions /\ PlaceOK(act[p], p)
  BY PlacesOK DEF IInv, Placed, CancelActivityWaiting
<1>. DEFINE b == [act[p] EXCEPT !.wait = <<>>]
<1>2. PlaceOK(b, p)
  <2>1. <<>> \in Seq(Entries) /\ DOMAIN <<>> = {}
    OBVIOUS
  <2>. QED
    BY <1>1, <2>1, WaitChange
<1>3. act' = [act EXCEPT ![p] = b]
  BY DEF CancelActivityWaiting, IInv
<1>. HIDE DEF b
<1>. QED
  BY <1>1, <1>2, <1>3, PlaceStep
-----------------------------------------------------------------------------
(* The actions of a rite of many.                                          *)

LEMMA PartyOK ==
  ASSUME NEW u \in Users, NEW guests \in [Joins -> Users \cup {NoUser}]
  PROVE  Party(u, guests) \in [Seats -> SeatTypes] /\ Party(u, guests)[0] = [who |-> u, status |-> "READY"]
<1>1. \A i \in Seats : i = 0 \/ i \in Joins
  BY DEF Joins
<1>2. [who |-> u, status |-> "READY"] \in SeatTypes
  BY DEF SeatTypes, Statuses
<1>3. \A i \in Seats : i # 0 /\ guests[i] # NoUser => Asked(guests[i]) \in SeatTypes
  BY <1>1, NobodySits
<1>. QED
  BY <1>2, <1>3, SeatSet, NobodySits DEF Party

LEMMA Request ==
  ASSUME IInv, NEW u \in Users, NEW p \in Positions, NEW type \in MultiTypes,
         NEW guests \in [Joins -> (Users \ {u}) \cup {NoUser}],
         MULTIACT_REQ(u, p, type, guests)
  PROVE  IInv'
<1>1. Placed /\ PlaceOK(act[p], p) /\ u # NoUser /\ guests \in [Joins -> Users \cup {NoUser}]
  BY UsersOK DEF IInv, Placed, MULTIACT_REQ
<1>. DEFINE d == First(Free(act[p]))
            us == Party(u, guests)
            x == [host |-> u, flag |-> "no", type |-> type, users |-> us]
            e == [type |-> type, users |-> us]
<1>2. CASE Free(act[p]) # {} /\ act' = [act EXCEPT ![p].desk[d] = x]
  <2>1. d \in Desks(p) /\ act[p].wait = <<>>
    BY <1>1, <1>2, FreeDeskOf
  <2>. HIDE DEF d
  <2>2. us \in [Seats -> SeatTypes] /\ us[0] = [who |-> u, status |-> "READY"]
    BY <1>1, PartyOK
  <2>. HIDE DEF us
  <2>3. DeskOK(x)
    BY <1>1, <2>2 DEF DeskOK, SeatsOK, GoOK, Host, DeskTypes
  <2>. HIDE DEF x
  <2>. QED
    BY <1>1, <1>2, <2>1, <2>3, DeskStep
<1>3. CASE Free(act[p]) = {} /\ act' = [act EXCEPT ![p].wait = Append(@, e)]
  <2>1. us \in [Seats -> SeatTypes] /\ us[0] = [who |-> u, status |-> "READY"]
    BY <1>1, PartyOK
  <2>. HIDE DEF us
  <2>2. EntryOK(e)
    BY <2>1 DEF EntryOK, Entries, Host
  <2>. HIDE DEF e
  <2>. DEFINE b == [act[p] EXCEPT !.wait = Append(act[p].wait, e)]
  <2>3. PlaceOK(b, p)
    BY <1>1, <1>3, <2>2, NewTurn
  <2>4. act' = [act EXCEPT ![p] = b]
    BY <1>3 DEF IInv
  <2>. HIDE DEF b
  <2>. QED
    BY <1>1, <2>3, <2>4, PlaceStep
<1>. QED
  BY <1>2, <1>3 DEF MULTIACT_REQ

(* An invitation, and the seats of those who are gone, for a desk ... *)
LEMMA InviteDesk ==
  ASSUME NEW x, DeskOK(x), x.host # NoUser, LateInvites \/ x.flag = "no", NEW v \in Users
  PROVE  DeskOK(AddFamily(x, v)) /\ AddFamily(x, v).host = x.host /\ AddFamily(x, v).flag = x.flag
<1>. DEFINE j == First(EmptySeats(x, Seats))
            y == [x EXCEPT !.users[j] = Asked(v)]
<1>1. CASE EmptySeats(x, Seats) = {}
  BY <1>1 DEF AddFamily
<1>2. CASE EmptySeats(x, Seats) # {}
  <2>1. j \in Seats /\ x.users[j].who = NoUser
    <3>1. EmptySeats(x, Seats) \subseteq Nat
      BY SeatSet DEF EmptySeats
    <3>2. j \in EmptySeats(x, Seats)
      BY <1>2, <3>1, FirstIn
    <3>. QED
      BY <3>2 DEF EmptySeats
  <2>2. AddFamily(x, v) = y
    BY <1>2 DEF AddFamily
  <2>. HIDE DEF j
  <2>3. /\ y \in DeskTypes /\ y.host = x.host /\ y.flag = x.flag /\ y.type = x.type
        /\ \A i \in Seats \ {j} : y.users[i] = x.users[i]
    BY <2>1, NobodySits DEF DeskOK, DeskTypes
  <2>. HIDE DEF y
  <2>4. ~LateInvites => SeatsOK(y) /\ GoOK(y)
    BY <2>1, <2>3, SeatSet DEF DeskOK, SeatsOK, GoOK, Host, IsMulti
  <2>. QED
    BY <2>2, <2>3, <2>4 DEF DeskOK
<1>. QED
  BY <1>1, <1>2

LEMMA OnlineDesk ==
  ASSUME NEW x, DeskOK(x), x.host # NoUser, LateInvites \/ x.flag = "no"
  PROVE  DeskOK(OnlyOnline(x)) /\ OnlyOnline(x).host = x.host
<1>. DEFINE us == [i \in Seats |-> IF i # 0 /\ x.users[i].who # NoUser /\ ~Online(x.users[i].who)
                                  THEN [x.users[i] EXCEPT !.who = NoUser] ELSE x.users[i]]
            y == [x EXCEPT !.users = us]
<1>1. x \in DeskTypes /\ \A i \in Seats : x.users[i] \in SeatTypes
  BY DEF DeskOK, DeskTypes
<1>2. \A i \in Seats : [x.users[i] EXCEPT !.who = NoUser] \in SeatTypes
  BY <1>1 DEF SeatTypes
<1>3. us \in [Seats -> SeatTypes] /\ us[0] = x.users[0]
  BY <1>1, <1>2, SeatSet
<1>4. OnlyOnline(x) = y
  BY <1>1 DEF OnlyOnline, DeskTypes
<1>. HIDE DEF us
<1>5. /\ y \in DeskTypes /\ y.host = x.host /\ y.flag = x.flag /\ y.type = x.type
      /\ y.users[0] = x.users[0]
  BY <1>1, <1>3 DEF DeskTypes
<1>. HIDE DEF y
<1>6. ~LateInvites => SeatsOK(y) /\ GoOK(y)
  BY <1>5 DEF DeskOK, SeatsOK, GoOK, Host, IsMulti
<1>. QED
  BY <1>4, <1>5, <1>6 DEF DeskOK

(* ... and for a waiting rite. *)
LEMMA InviteTurn ==
  ASSUME NEW e, EntryOK(e), NEW v \in Users
  PROVE  EntryOK(AddFamily(e, v))
<1>. DEFINE j == First(EmptySeats(e, Seats))
<1>1. CASE EmptySeats(e, Seats) = {}
  BY <1>1 DEF AddFamily
<1>2. CASE EmptySeats(e, Seats) # {}
  <2>1. j \in Seats /\ e.users[j].who = NoUser
    <3>1. EmptySeats(e, Seats) \subseteq Nat
      BY SeatSet DEF EmptySeats
    <3>2. j \in EmptySeats(e, Seats)
      BY <1>2, <3>1, FirstIn
    <3>. QED
      BY <3>2 DEF EmptySeats
  <2>2. j \in Joins
    BY <2>1, UsersOK DEF EntryOK, Host, Joins
  <2>. QED
    BY <1>2, <2>2, EntryChange, NobodySits DEF AddFamily
<1>. QED
  BY <1>1, <1>2

LEMMA OnlineTurn ==
  ASSUME NEW e, EntryOK(e)
  PROVE  EntryOK(OnlyOnline(e))
<1>. DEFINE us == [i \in Seats |-> IF i # 0 /\ e.users[i].who # NoUser /\ ~Online(e.users[i].who)
                                  THEN [e.users[i] EXCEPT !.who = NoUser] ELSE e.users[i]]
            y == [e EXCEPT !.users = us]
<1>1. e \in Entries /\ \A i \in Seats : e.users[i] \in SeatTypes
  BY DEF EntryOK, Entries
<1>2. \A i \in Seats : [e.users[i] EXCEPT !.who = NoUser] \in SeatTypes
  BY <1>1 DEF SeatTypes
<1>3. us \in [Seats -> SeatTypes] /\ us[0] = e.users[0]
  BY <1>1, <1>2, SeatSet
<1>4. OnlyOnline(e) = y
  BY <1>1 DEF OnlyOnline, Entries
<1>. HIDE DEF us
<1>5. y \in Entries /\ y.type = e.type /\ y.users[0] = e.users[0]
  BY <1>1, <1>3 DEF Entries
<1>. HIDE DEF y
<1>. QED
  BY <1>4, <1>5 DEF EntryOK, Host, IsMulti

LEMMA RequestAdd ==
  ASSUME IInv, NEW u \in Users, NEW p \in Positions, NEW v \in Users, MULTIACT_REQADD(u, p, v)
  PROVE  IInv'
<1>. DEFINE a == act[p]
            d == IF Waits THEN 0 ELSE First(Hosted(a, u))
            own == {i \in DOMAIN a.wait : IsMulti(a.wait[i]) /\ Host(a.wait[i]) = u}
            With(x) == OnlyOnline(IF Online(v) /\ ~Busy(v) THEN AddFamily(x, v) ELSE x)
<1>1. Placed /\ PlaceOK(a, p) /\ u # NoUser
  BY UsersOK DEF IInv, Placed, MULTIACT_REQADD
<1>2. d \in Desks(p)
  <2>1. 0 \in Desks(p)
    BY DesksOK DEF Desks
  <2>2. CASE ~Waits
    <3>1. Hosted(a, u) # {}
      BY <2>2, Zenon DEF MULTIACT_REQADD
    <3>2. Hosted(a, u) \subseteq Desks(p) /\ Desks(p) \subseteq Nat
      BY <1>1, DesksOK DEF Hosted, PlaceOK, Desks
    <3>3. First(Hosted(a, u)) \in Hosted(a, u)
      BY <3>1, <3>2, FirstIn
    <3>. QED
      BY <2>2, <3>2, <3>3
  <2>. QED
    BY <2>1, <2>2
<1>3. CASE /\ a.desk[d].host = u /\ (LateInvites \/ a.desk[d].flag = "no")
           /\ act' = [act EXCEPT ![p].desk[d] = With(@)]
  <2>. DEFINE x == With(a.desk[d])
  <2>1. act' = [act EXCEPT ![p].desk[d] = x]
    BY <1>3
  <2>. HIDE DEF d
  <2>2. DeskOK(a.desk[d]) /\ a.desk[d].host # NoUser
    BY <1>1, <1>2, <1>3 DEF PlaceOK
  <2>3. DeskOK(x) /\ x.host # NoUser
    BY <1>3, <2>2, InviteDesk, OnlineDesk
  <2>. HIDE DEF x
  <2>. QED
    BY <1>1, <1>2, <2>1, <2>3, DeskStep
<1>4. CASE own # {} /\ act' = [act EXCEPT ![p].wait[First(own)] = With(@)]
  <2>. DEFINE k == First(own)
              e == With(a.wait[k])
              b == [a EXCEPT !.wait[k] = e]
  <2>1. k \in DOMAIN a.wait
    <3>1. own \subseteq Nat
      BY <1>1 DEF PlaceOK
    <3>2. k \in own
      <4>. HIDE DEF own
      <4>. QED
        BY <1>4, <3>1, FirstIn
    <3>. QED
      BY <3>2
  <2>2. act' = [act EXCEPT ![p] = b]
    BY <1>4 DEF IInv
  <2>. HIDE DEF k
  <2>3. EntryOK(e)
    BY <1>1, <2>1, InviteTurn, OnlineTurn DEF PlaceOK
  <2>. HIDE DEF e
  <2>4. PlaceOK(b, p)
    BY <1>1, <2>1, <2>3, OneTurnChange
  <2>. HIDE DEF b
  <2>. QED
    BY <1>1, <2>2, <2>4, PlaceStep
<1>. QED
  BY <1>3, <1>4 DEF MULTIACT_REQADD

LEMMA Join ==
  ASSUME IInv, NEW u \in Users, NEW p \in Positions, MULTIACT2_JOIN(u, p)
  PROVE  IInv'
<1>. DEFINE x == act[p].desk[0]
            j == First(EmptySeats(x, Joins))
            y == [x EXCEPT !.users[j] = Asked(u)]
<1>1. Placed /\ PlaceOK(act[p], p) /\ 0 \in Desks(p)
  <2>1. 0 \in Desks(p)
    BY DesksOK DEF Desks
  <2>. QED
    BY <2>1 DEF IInv, Placed, MULTIACT2_JOIN
<1>2. x.host # NoUser /\ x.flag = "no" /\ EmptySeats(x, Joins) # {}
  BY DEF MULTIACT2_JOIN
<1>3. j \in Joins
  <2>1. EmptySeats(x, Joins) \subseteq Nat
    BY SeatSet DEF EmptySeats
  <2>2. j \in EmptySeats(x, Joins)
    BY <1>2, <2>1, FirstIn
  <2>. QED
    BY <2>2 DEF EmptySeats
<1>4. act' = [act EXCEPT ![p].desk[0] = y]
  BY <1>1, Zenon DEF MULTIACT2_JOIN, IInv, PlaceOK
<1>. HIDE DEF j
<1>5. DeskOK(y) /\ y.host = x.host
  BY <1>1, <1>2, <1>3, SeatChangeBefore, NobodySits DEF PlaceOK
<1>. HIDE DEF y
<1>. QED
  BY <1>1, <1>2, <1>4, <1>5, DeskStep

(* A guest who has still to answer is invited to a rite that has not begun.*)
LEMMA Answer ==
  ASSUME IInv, NEW u \in Users, NEW p \in Positions, NEW yes \in BOOLEAN, MULTIACT_ANS(u, p, yes)
  PROVE  IInv'
<1>. DEFINE Answered(x) ==
              IF ~Joined(x, u) \/ x.users[SeatOf(x, u)].status # "NONE" THEN x
              ELSE IF yes THEN [x EXCEPT !.users[SeatOf(x, u)].status = "ACCEPT"]
              ELSE [x EXCEPT !.users[SeatOf(x, u)].who = NoUser]
            s(x) == IF yes THEN [x.users[SeatOf(x, u)] EXCEPT !.status = "ACCEPT"]
                    ELSE [x.users[SeatOf(x, u)] EXCEPT !.who = NoUser]
<1>1. Placed /\ PlaceOK(act[p], p) /\ u # NoUser
  BY UsersOK DEF IInv, Placed, MULTIACT_ANS
<1>2. ASSUME NEW x, DeskOK(x), x.host # NoUser
      PROVE  DeskOK(Answered(x)) /\ Answered(x).host = x.host
  <2>. DEFINE j == SeatOf(x, u)
  <2>1. CASE ~Joined(x, u) \/ x.users[j].status # "NONE"
    BY <1>2, <2>1
  <2>2. CASE Joined(x, u) /\ x.users[j].status = "NONE"
    <3>1. j \in Joins /\ x.users[j].who = u /\ IsMulti(x)
      BY <2>2, SeatOfGuest DEF Joined
    <3>2. x \in DeskTypes /\ x.users[j] \in SeatTypes
      BY <1>2, <3>1, SeatSet DEF DeskOK, DeskTypes
    <3>3. s(x) \in SeatTypes
      BY <3>2 DEF SeatTypes, Statuses
    <3>4. Answered(x) = [x EXCEPT !.users[j] = s(x)]
      BY <2>2, <3>1, <3>2 DEF DeskTypes
    <3>5. ~LateInvites => x.flag = "no"
      BY <1>1, <1>2, <2>2, <3>1, SeatSet DEF DeskOK, SeatsOK
    <3>. HIDE DEF j, s
    <3>. DEFINE y == [x EXCEPT !.users[j] = s(x)]
    <3>6. CASE x.flag = "no"
      BY <1>2, <3>1, <3>3, <3>4, <3>6, SeatChangeBefore
    <3>7. CASE LateInvites
      <4>1. y \in DeskTypes /\ y.host = x.host
        BY <3>1, <3>2, <3>3 DEF DeskTypes
      <4>. HIDE DEF y
      <4>. QED
        BY <1>2, <3>4, <3>7, <4>1 DEF DeskOK, y
    <3>. QED
      BY <3>5, <3>6, <3>7
  <2>. QED
    BY <2>1, <2>2
<1>3. ASSUME NEW x, EntryOK(x)
      PROVE  EntryOK(Answered(x))
  <2>. DEFINE j == SeatOf(x, u)
  <2>1. CASE ~Joined(x, u) \/ x.users[j].status # "NONE"
    BY <1>3, <2>1
  <2>2. CASE Joined(x, u) /\ x.users[j].status = "NONE"
    <3>1. j \in Joins
      BY <2>2, SeatOfGuest
    <3>2. x \in Entries /\ x.users[j] \in SeatTypes
      BY <1>3, <3>1, SeatSet DEF EntryOK, Entries
    <3>3. s(x) \in SeatTypes
      BY <3>2 DEF SeatTypes, Statuses
    <3>4. Answered(x) = [x EXCEPT !.users[j] = s(x)]
      BY <2>2, <3>1, <3>2 DEF Entries
    <3>. HIDE DEF j, s
    <3>. QED
      BY <1>3, <3>1, <3>3, <3>4, EntryChange
  <2>. QED
    BY <2>1, <2>2
<1>. DEFINE d == First(GroupDesks(act[p], u))
            i == First(GroupTurns(act[p], u))
            y == Answered(act[p].desk[d])
            e == Answered(act[p].wait[i])
            b == IF GroupDesks(act[p], u) # {} THEN [act[p] EXCEPT !.desk[d] = y]
                 ELSE IF GroupTurns(act[p], u) # {} THEN [act[p] EXCEPT !.wait[i] = e] ELSE act[p]
<1>4. act' = [act EXCEPT ![p] = b]
  BY DEF MULTIACT_ANS, Group
<1>5. GroupDesks(act[p], u) # {} => DeskOK(y) /\ y.host = act[p].desk[d].host
  BY <1>1, <1>2, GroupDesk
<1>6. ASSUME GroupTurns(act[p], u) # {}
      PROVE  EntryOK(e)
  <2>1. EntryOK(act[p].wait[i])
    BY <1>1, <1>6, GroupTurn
  <2>. HIDE DEF i, Answered
  <2>. QED
    BY <1>3, <2>1
<1>. HIDE DEF y, e
<1>7. PlaceOK(b, p)
  BY <1>1, <1>5, <1>6, GroupChange
<1>. HIDE DEF b
<1>. QED
  BY <1>1, <1>4, <1>7, PlaceStep

LEMMA Ready ==
  ASSUME IInv, NEW u \in Users, NEW p \in Positions, MULTIACT_READY(u, p)
  PROVE  IInv'
<1>. DEFINE Prepared(x) ==
              IF ~Joined(x, u) \/ x.users[SeatOf(x, u)].status # "ACCEPT" THEN x
              ELSE [x EXCEPT !.users[SeatOf(x, u)].status = "READY"]
            s(x) == [x.users[SeatOf(x, u)] EXCEPT !.status = "READY"]
<1>1. Placed /\ PlaceOK(act[p], p) /\ u # NoUser
  BY UsersOK DEF IInv, Placed, MULTIACT_READY
<1>2. ASSUME NEW x, DeskOK(x), x.host # NoUser
      PROVE  DeskOK(Prepared(x)) /\ Prepared(x).host = x.host
  <2>. DEFINE j == SeatOf(x, u)
  <2>1. CASE ~Joined(x, u) \/ x.users[j].status # "ACCEPT"
    BY <1>2, <2>1
  <2>2. CASE Joined(x, u) /\ x.users[j].status = "ACCEPT"
    <3>1. j \in Joins /\ x.users[j].who = u /\ IsMulti(x)
      BY <2>2, SeatOfGuest DEF Joined
    <3>2. x \in DeskTypes /\ x.users[j] \in SeatTypes
      BY <1>2, <3>1, SeatSet DEF DeskOK, DeskTypes
    <3>3. s(x) \in SeatTypes
      BY <3>2 DEF SeatTypes, Statuses
    <3>4. Prepared(x) = [x EXCEPT !.users[j] = s(x)]
      BY <2>2, <3>1, <3>2 DEF DeskTypes
    <3>5. ~LateInvites => x.flag = "no"
      BY <1>1, <1>2, <2>2, <3>1, SeatSet DEF DeskOK, SeatsOK
    <3>. HIDE DEF j, s
    <3>. DEFINE y == [x EXCEPT !.users[j] = s(x)]
    <3>6. CASE x.flag = "no"
      BY <1>2, <3>1, <3>3, <3>4, <3>6, SeatChangeBefore
    <3>7. CASE LateInvites
      <4>1. y \in DeskTypes /\ y.host = x.host
        BY <3>1, <3>2, <3>3 DEF DeskTypes
      <4>. HIDE DEF y
      <4>. QED
        BY <1>2, <3>4, <3>7, <4>1 DEF DeskOK, y
    <3>. QED
      BY <3>5, <3>6, <3>7
  <2>. QED
    BY <2>1, <2>2
<1>3. ASSUME NEW x, EntryOK(x)
      PROVE  EntryOK(Prepared(x))
  <2>. DEFINE j == SeatOf(x, u)
  <2>1. CASE ~Joined(x, u) \/ x.users[j].status # "ACCEPT"
    BY <1>3, <2>1
  <2>2. CASE Joined(x, u) /\ x.users[j].status = "ACCEPT"
    <3>1. j \in Joins
      BY <2>2, SeatOfGuest
    <3>2. x \in Entries /\ x.users[j] \in SeatTypes
      BY <1>3, <3>1, SeatSet DEF EntryOK, Entries
    <3>3. s(x) \in SeatTypes
      BY <3>2 DEF SeatTypes, Statuses
    <3>4. Prepared(x) = [x EXCEPT !.users[j] = s(x)]
      BY <2>2, <3>1, <3>2 DEF Entries
    <3>. HIDE DEF j, s
    <3>. QED
      BY <1>3, <3>1, <3>3, <3>4, EntryChange
  <2>. QED
    BY <2>1, <2>2
<1>. DEFINE d == First(GroupDesks(act[p], u))
            i == First(GroupTurns(act[p], u))
            y == Prepared(act[p].desk[d])
            e == Prepared(act[p].wait[i])
            b == IF GroupDesks(act[p], u) # {} THEN [act[p] EXCEPT !.desk[d] = y]
                 ELSE IF GroupTurns(act[p], u) # {} THEN [act[p] EXCEPT !.wait[i] = e] ELSE act[p]
<1>4. act' = [act EXCEPT ![p] = b]
  BY DEF MULTIACT_READY, Group
<1>5. GroupDesks(act[p], u) # {} => DeskOK(y) /\ y.host = act[p].desk[d].host
  BY <1>1, <1>2, GroupDesk
<1>6. GroupTurns(act[p], u) # {} => EntryOK(e)
  BY <1>1, <1>3, GroupTurn
<1>. HIDE DEF y, e
<1>7. PlaceOK(b, p)
  BY <1>1, <1>5, <1>6, GroupChange
<1>. HIDE DEF b
<1>. QED
  BY <1>1, <1>4, <1>7, PlaceStep

(* The first desk of the rites of many that u hosts, or takes part in. *)
LEMMA HostedOf ==
  ASSUME NEW p \in Positions, NEW a, PlaceOK(a, p), NEW u, Hosted(a, u) # {}
  PROVE  LET d == First(Hosted(a, u))
         IN d \in Desks(p) /\ DeskOK(a.desk[d]) /\ a.desk[d].host = u /\ IsMulti(a.desk[d])
<1>1. Hosted(a, u) \subseteq Desks(p) /\ Desks(p) \subseteq Nat
  BY DesksOK DEF Hosted, PlaceOK, Desks
<1>2. First(Hosted(a, u)) \in Hosted(a, u)
  BY <1>1, FirstIn
<1>. QED
  BY <1>1, <1>2 DEF Hosted, PlaceOK

LEMMA SharedOf ==
  ASSUME NEW p \in Positions, NEW a, PlaceOK(a, p), NEW u, Shared(a, u) # {}
  PROVE  LET d == First(Shared(a, u))
         IN d \in Desks(p) /\ DeskOK(a.desk[d]) /\ a.desk[d].host # NoUser
<1>1. Shared(a, u) \subseteq Desks(p) /\ Desks(p) \subseteq Nat
  BY DesksOK DEF Shared, DesksOf, PlaceOK, Desks
<1>2. First(Shared(a, u)) \in Shared(a, u)
  BY <1>1, FirstIn
<1>. QED
  BY <1>1, <1>2 DEF Shared, DesksOf, AtDesk, PlaceOK

(* When the host says GO those who are not ready leave; he himself is, and *)
(* has not started.                                                        *)
LEMMA Go ==
  ASSUME IInv, NEW u \in Users, NEW p \in Positions, MULTIACT_GO(u, p)
  PROVE  IInv'
<1>. DEFINE d == First(Hosted(act[p], u))
            x == act[p].desk[d]
            ready == {i \in Seats : x.users[i].who # NoUser /\ x.users[i].status = "READY"}
            stays(i) == i \in ready /\ Online(x.users[i].who)
            us == [i \in Seats |-> IF stays(i) THEN x.users[i]
                                   ELSE [x.users[i] EXCEPT !.who = NoUser]]
            t == IF Cardinality(ready) = 1 /\ x.type = "pray" THEN "single" ELSE x.type
            y == [x EXCEPT !.flag = "go", !.type = t, !.users = us]
<1>1. Placed /\ PlaceOK(act[p], p) /\ u # NoUser /\ Online(u)
  BY UsersOK DEF IInv, Placed, MULTIACT_GO, Here, Online
<1>2. Hosted(act[p], u) # {} /\ x.flag = "no"
  BY DEF MULTIACT_GO
<1>3. d \in Desks(p) /\ DeskOK(x) /\ x.host = u /\ IsMulti(x)
  BY <1>1, <1>2, HostedOf
<1>4. x \in DeskTypes /\ \A i \in Seats : x.users[i] \in SeatTypes
  BY <1>3 DEF DeskOK, DeskTypes
<1>5. act' = [act EXCEPT ![p].desk[d] = y]
  <2>1. y = [x EXCEPT !.flag = "go",
                    !.type = IF Cardinality(ready) = 1 /\ @ = "pray" THEN "single" ELSE @,
                    !.users = [i \in Seats |-> IF stays(i) THEN @[i]
                                               ELSE [@[i] EXCEPT !.who = NoUser]]]
    BY <1>4 DEF DeskTypes
  <2>. QED
    BY <2>1, Zenon DEF MULTIACT_GO
<1>. HIDE DEF d
<1>6. us \in [Seats -> SeatTypes]
  BY <1>4 DEF SeatTypes
<1>7. t \in {"single"} \cup MultiTypes \cup {"visit"}
  BY <1>4 DEF DeskTypes
<1>8. \A i \in Seats : us[i].who # NoUser => us[i] = x.users[i] /\ us[i].status = "READY"
  BY <1>4 DEF SeatTypes
<1>9. ~LateInvites => us[0] = x.users[0] /\ us[0].who = u /\ us[0].status = "READY"
  BY <1>1, <1>2, <1>3, SeatSet DEF DeskOK, SeatsOK, Host
<1>. HIDE DEF us, t
<1>10. y \in DeskTypes /\ y.host = u /\ y.flag = "go" /\ y.users = us
  BY <1>3, <1>4, <1>6, <1>7 DEF DeskTypes
<1>. HIDE DEF y
<1>11. ~LateInvites => SeatsOK(y) /\ GoOK(y)
  BY <1>1, <1>8, <1>9, <1>10, SeatSet DEF SeatsOK, GoOK, Host, AllStarted
<1>12. DeskOK(y) /\ y.host # NoUser
  BY <1>1, <1>10, <1>11 DEF DeskOK
<1>. QED
  BY <1>1, <1>3, <1>5, <1>12, DeskStep

(* Who reports a start is ready or has started; the last one to report it  *)
(* marks the rite.                                                         *)
LEMMA Start ==
  ASSUME IInv, NEW u \in Users, NEW p \in Positions, MULTIACT_START(u, p)
  PROVE  IInv'
<1>. DEFINE d == First(Shared(act[p], u))
            x == act[p].desk[d]
            us == [i \in Seats |-> IF x.users[i].who = u
                                   THEN [x.users[i] EXCEPT !.status = "START"] ELSE x.users[i]]
            y == [x EXCEPT !.users = us]
            z == CheckMultiactAllStarted(y)
<1>1. Placed /\ PlaceOK(act[p], p)
  BY DEF IInv, Placed, MULTIACT_START
<1>2. Shared(act[p], u) # {} /\ x.flag = "go"
  BY DEF MULTIACT_START
<1>3. d \in Desks(p) /\ DeskOK(x) /\ x.host # NoUser
  BY <1>1, <1>2, SharedOf
<1>4. x \in DeskTypes /\ \A i \in Seats : x.users[i] \in SeatTypes
  BY <1>3 DEF DeskOK, DeskTypes
<1>5. act' = [act EXCEPT ![p].desk[d] = z]
  <2>1. y = [x EXCEPT !.users = [i \in Seats |-> IF @[i].who = u
                                   THEN [@[i] EXCEPT !.status = "START"] ELSE @[i]]]
    BY <1>4 DEF DeskTypes
  <2>. QED
    BY <2>1, Zenon DEF MULTIACT_START
<1>. HIDE DEF d
<1>6. us \in [Seats -> SeatTypes]
  BY <1>4 DEF SeatTypes, Statuses
<1>7. \A i \in Seats : us[i].who = x.users[i].who /\ us[i].status \in {x.users[i].status, "START"}
  BY <1>4 DEF SeatTypes
<1>. HIDE DEF us
<1>8. y \in DeskTypes /\ y.host = x.host /\ y.flag = "go" /\ y.type = x.type /\ y.users = us
  BY <1>2, <1>4, <1>6 DEF DeskTypes
<1>. HIDE DEF y
<1>9. ~LateInvites => SeatsOK(y)
  BY <1>2, <1>3, <1>7, <1>8, SeatSet DEF DeskOK, SeatsOK, Host, IsMulti
<1>10. DeskOK(z) /\ z.host = x.host
  BY <1>3, <1>8, <1>9, CheckOK
<1>. HIDE DEF z
<1>. QED
  BY <1>1, <1>3, <1>5, <1>10, DeskStep

(* A guest who leaves may be the last one the others waited for. *)
LEMMA CallOff ==
  ASSUME IInv, NEW u \in Users, NEW p \in Positions, MULTIACT_CANCEL(u, p)
  PROVE  IInv'
<1>. DEFINE a == act[p]
            d == First(GroupDesks(a, u))
            i == First(GroupTurns(a, u))
            Left(y) == [y EXCEPT !.users[SeatOf(y, u)] = Nobody]
            LeftDesk(y) == CheckMultiactAllStarted(Left(y))
<1>1. Placed /\ PlaceOK(a, p) /\ u # NoUser
  BY UsersOK DEF IInv, Placed, MULTIACT_CANCEL
<1>2. CASE act' = [act EXCEPT ![p] = ActWaitCancel(a, u, TRUE)]
  <2>1. PlaceOK(ActWaitCancel(a, u, TRUE), p)
    BY <1>1, CancelOK
  <2>. QED
    BY <1>1, <1>2, <2>1, PlaceStep
<1>3. ASSUME NEW x, InGroup(x, u), Host(x) # u
      PROVE  Joined(x, u)
  BY <1>3 DEF InGroup, Joined, Host, Joins
<1>4. CASE /\ GroupDesks(a, u) # {} /\ Host(a.desk[d]) # u
           /\ act' = [act EXCEPT ![p] = [a EXCEPT !.desk[d] = LeftDesk(@)]]
  <2>. DEFINE x == a.desk[d]
              y == Left(x)
              z == LeftDesk(x)
  <2>1. d \in Desks(p) /\ DeskOK(x) /\ x.host # NoUser /\ InGroup(x, u)
    BY <1>1, <1>4, GroupDesk
  <2>2. act' = [act EXCEPT ![p].desk[d] = z]
    BY <1>4
  <2>. HIDE DEF d
  <2>3. SeatOf(x, u) \in Joins
    BY <1>3, <1>4, <2>1, SeatOfGuest
  <2>4. y \in DeskTypes /\ y.host = x.host /\ (~LateInvites => SeatsOK(y))
    BY <2>1, <2>3, SeatChange, NobodySits
  <2>. HIDE DEF y
  <2>5. DeskOK(z) /\ z.host = x.host
    <3>1. DeskOK(CheckMultiactAllStarted(y)) /\ CheckMultiactAllStarted(y).host = y.host
      BY <2>1, <2>4, CheckOK
    <3>. QED
      BY <2>4, <3>1 DEF y
  <2>. HIDE DEF z
  <2>. QED
    BY <1>1, <2>1, <2>2, <2>5, DeskStep
<1>5. CASE /\ GroupDesks(a, u) = {} /\ GroupTurns(a, u) # {} /\ Host(a.wait[i]) # u
           /\ act' = [act EXCEPT ![p] = [a EXCEPT !.wait[i] = Left(@)]]
  <2>. DEFINE e == Left(a.wait[i])
              b == [a EXCEPT !.wait[i] = e]
  <2>1. i \in DOMAIN a.wait /\ EntryOK(a.wait[i]) /\ InGroup(a.wait[i], u)
    BY <1>1, <1>5, GroupTurn
  <2>2. act' = [act EXCEPT ![p] = b]
    BY <1>5
  <2>. HIDE DEF i
  <2>3. SeatOf(a.wait[i], u) \in Joins
    BY <1>3, <1>5, <2>1, SeatOfGuest
  <2>4. EntryOK(e)
    BY <2>1, <2>3, EntryChange, NobodySits
  <2>. HIDE DEF e
  <2>5. PlaceOK(b, p)
    BY <1>1, <2>1, <2>4, OneTurnChange
  <2>. HIDE DEF b
  <2>. QED
    BY <1>1, <2>2, <2>5, PlaceStep
<1>. QED
  BY <1>2, <1>4, <1>5 DEF MULTIACT_CANCEL, Group
-----------------------------------------------------------------------------
(* Desks and turns by their hosts alone: h holds the host of each desk of  *)
(* a place and l those who wait, in their order.                           *)

TurnIn(h, l, u) == (\E d \in DOMAIN h : h[d] = u) \/ (\E i \in DOMAIN l : l[i] = u)

(* Nobody has two turns at the place. *)
Single(h, l) ==
  /\ \A d, e \in DOMAIN h : h[d] = h[e] /\ h[d] # NoUser => d = e
  /\ \A i, j \in DOMAIN l : l[i] = l[j] => i = j
  /\ \A d \in DOMAIN h, i \in DOMAIN l : h[d] # l[i]

(* u gives his turn up, if he has one: a desk goes to the first who waits. *)
HandsOn(h, l, g, m, d) ==
  IF l = <<>> THEN g = [h EXCEPT ![d] = NoUser] /\ m = l
  ELSE g = [h EXCEPT ![d] = Head(l)] /\ m = Tail(l)
GivesTurn(h, l, g, m, u) ==
  \/ ~TurnIn(h, l, u) /\ g = h /\ m = l
  \/ \E d \in DOMAIN h : h[d] = u /\ HandsOn(h, l, g, m, d)
  \/ /\ g = h
     /\ \E k \in DOMAIN l : l[k] = u /\ m = SubSeq(l, 1, k - 1) \o SubSeq(l, k + 1, Len(l))

LEMMA Without ==
  ASSUME NEW E, NEW l \in Seq(E), NEW k \in DOMAIN l
  PROVE  LET m == SubSeq(l, 1, k - 1) \o SubSeq(l, k + 1, Len(l))
         IN /\ m \in Seq(E) /\ Len(m) = Len(l) - 1
            /\ \A i \in DOMAIN m : m[i] = IF i < k THEN l[i] ELSE l[i + 1]
<1>. DEFINE x == SubSeq(l, 1, k - 1)
            y == SubSeq(l, k + 1, Len(l))
<1>1. k \in 1 .. Len(l) /\ Len(l) \in Nat /\ \A i \in 1 .. Len(l) : l[i] \in E
  OBVIOUS
<1>2. x \in Seq(E) /\ Len(x) = k - 1 /\ \A i \in 1 .. k - 1 : x[i] = l[i]
  BY <1>1, SubSeqProperties
<1>3. y \in Seq(E) /\ Len(y) = Len(l) - k /\ \A i \in 1 .. Len(l) - k : y[i] = l[i + k]
  BY <1>1, SubSeqProperties
<1>. HIDE DEF x, y
<1>4. /\ x \o y \in Seq(E) /\ Len(x \o y) = Len(x) + Len(y)
      /\ \A i \in 1 .. Len(x) + Len(y) : (x \o y)[i] = IF i <= Len(x) THEN x[i] ELSE y[i - Len(x)]
  BY <1>2, <1>3, ConcatProperties
<1>5. DOMAIN (x \o y) = 1 .. Len(l) - 1
  BY <1>1, <1>2, <1>3, <1>4
<1>6. ASSUME NEW i \in 1 .. Len(l) - 1 PROVE (x \o y)[i] = IF i < k THEN l[i] ELSE l[i + 1]
  <2>1. CASE i < k
    BY <1>1, <1>2, <1>3, <1>4, <2>1
  <2>2. CASE ~(i < k)
    <3>1. i - (k - 1) \in 1 .. Len(l) - k /\ (i - (k - 1)) + k = i + 1
      BY <1>1, <2>2
    <3>2. i \in 1 .. Len(x) + Len(y) /\ ~(i <= Len(x))
      BY <1>1, <1>2, <1>3, <2>2
    <3>3. (x \o y)[i] = y[i - (k - 1)]
      BY <1>2, <1>4, <3>2
    <3>. QED
      BY <1>3, <2>2, <3>1, <3>3
  <2>. QED
    BY <2>1, <2>2
<1>7. Len(x \o y) = Len(l) - 1
  BY <1>1, <1>2, <1>3, <1>4
<1>8. \A i \in DOMAIN (x \o y) : (x \o y)[i] = IF i < k THEN l[i] ELSE l[i + 1]
  BY <1>5, <1>6
<1>. QED
  BY <1>4, <1>7, <1>8 DEF x, y

LEMMA GivenUp ==
  ASSUME NEW D, NEW h \in [D -> Users \cup {NoUser}], NEW l \in Seq(Users), Single(h, l),
         NEW u \in Users, NEW g, NEW m, GivesTurn(h, l, g, m, u)
  PROVE  /\ Single(g, m)
         /\ \A v \in Users : TurnIn(g, m, v) => TurnIn(h, l, v) /\ v # u
<1>1. u # NoUser /\ DOMAIN h = D /\ Len(l) \in Nat /\ DOMAIN l = 1 .. Len(l)
  BY UsersOK
<1>2. \A i \in DOMAIN l : l[i] \in Users /\ l[i] # NoUser
  BY UsersOK
<1>3. CASE ~TurnIn(h, l, u) /\ g = h /\ m = l
  BY <1>3
<1>4. ASSUME NEW d \in D, h[d] = u, HandsOn(h, l, g, m, d)
      PROVE  /\ Single(g, m)
             /\ \A v \in Users : TurnIn(g, m, v) => TurnIn(h, l, v) /\ v # u
  <2>1. CASE l = <<>>
    <3>1. /\ DOMAIN g = D /\ g[d] = NoUser /\ (\A e \in D \ {d} : g[e] = h[e]) /\ m = l
          /\ DOMAIN m = {}
      BY <1>4, <2>1 DEF HandsOn
    <3>. QED
      BY <1>1, <1>4, <3>1, UsersOK DEF Single, TurnIn
  <2>2. CASE l # <<>>
    <3>1. Head(l) = l[1] /\ 1 \in DOMAIN l
      BY <2>2
    <3>2. /\ m = Tail(l) /\ DOMAIN m = 1 .. Len(l) - 1
          /\ \A i \in DOMAIN m : m[i] = l[i + 1] /\ i + 1 \in DOMAIN l /\ i + 1 # 1
      BY <1>1, <1>4, <2>2, HeadTailProperties DEF HandsOn
    <3>3. DOMAIN g = D /\ g[d] = l[1] /\ \A e \in D \ {d} : g[e] = h[e]
      BY <1>4, <2>2, <3>1 DEF HandsOn
    <3>4. \A i, j \in DOMAIN m : i + 1 = j + 1 => i = j
      BY <3>2
    <3>5. Single(g, m)
      BY <1>1, <1>2, <3>1, <3>2, <3>3, <3>4 DEF Single
    <3>6. ASSUME NEW v \in Users, TurnIn(g, m, v) PROVE TurnIn(h, l, v) /\ v # u
      BY <1>1, <1>4, <3>1, <3>2, <3>3, <3>6 DEF TurnIn, Single
    <3>. QED
      BY <3>5, <3>6
  <2>. QED
    BY <2>1, <2>2
<1>5. ASSUME NEW k \in DOMAIN l, l[k] = u, g = h,
             m = SubSeq(l, 1, k - 1) \o SubSeq(l, k + 1, Len(l))
      PROVE  /\ Single(g, m)
             /\ \A v \in Users : TurnIn(g, m, v) => TurnIn(h, l, v) /\ v # u
  <2>. DEFINE at(i) == IF i < k THEN i ELSE i + 1
  <2>1. /\ m \in Seq(Users) /\ Len(m) = Len(l) - 1
        /\ \A i \in DOMAIN m : m[i] = IF i < k THEN l[i] ELSE l[i + 1]
    BY <1>5, Without
  <2>2. DOMAIN m = 1 .. Len(l) - 1
    BY <2>1, <1>1
  <2>3. \A i \in DOMAIN m : m[i] = l[at(i)] /\ at(i) \in DOMAIN l /\ at(i) # k
    BY <1>1, <2>1, <2>2
  <2>4. \A i, j \in DOMAIN m : at(i) = at(j) => i = j
    BY <1>1, <2>2
  <2>. HIDE DEF at
  <2>5. Single(g, m)
    <3>1. \A i, j \in DOMAIN m : m[i] = m[j] => i = j
      BY <2>3, <2>4 DEF Single
    <3>2. ASSUME NEW d \in DOMAIN g, NEW i \in DOMAIN m
          PROVE  g[d] # m[i]
      <4>1. m[i] = l[at(i)] /\ at(i) \in DOMAIN l /\ d \in DOMAIN h /\ g[d] = h[d]
        BY <1>5, <2>3
      <4>. QED
        BY <4>1 DEF Single
    <3>3. \A d, e \in DOMAIN g : g[d] = g[e] /\ g[d] # NoUser => d = e
      BY <1>5 DEF Single
    <3>. QED
      BY <3>1, <3>2, <3>3, Zenon DEF Single
  <2>6. ASSUME NEW v \in Users, TurnIn(g, m, v) PROVE TurnIn(h, l, v) /\ v # u
    <3>1. \A e \in DOMAIN h : h[e] # u
      BY <1>5 DEF Single
    <3>2. \A i \in DOMAIN m : m[i] # u
      BY <1>5, <2>3 DEF Single
    <3>. QED
      BY <1>5, <2>3, <2>6, <3>1, <3>2 DEF TurnIn
  <2>. QED
    BY <2>5, <2>6
<1>. QED
  BY <1>1, <1>3, <1>4, <1>5 DEF GivesTurn

(* Who had no turn takes a desk or lines up; a line is closed.             *)
TakesTurn(h, l, g, m, u) ==
  \/ \E d \in DOMAIN h : h[d] = NoUser /\ g = [h EXCEPT ![d] = u] /\ m = l
  \/ (\A d \in DOMAIN h : h[d] # NoUser) /\ g = h /\ m = Append(l, u)

LEMMA TurnTaken ==
  ASSUME NEW D, NEW h \in [D -> Users \cup {NoUser}], NEW l \in Seq(Users), Single(h, l),
         NEW u \in Users, ~TurnIn(h, l, u), NEW g, NEW m, TakesTurn(h, l, g, m, u)
  PROVE  /\ Single(g, m)
         /\ \A v \in Users : TurnIn(g, m, v) => TurnIn(h, l, v) \/ v = u
<1>1. u # NoUser /\ DOMAIN h = D /\ Len(l) \in Nat /\ DOMAIN l = 1 .. Len(l)
  BY UsersOK
<1>2. ASSUME NEW d \in D, h[d] = NoUser, g = [h EXCEPT ![d] = u], m = l
      PROVE  /\ Single(g, m)
             /\ \A v \in Users : TurnIn(g, m, v) => TurnIn(h, l, v) \/ v = u
  <2>1. DOMAIN g = D /\ g[d] = u /\ \A e \in D \ {d} : g[e] = h[e]
    BY <1>2
  <2>. QED
    BY <1>1, <1>2, <2>1 DEF Single, TurnIn
<1>3. ASSUME g = h, m = Append(l, u)
      PROVE  /\ Single(g, m)
             /\ \A v \in Users : TurnIn(g, m, v) => TurnIn(h, l, v) \/ v = u
  <2>1. /\ DOMAIN m = 1 .. Len(l) + 1 /\ m[Len(l) + 1] = u
        /\ \A i \in DOMAIN l : m[i] = l[i]
    BY <1>1, <1>3
  <2>2. \A i \in DOMAIN m : i \in DOMAIN l \/ i = Len(l) + 1
    BY <1>1, <2>1
  <2>. QED
    BY <1>1, <1>3, <2>1, <2>2 DEF Single, TurnIn
<1>. QED
  BY <1>1, <1>2, <1>3 DEF TakesTurn
-----------------------------------------------------------------------------
(* What giving up does to the hosts and the guests of a place.             *)

Holders(a) == [d \in DOMAIN a.desk |-> a.desk[d].host]
Line(a) == [i \in DOMAIN a.wait |-> Host(a.wait[i])]
GuestAt(a, u) == \/ \E d \in DOMAIN a.desk : Joined(a.desk[d], u)
                 \/ \E i \in DOMAIN a.wait : Joined(a.wait[i], u)

LEMMA HostTypes ==
  ASSUME NEW p \in Positions, NEW a, PlaceOK(a, p)
  PROVE  /\ Holders(a) \in [Desks(p) -> Users \cup {NoUser}]
         /\ Line(a) \in Seq(Users) /\ Len(Line(a)) = Len(a.wait)
<1>1. /\ a.desk \in [Desks(p) -> DeskTypes] /\ a.wait \in Seq(Entries)
      /\ \A i \in DOMAIN a.wait : Host(a.wait[i]) \in Users
  BY DEF PlaceOK, EntryOK
<1>2. \A d \in Desks(p) : a.desk[d].host \in Users \cup {NoUser}
  BY <1>1 DEF DeskTypes
<1>3. Len(a.wait) \in Nat /\ DOMAIN a.wait = 1 .. Len(a.wait)
  BY <1>1
<1>4. Line(a) \in Seq(Users) /\ Len(Line(a)) = Len(a.wait)
  BY <1>1, <1>3 DEF Line
<1>. QED
  BY <1>1, <1>2, <1>4 DEF Holders

(* All that stands after an entry, when all of it is kept. *)
LEMMA KeptRest ==
  ASSUME NEW E, NEW w \in Seq(E), NEW k \in 1 .. Len(w)
  PROVE  Kept(w, k + 1 .. Len(w)) = SubSeq(w, k + 1, Len(w))
<1>. DEFINE S == k + 1 .. Len(w)
            v == SubSeq(w, k + 1, Len(w))
            Place(j) == CHOOSE i \in S : Cardinality({m \in S : m <= i}) = j
<1>1. Len(w) \in Nat /\ k \in Nat /\ k + 1 \in Int /\ Len(w) \in Int
      /\ \A i \in 1 .. Len(w) : w[i] \in E
  OBVIOUS
<1>2. Cardinality(S) = Len(w) - k
  BY <1>1, FS_Interval
<1>3. ASSUME NEW i \in S PROVE Cardinality({m \in S : m <= i}) = i - k
  <2>1. {m \in S : m <= i} = k + 1 .. i
    BY <1>1
  <2>2. Cardinality(k + 1 .. i) = i - k
    BY <1>1, FS_Interval
  <2>. QED
    BY <2>1, <2>2
<1>. HIDE DEF v
<1>4. ASSUME NEW j \in 1 .. Len(w) - k PROVE Place(j) = k + j
  <2>1. k + j \in S /\ Cardinality({m \in S : m <= k + j}) = j
    <3>1. k + j \in S /\ (k + j) - k = j
      BY <1>1
    <3>. QED
      BY <1>3, <3>1
  <2>2. \A i \in S : Cardinality({m \in S : m <= i}) = j => i = k + j
    <3>1. \A i \in S : i - k = j => i = k + j
      BY <1>1
    <3>. QED
      BY <1>3, <3>1
  <2>. HIDE DEF S
  <2>. QED
    BY <2>1, <2>2
<1>. HIDE DEF Place
<1>5. Kept(w, S) = [j \in 1 .. Cardinality(S) |-> w[Place(j)]]
  BY DEF Kept, Place
<1>6. v \in Seq(E) /\ Len(v) = Len(w) - k /\ \A j \in 1 .. Len(w) - k : v[j] = w[k + j]
  BY <1>1, SubSeqProperties DEF v
<1>. HIDE DEF S
<1>7. Kept(w, S) = [j \in 1 .. Len(w) - k |-> w[k + j]]
  BY <1>2, <1>4, <1>5
<1>8. v = [j \in 1 .. Len(w) - k |-> w[k + j]]
  BY <1>1, <1>6
<1>. QED
  BY <1>7, <1>8 DEF S, v

(* With hosts who are there and have one turn each, the rest of a line is  *)
(* all that stands behind an entry of u or the line beside his desk.       *)
LEMMA RestOfLine ==
  ASSUME NEW w \in Seq(Entries), \A i \in DOMAIN w : Online(Host(w[i])),
         NEW k \in 1 .. Len(w), NEW u, \A i \in k + 1 .. Len(w) : Host(w[i]) # u
  PROVE  Rest(w, k, u) = SubSeq(w, k + 1, Len(w))
<1>1. {i \in k + 1 .. Len(w) : Host(w[i]) # u /\ Online(Host(w[i]))} = k + 1 .. Len(w)
  OBVIOUS
<1>2. Rest(w, k, u) = Kept(w, k + 1 .. Len(w))
  BY <1>1 DEF Rest
<1>. QED
  BY <1>2, KeptRest

LEMMA UnqueueNobody ==
  ASSUME NEW w, NEW u, \A i \in DOMAIN w : Host(w[i]) # u
  PROVE  Unqueue(w, u) = w
BY DEF Unqueue

LEMMA UnqueueOne ==
  ASSUME NEW w \in Seq(Entries), \A i \in DOMAIN w : Online(Host(w[i])),
         NEW k \in DOMAIN w, NEW u, Host(w[k]) = u, \A i \in DOMAIN w : Host(w[i]) = u => i = k
  PROVE  Unqueue(w, u) = SubSeq(w, 1, k - 1) \o SubSeq(w, k + 1, Len(w))
<1>. DEFINE own == {i \in DOMAIN w : Host(w[i]) = u}
<1>1. own = {k} /\ k \in Nat /\ k \in 1 .. Len(w)
  OBVIOUS
<1>2. First(own) = k
  <2>1. First({k}) \in {k}
    BY <1>1, FirstIn
  <2>. QED
    BY <1>1, <2>1
<1>3. Rest(w, k, u) = SubSeq(w, k + 1, Len(w))
  <2>1. \A i \in k + 1 .. Len(w) : i \in DOMAIN w /\ i # k
    BY <1>1
  <2>. QED
    BY <1>1, <2>1, RestOfLine
<1>. QED
  BY <1>1, <1>2, <1>3 DEF Unqueue
(* What is true of a place while hosts are in the channel, have one turn   *)
(* each and are no guests of others.                                       *)
Orderly(a) == /\ Single(Holders(a), Line(a))
              /\ \A v \in Users : TurnIn(Holders(a), Line(a), v) => Online(v) /\ ~GuestAt(a, v)
Cancels(a, b, u) ==
  /\ GivesTurn(Holders(a), Line(a), Holders(b), Line(b), u)
  /\ \A v \in Users : GuestAt(b, v) => GuestAt(a, v)

LEMMA PassOnHosts ==
  ASSUME NEW p \in Positions, NEW a, PlaceOK(a, p), Orderly(a), NEW d \in Desks(p),
         NEW u \in Users, a.desk[d].host = u
  PROVE  Cancels(a, PassOn(a, d, u), u)
<1>. DEFINE h == Holders(a)
            l == Line(a)
            w == a.wait
            there == {i \in DOMAIN w : Online(Host(w[i]))}
<1>1. /\ a.desk \in [Desks(p) -> DeskTypes] /\ w \in Seq(Entries) /\ Len(w) \in Nat
      /\ \A i \in DOMAIN w : Host(w[i]) \in Users
  BY DEF PlaceOK, EntryOK
<1>2. h \in [Desks(p) -> Users \cup {NoUser}] /\ l \in Seq(Users) /\ Len(l) = Len(w)
  BY HostTypes
<1>3. DOMAIN w = 1 .. Len(w) /\ DOMAIN l = 1 .. Len(w) /\ \A i \in 1 .. Len(w) : l[i] = Host(w[i])
  BY <1>1, <1>2 DEF Line
<1>4. h[d] = u /\ d \in DOMAIN h
  BY <1>1, <1>2 DEF Holders
<1>5. \A i \in DOMAIN w : Online(Host(w[i])) /\ Host(w[i]) # u
  <2>. SUFFICES ASSUME NEW i \in DOMAIN w PROVE Online(Host(w[i])) /\ Host(w[i]) # u
    OBVIOUS
  <2>1. TurnIn(h, l, Host(w[i]))
    BY <1>3 DEF TurnIn
  <2>2. h[d] # l[i]
    BY <1>3, <1>4 DEF Orderly, Single
  <2>. QED
    BY <1>1, <1>3, <1>4, <2>1, <2>2 DEF Orderly
<1>6. there = DOMAIN w
  BY <1>5
<1>7. CASE w = <<>>
  <2>. DEFINE f == [a.desk EXCEPT ![d] = FreeDesk]
              b == [desk |-> f, wait |-> <<>>]
  <2>1. PassOn(a, d, u) = b
    BY <1>6, <1>7 DEF PassOn
  <2>2. DOMAIN f = Desks(p) /\ f[d] = FreeDesk /\ \A e \in Desks(p) \ {d} : f[e] = a.desk[e]
    BY <1>1
  <2>3. FreeDesk.host = NoUser /\ \A v : ~Joined(FreeDesk, v)
    BY DEF FreeDesk, Joined, IsMulti
  <2>. HIDE DEF f
  <2>4. Holders(b) = [h EXCEPT ![d] = NoUser]
    BY <1>1, <1>2, <2>2, <2>3 DEF Holders
  <2>5. l = <<>> /\ Line(b) = <<>>
    BY <1>2, <1>7 DEF Line
  <2>6. GivesTurn(h, l, Holders(b), Line(b), u)
    BY <1>4, <2>4, <2>5 DEF GivesTurn, HandsOn
  <2>7. \A v \in Users : GuestAt(b, v) => GuestAt(a, v)
    BY <1>1, <2>2, <2>3 DEF GuestAt
  <2>. QED
    BY <2>1, <2>6, <2>7 DEF Cancels
<1>8. CASE w # <<>>
  <2>. DEFINE x == Promote(w[1])
              f == [a.desk EXCEPT ![d] = x]
              v == SubSeq(w, 2, Len(w))
              b == [desk |-> f, wait |-> v]
  <2>1. 1 \in DOMAIN w /\ 1 \in 1 .. Len(w)
    BY <1>1, <1>3, <1>8
  <2>2. First(there) = 1
    <3>1. First(1 .. Len(w)) \in 1 .. Len(w) /\ \A m \in 1 .. Len(w) : First(1 .. Len(w)) <= m
      <4>1. 1 .. Len(w) # {} /\ 1 .. Len(w) \subseteq Nat
        BY <2>1
      <4>. QED
        BY <4>1, FirstIn
    <3>2. First(1 .. Len(w)) = 1
      BY <1>1, <2>1, <3>1
    <3>3. there = 1 .. Len(w)
      BY <1>3, <1>6
    <3>. HIDE DEF there
    <3>. QED
      BY <3>2, <3>3
  <2>3. Rest(w, 1, u) = v
    <3>1. \A i \in 1 + 1 .. Len(w) : Host(w[i]) # u
      <4>1. \A i \in 1 + 1 .. Len(w) : i \in DOMAIN w
        BY <1>3
      <4>. QED
        BY <1>5, <4>1
    <3>2. Rest(w, 1, u) = SubSeq(w, 1 + 1, Len(w))
      BY <1>1, <1>5, <2>1, <3>1, RestOfLine
    <3>. QED
      BY <3>2
  <2>4. PassOn(a, d, u) = b
    BY <1>6, <2>1, <2>2, <2>3 DEF PassOn
  <2>5. DOMAIN f = Desks(p) /\ f[d] = x /\ \A e \in Desks(p) \ {d} : f[e] = a.desk[e]
    BY <1>1
  <2>6. x.host = Host(w[1]) /\ \A g : Joined(x, g) => Joined(w[1], g)
    BY DEF Promote, Joined, IsMulti
  <2>7. /\ v \in Seq(Entries) /\ Len(v) = Len(w) - 1 /\ DOMAIN v = 1 .. Len(w) - 1
        /\ \A i \in 1 .. Len(w) - 1 : v[i] = w[i + 1]
    <3>1. v = Tail(w)
      BY <1>1, <1>8, TailIsSubSeq
    <3>. QED
      BY <1>1, <1>8, <3>1, HeadTailProperties
  <2>8. \A i \in 1 .. Len(w) - 1 : i + 1 \in DOMAIN w
    BY <1>1, <1>3
  <2>. HIDE DEF f, x, v
  <2>9. Holders(b) = [h EXCEPT ![d] = l[1]]
    <3>1. \A e \in Desks(p) : f[e].host = IF e = d THEN l[1] ELSE a.desk[e].host
      BY <1>3, <2>1, <2>5, <2>6
    <3>2. Holders(b) = [e \in Desks(p) |-> IF e = d THEN l[1] ELSE a.desk[e].host]
      BY <2>5, <3>1 DEF Holders
    <3>3. h = [e \in Desks(p) |-> a.desk[e].host]
      BY <1>1 DEF Holders
    <3>. HIDE DEF h
    <3>. QED
      BY <3>2, <3>3
  <2>10. Line(b) = Tail(l)
    <3>1. l # <<>> /\ Len(Tail(l)) = Len(w) - 1 /\ \A i \in 1 .. Len(w) - 1 : Tail(l)[i] = l[i + 1]
      <4>1. l \in Seq(Users) /\ l # <<>>
        BY <1>1, <1>2, <2>1
      <4>. HIDE DEF l
      <4>. QED
        BY <1>2, <4>1, HeadTailProperties
    <3>2. Tail(l) = [i \in 1 .. Len(w) - 1 |-> l[i + 1]]
      <4>1. l \in Seq(Users) /\ l # <<>>
        BY <1>2, <3>1
      <4>. HIDE DEF l
      <4>2. Tail(l) \in Seq(Users) /\ Len(Tail(l)) \in Nat
        BY <4>1, HeadTailProperties
      <4>. DEFINE t == Tail(l)
                  n == Len(w) - 1
      <4>3. t = [i \in 1 .. Len(t) |-> t[i]]
        <5>1. t \in [1 .. Len(t) -> Users]
          BY <4>2, LenProperties
        <5>. HIDE DEF t
        <5>. QED
          BY <5>1
      <4>4. Len(t) = n /\ \A i \in 1 .. n : t[i] = l[i + 1]
        BY <3>1
      <4>. HIDE DEF t, n
      <4>5. t = [i \in 1 .. n |-> t[i]]
        BY <4>3, <4>4, Zenon
      <4>6. t = [i \in 1 .. n |-> l[i + 1]]
        BY <4>4, <4>5
      <4>. QED
        BY <4>6 DEF t, n
    <3>3. Line(b) = [i \in 1 .. Len(w) - 1 |-> Host(w[i + 1])]
      BY <2>7 DEF Line
    <3>4. \A i \in 1 .. Len(w) - 1 : l[i + 1] = Host(w[i + 1])
      BY <1>3, <2>8
    <3>. HIDE DEF l
    <3>. QED
      BY <3>2, <3>3, <3>4
  <2>11. l # <<>> /\ Head(l) = l[1]
    BY <1>2, <2>1
  <2>12. GivesTurn(h, l, Holders(b), Line(b), u)
    <3>. HIDE DEF h, l, b
    <3>. QED
      BY <1>4, <2>9, <2>10, <2>11 DEF GivesTurn, HandsOn
  <2>13. \A g \in Users : GuestAt(b, g) => GuestAt(a, g)
    <3>. SUFFICES ASSUME NEW g \in Users, GuestAt(b, g) PROVE GuestAt(a, g)
      OBVIOUS
    <3>1. CASE \E e \in Desks(p) : Joined(f[e], g)
      BY <1>1, <2>1, <2>5, <2>6, <3>1 DEF GuestAt
    <3>2. CASE \E i \in 1 .. Len(w) - 1 : Joined(v[i], g)
      BY <2>7, <2>8, <3>2 DEF GuestAt
    <3>. QED
      BY <2>5, <2>7, <3>1, <3>2 DEF GuestAt
  <2>. QED
    BY <2>4, <2>12, <2>13 DEF Cancels
<1>. QED
  BY <1>7, <1>8
(* Whatever part u has in the rites of an orderly place, giving it up ends *)
(* his turn, moves nobody else but the first who waits, and seats no guest.*)
LEMMA GiveUpMilder ==
  ASSUME NEW x, NEW u, NEW c, x \in DeskTypes \/ x \in Entries, Joined(x, u)
  PROVE  \A v \in Users : Joined(GiveUp(x, u, c), v) => Joined(x, v)
<1>. DEFINE j == SeatOf(x, u)
            y == [x EXCEPT !.users[j] = Nobody]
<1>1. j \in Joins /\ j \in Seats
  BY SeatOfGuest, SeatSet
<1>2. /\ y.type = x.type /\ y.users[j] = Nobody
      /\ \A i \in Seats \ {j} : y.users[i] = x.users[i]
  BY <1>1 DEF DeskTypes, Entries
<1>3. GiveUp(x, u, c) = x \/ GiveUp(x, u, c) = y
  BY DEF GiveUp
<1>. HIDE DEF y
<1>4. \A v \in Users : Joined(y, v) => Joined(x, v)
  BY <1>1, <1>2, SeatSet, NobodySits, UsersOK DEF Joined, IsMulti
<1>. QED
  BY <1>3, <1>4

LEMMA CheckMilder ==
  ASSUME NEW x \in DeskTypes
  PROVE  \A v \in Users : Joined(CheckMultiactAllStarted(x), v) => Joined(x, v)
<1>. DEFINE y == [x EXCEPT !.flag = "started"]
<1>1. y.type = x.type /\ y.users = x.users
  BY DEF DeskTypes
<1>. HIDE DEF y
<1>2. \A v \in Users : Joined(y, v) => Joined(x, v)
  BY <1>1 DEF Joined, IsMulti
<1>3. CheckMultiactAllStarted(x) = x \/ CheckMultiactAllStarted(x) = y
  BY DEF CheckMultiactAllStarted, y
<1>. QED
  BY <1>2, <1>3

LEMMA CancelHosts ==
  ASSUME NEW p \in Positions, NEW a, PlaceOK(a, p), Orderly(a), NEW u \in Users, NEW c
  PROVE  Cancels(a, ActWaitCancel(a, u, c), u)
<1>. DEFINE h == Holders(a)
            l == Line(a)
            w == a.wait
            d == First(DesksOf(a, u))
            i == First(TurnsOf(a, u))
<1>1. /\ a \in [desk : [Desks(p) -> DeskTypes], wait : Seq(Entries)]
      /\ w \in Seq(Entries) /\ \A e \in Desks(p) : DeskOK(a.desk[e])
      /\ \A j \in DOMAIN w : EntryOK(w[j]) /\ Host(w[j]) \in Users
      /\ u # NoUser
  BY UsersOK DEF PlaceOK, EntryOK
<1>2. DOMAIN l = DOMAIN w /\ DOMAIN h = Desks(p) /\ \A j \in DOMAIN w : l[j] = Host(w[j])
  BY <1>1 DEF Line, Holders
<1>3. \A e \in Desks(p) : h[e] = a.desk[e].host
  BY <1>1 DEF Holders
<1>4. GuestAt(a, u) => /\ ~TurnIn(h, l, u)
                       /\ \A j \in DOMAIN w : Host(w[j]) # u
  BY <1>2 DEF Orderly, TurnIn
<1>5. CASE DesksOf(a, u) # {}
  <2>1. d \in Desks(p) /\ DeskOK(a.desk[d]) /\ AtDesk(a.desk[d], u)
    BY <1>5, DeskOf
  <2>2. CASE a.desk[d].host = u
    <3>1. ActWaitCancel(a, u, c) = PassOn(a, d, u)
      BY <1>5, <2>2 DEF ActWaitCancel
    <3>. HIDE DEF d
    <3>. QED
      BY <2>1, <2>2, <3>1, PassOnHosts
  <2>3. CASE a.desk[d].host # u
    <3>. DEFINE y == GiveUp(a.desk[d], u, c)
                x == CheckMultiactAllStarted(y)
                f == [a.desk EXCEPT ![d] = x]
                b == [desk |-> f, wait |-> w]
    <3>1. ActWaitCancel(a, u, c) = [desk |-> f, wait |-> Unqueue(w, u)]
      BY <1>5, <2>3 DEF ActWaitCancel
    <3>. HIDE DEF d
    <3>2. a.desk[d].host # NoUser /\ Joined(a.desk[d], u) /\ a.desk[d] \in DeskTypes
      BY <2>1, <2>3 DEF AtDesk, DeskOK
    <3>3. DeskOK(x) /\ x.host = a.desk[d].host
      BY <2>1, <3>2, GiveUpDesk
    <3>4. \A v \in Users : Joined(x, v) => Joined(a.desk[d], v)
      <4>1. y \in DeskTypes
        <5>1. y = a.desk[d] \/ y = [a.desk[d] EXCEPT !.users[SeatOf(a.desk[d], u)] = Nobody]
          BY DEF GiveUp
        <5>2. SeatOf(a.desk[d], u) \in Joins
          BY <3>2, SeatOfGuest
        <5>3. [a.desk[d] EXCEPT !.users[SeatOf(a.desk[d], u)] = Nobody] \in DeskTypes
          BY <2>1, <3>2, <5>2, SeatChange, NobodySits
        <5>. QED
          BY <3>2, <5>1, <5>3
      <4>. HIDE DEF y
      <4>2. \A v \in Users : Joined(x, v) => Joined(y, v)
        BY <4>1, CheckMilder
      <4>3. \A v \in Users : Joined(y, v) => Joined(a.desk[d], v)
        BY <3>2, GiveUpMilder DEF y
      <4>. QED
        BY <4>2, <4>3
    <3>. HIDE DEF x
    <3>5. GuestAt(a, u)
      BY <1>1, <2>1, <3>2 DEF GuestAt
    <3>6. Unqueue(w, u) = w
      BY <1>4, <3>5, UnqueueNobody
    <3>7. DOMAIN f = Desks(p) /\ f[d] = x /\ \A e \in Desks(p) \ {d} : f[e] = a.desk[e]
      BY <1>1, <2>1
    <3>. HIDE DEF f
    <3>8. Holders(b) = h
      <4>1. \A e \in Desks(p) : f[e].host = a.desk[e].host
        BY <3>3, <3>7
      <4>2. DOMAIN a.desk = Desks(p)
        BY <1>1
      <4>. QED
        BY <3>7, <4>1, <4>2 DEF Holders
    <3>9. Line(b) = l
      BY DEF Line
    <3>10. \A v \in Users : GuestAt(b, v) => GuestAt(a, v)
      BY <1>1, <2>1, <3>4, <3>7 DEF GuestAt
    <3>. QED
      BY <1>4, <3>1, <3>5, <3>6, <3>8, <3>9, <3>10 DEF Cancels, GivesTurn
  <2>. QED
    BY <2>2, <2>3
<1>6. CASE DesksOf(a, u) = {} /\ TurnsOf(a, u) # {}
  <2>1. i \in DOMAIN w /\ EntryOK(w[i]) /\ InLine(w[i], u)
    BY <1>6, TurnOf
  <2>2. CASE Host(w[i]) = u
    <3>. DEFINE m == SubSeq(w, 1, i - 1) \o SubSeq(w, i + 1, Len(w))
                n == SubSeq(l, 1, i - 1) \o SubSeq(l, i + 1, Len(l))
                b == [a EXCEPT !.wait = m]
    <3>1. ActWaitCancel(a, u, c) = [a EXCEPT !.wait = Unqueue(w, u)]
      BY <1>6, <2>2 DEF ActWaitCancel
    <3>. HIDE DEF i
    <3>2. \A j \in DOMAIN w : Online(Host(w[j]))
      BY <1>1, <1>2 DEF Orderly, TurnIn
    <3>3. \A j \in DOMAIN w : Host(w[j]) = u => j = i
      BY <1>2, <2>1, <2>2 DEF Orderly, Single
    <3>4. Unqueue(w, u) = m
      BY <1>1, <2>1, <2>2, <3>2, <3>3, UnqueueOne
    <3>5. /\ m \in Seq(Entries) /\ Len(m) = Len(w) - 1
          /\ \A j \in DOMAIN m : m[j] = IF j < i THEN w[j] ELSE w[j + 1]
      BY <1>1, <2>1, Without
    <3>6. /\ n \in Seq(Users) /\ Len(n) = Len(l) - 1 /\ Len(l) = Len(w)
          /\ \A j \in DOMAIN n : n[j] = IF j < i THEN l[j] ELSE l[j + 1]
      <4>1. l \in Seq(Users) /\ Len(l) = Len(w) /\ i \in DOMAIN l
        BY <1>2, <2>1, HostTypes
      <4>. HIDE DEF l
      <4>. QED
        BY <4>1, Without
    <3>. HIDE DEF m, n
    <3>7. b.desk = a.desk /\ b.wait = m
      BY <1>1
    <3>. HIDE DEF b
    <3>8. Holders(b) = h
      BY <3>7 DEF Holders
    <3>9. i \in 1 .. Len(w) /\ Len(w) \in Nat /\ DOMAIN w = 1 .. Len(w)
          /\ DOMAIN m = 1 .. Len(w) - 1 /\ DOMAIN n = 1 .. Len(w) - 1
      BY <1>1, <2>1, <3>5, <3>6
    <3>10. \A j \in 1 .. Len(w) - 1 : j \in DOMAIN w /\ j + 1 \in DOMAIN w
      BY <3>9
    <3>11. Line(b) = n
      <4>1. \A j \in 1 .. Len(w) - 1 : Host(m[j]) = n[j]
        BY <1>2, <3>5, <3>6, <3>9, <3>10
      <4>2. Line(b) = [j \in 1 .. Len(w) - 1 |-> Host(m[j])]
        BY <3>7, <3>9 DEF Line
      <4>3. n = [j \in 1 .. Len(w) - 1 |-> n[j]]
        <5>1. n \in [1 .. Len(n) -> Users]
          BY <3>6, LenProperties
        <5>. QED
          BY <3>6, <5>1
      <4>. QED
        BY <4>1, <4>2, <4>3
    <3>12. i \in DOMAIN l /\ l[i] = u
      BY <1>2, <2>1, <2>2
    <3>13. GivesTurn(h, l, Holders(b), Line(b), u)
      <4>. HIDE DEF h, l
      <4>. QED
        BY <3>8, <3>11, <3>12 DEF GivesTurn, n
    <3>14. \A v \in Users : GuestAt(b, v) => GuestAt(a, v)
      BY <3>5, <3>7, <3>9, <3>10 DEF GuestAt
    <3>. QED
      BY <3>1, <3>4, <3>13, <3>14 DEF Cancels, b
  <2>3. CASE Host(w[i]) # u
    <3>. DEFINE e == GiveUp(w[i], u, c)
                m == [w EXCEPT ![i] = e]
                b == [a EXCEPT !.wait = m]
    <3>1. ActWaitCancel(a, u, c) = [a EXCEPT !.wait = Unqueue(m, u)]
      BY <1>6, <2>3 DEF ActWaitCancel
    <3>. HIDE DEF i
    <3>2. Joined(w[i], u) /\ w[i] \in Entries
      BY <2>1, <2>3 DEF InLine, EntryOK
    <3>3. Host(e) = Host(w[i])
      BY <2>1, <3>2, GiveUpTurn
    <3>4. \A v \in Users : Joined(e, v) => Joined(w[i], v)
      BY <3>2, GiveUpMilder
    <3>. HIDE DEF e
    <3>5. GuestAt(a, u)
      BY <2>1, <3>2 DEF GuestAt
    <3>6. DOMAIN m = DOMAIN w /\ m[i] = e /\ \A j \in DOMAIN w \ {i} : m[j] = w[j]
      BY <1>1, <2>1
    <3>. HIDE DEF m
    <3>7. \A j \in DOMAIN w : Host(m[j]) = Host(w[j])
      BY <3>3, <3>6
    <3>8. Unqueue(m, u) = m
      BY <1>4, <3>5, <3>6, <3>7, UnqueueNobody
    <3>9. b.desk = a.desk /\ b.wait = m
      BY <1>1
    <3>. HIDE DEF b
    <3>10. Holders(b) = h /\ Line(b) = l
      BY <3>6, <3>7, <3>9 DEF Holders, Line
    <3>11. \A v \in Users : GuestAt(b, v) => GuestAt(a, v)
      BY <2>1, <3>4, <3>6, <3>9 DEF GuestAt
    <3>. QED
      BY <1>4, <3>1, <3>5, <3>8, <3>10, <3>11 DEF Cancels, GivesTurn, b
  <2>. QED
    BY <2>2, <2>3
<1>7. CASE DesksOf(a, u) = {} /\ TurnsOf(a, u) = {}
  <2>1. ActWaitCancel(a, u, c) = a
    BY <1>7 DEF ActWaitCancel
  <2>2. ~TurnIn(h, l, u)
    BY <1>1, <1>2, <1>3, <1>7 DEF TurnIn, DesksOf, TurnsOf, AtDesk, InLine
  <2>. QED
    BY <2>1, <2>2 DEF Cancels, GivesTurn
<1>. QED
  BY <1>5, <1>6, <1>7
-----------------------------------------------------------------------------
(* The hosts of the channel.  A user has one turn in all places together;  *)
(* who has it is in the channel and is nobody's guest, so that giving up   *)
(* finds his desk and not first a seat beside somebody else.               *)

Turn(acts, p, u) == TurnIn(Holders(acts[p]), Line(acts[p]), u)
Invited(acts, u) == \E p \in Positions : GuestAt(acts[p], u)
HostsOK(u) ==
  \A p, q \in Positions : Turn(act, p, u) =>
    Here(u) /\ ~Invited(act, u) /\ (Turn(act, q, u) => p = q)
QInv == /\ IInv
        /\ \A p \in Positions : Single(Holders(act[p]), Line(act[p]))
        /\ \A u \in Users : HostsOK(u)

LEMMA Keeps ==
  ASSUME QInv, IInv', NEW p \in Positions, NEW u,
         \A q \in Positions : Single(Holders(act'[q]), Line(act'[q])),
         \A q \in Positions, v \in Users : Turn(act', q, v) =>
           /\ Here(v)'
           /\ \/ Turn(act, q, v)
              \/ v = u /\ q = p /\ ~Invited(act, u) /\ \A r \in Positions : ~Turn(act, r, u),
         \A q \in Positions, v \in Users : Invited(act', v) /\ Turn(act', q, v) => Invited(act, v)
  PROVE  QInv'
<1>1. ASSUME NEW v \in Users, NEW q \in Positions, NEW r \in Positions, Turn(act', q, v)
      PROVE  Here(v)' /\ ~Invited(act', v) /\ (Turn(act', r, v) => q = r)
  <2>1. Here(v)'
    BY <1>1
  <2>2. CASE Turn(act, q, v)
    BY <1>1, <2>1, <2>2 DEF QInv, HostsOK
  <2>3. CASE v = u /\ q = p /\ ~Invited(act, u) /\ \A s \in Positions : ~Turn(act, s, u)
    BY <1>1, <2>1, <2>3
  <2>. QED
    BY <1>1, <2>2, <2>3
<1>2. \A v \in Users : HostsOK(v)'
  BY <1>1 DEF HostsOK
<1>. QED
  BY <1>2 DEF QInv

(* The steps of the promise. *)
SameHosts(a, b) == Holders(b) = Holders(a) /\ Line(b) = Line(a)
Gives(a, b, u) == GivesTurn(Holders(a), Line(a), Holders(b), Line(b), u)
Takes(a, b, u) == TakesTurn(Holders(a), Line(a), Holders(b), Line(b), u)
Closes(a, b) == Holders(b) = Holders(a) /\ Line(b) = <<>>

LEMMA QueueMoves ==
  ASSUME IInv, IInv', NEW p \in Positions, NEW u \in Users,
         \A q \in Positions \ {p} : SameHosts(act[q], act'[q]),
         \/ SameHosts(act[p], act'[p])
         \/ Gives(act[p], act'[p], u)
         \/ Takes(act[p], act'[p], u) /\ \A q \in Positions : ~Turn(act, q, u)
         \/ Closes(act[p], act'[p])
  PROVE  [Queue!Next]_(Queue!vars)
<1>. DEFINE hold == [q \in Positions |-> [d \in Desks(q) |-> act[q].desk[d].host]]
            line == [q \in Positions |-> [i \in DOMAIN act[q].wait |-> Host(act[q].wait[i])]]
            h == Holders(act[p])
            l == Line(act[p])
            g == Holders(act'[p])
            m == Line(act'[p])
<1>1. /\ hold = [q \in Positions |-> Holders(act[q])]
      /\ \A q \in Positions : DOMAIN Holders(act[q]) = Desks(q)
  <2>1. \A q \in Positions : DOMAIN act[q].desk = Desks(q)
    BY DEF IInv, PlaceOK
  <2>. QED
    BY <2>1 DEF Holders
<1>2. hold' = [q \in Positions |-> Holders(act'[q])]
  <2>1. \A q \in Positions : DOMAIN act'[q].desk = Desks(q)
    BY DEF IInv, PlaceOK
  <2>. QED
    BY <2>1 DEF Holders
<1>3. line = [q \in Positions |-> Line(act[q])] /\ line' = [q \in Positions |-> Line(act'[q])]
  BY DEF Line
<1>4. hold' = [hold EXCEPT ![p] = g] /\ hold[p] = h
  <2>. DEFINE A == [q \in Positions |-> Holders(act[q])]
              B == [q \in Positions |-> Holders(act'[q])]
  <2>1. B = [A EXCEPT ![p] = B[p]] /\ A[p] = h /\ B[p] = g
    BY DEF SameHosts
  <2>. HIDE DEF h, g
  <2>. QED
    BY <1>1, <1>2, <2>1
<1>5. line' = [line EXCEPT ![p] = m] /\ line[p] = l
  <2>. DEFINE A == [q \in Positions |-> Line(act[q])]
              B == [q \in Positions |-> Line(act'[q])]
  <2>1. B = [A EXCEPT ![p] = B[p]] /\ A[p] = l /\ B[p] = m
    BY DEF SameHosts
  <2>. HIDE DEF l, m
  <2>. QED
    BY <1>3, <2>1
<1>6. DOMAIN hold = Positions /\ DOMAIN line = Positions
  OBVIOUS
<1>7. g = h => hold' = hold
  BY <1>1, <1>4
<1>8. m = l => line' = line
  BY <1>3, <1>5
<1>9. Queue!Desks(p) = Desks(p) /\ DOMAIN h = Desks(p)
  BY <1>1 DEF Queue!Desks, Desks
<1>10. \A q \in Positions : Turn(act, q, u) <=> \/ \E d \in Desks(q) : hold[q][d] = u
                                              \/ \E i \in DOMAIN line[q] : line[q][i] = u
  BY <1>1, <1>3 DEF Turn, TurnIn
<1>11. \A d, x : [hold EXCEPT ![p][d] = x] = [hold EXCEPT ![p] = [h EXCEPT ![d] = x]]
  BY <1>4, <1>6
<1>. HIDE DEF h, l, g, m
<1>12. CASE SameHosts(act[p], act'[p])
  BY <1>7, <1>8, <1>12 DEF SameHosts, Queue!vars, h, l, g, m
<1>13. CASE Closes(act[p], act'[p])
  <2>1. Queue!CloseLine(p)
    BY <1>5, <1>7, <1>13 DEF Closes, Queue!CloseLine, g, h, m
  <2>. QED
    BY <2>1 DEF Queue!Next
<1>. HIDE DEF hold, line
<1>14. CASE Gives(act[p], act'[p], u)
  <2>1. CASE g = h /\ m = l
    BY <1>7, <1>8, <2>1 DEF Queue!vars, hold, line
  <2>2. ASSUME NEW d \in DOMAIN h, h[d] = u, HandsOn(h, l, g, m, d)
        PROVE  Queue!LeaveDesk(p, d)
    <3>1. hold[p][d] # NoUser
      BY <1>4, <2>2, UsersOK
    <3>2. CASE l = <<>>
      <4>1. line' = line /\ hold' = [hold EXCEPT ![p][d] = NoUser]
        BY <1>4, <1>8, <1>11, <2>2, <3>2 DEF HandsOn
      <4>2. line[p] = <<>>
        BY <1>5, <3>2
      <4>. QED
        BY <3>1, <4>1, <4>2 DEF Queue!LeaveDesk, hold, line
    <3>3. CASE l # <<>>
      <4>1. /\ hold' = [hold EXCEPT ![p][d] = Head(line[p])]
            /\ line' = [line EXCEPT ![p] = Tail(line[p])]
        BY <1>4, <1>5, <1>11, <2>2, <3>3 DEF HandsOn
      <4>2. line[p] # <<>>
        BY <1>5, <3>3
      <4>. QED
        BY <3>1, <4>1, <4>2 DEF Queue!LeaveDesk, hold, line
    <3>. QED
      BY <3>2, <3>3
  <2>3. ASSUME g = h,
               \E k \in DOMAIN l : l[k] = u /\ m = SubSeq(l, 1, k - 1) \o SubSeq(l, k + 1, Len(l))
        PROVE  Queue!LeaveLine(u, p)
    <3>1. \E k \in DOMAIN line[p] :
            /\ line[p][k] = u
            /\ line' = [line EXCEPT ![p] =
                          SubSeq(line[p], 1, k - 1) \o SubSeq(line[p], k + 1, Len(line[p]))]
      BY <1>5, <2>3
    <3>. QED
      BY <1>7, <2>3, <3>1 DEF Queue!LeaveLine, hold, line
  <2>. QED
    BY <1>9, <1>14, <2>1, <2>2, <2>3 DEF Gives, GivesTurn, Queue!Next, h, l, g, m
<1>15. CASE Takes(act[p], act'[p], u) /\ \A q \in Positions : ~Turn(act, q, u)
  <2>1. ~Queue!HasTurn(u)
    <3>1. \A q \in Positions : Queue!Desks(q) = Desks(q)
      BY DEF Queue!Desks, Desks
    <3>. QED
      BY <1>10, <1>15, <3>1 DEF Queue!HasTurn, hold, line
  <2>2. ASSUME NEW d \in DOMAIN h, h[d] = NoUser, g = [h EXCEPT ![d] = u], m = l
        PROVE  Queue!TakeDesk(u, p)
    <3>1. hold[p][d] = NoUser /\ hold' = [hold EXCEPT ![p][d] = u] /\ line' = line
      BY <1>4, <1>8, <1>11, <2>2
    <3>2. \E e \in Queue!Desks(p) : hold[p][e] = NoUser /\ hold' = [hold EXCEPT ![p][e] = u]
      BY <1>9, <2>2, <3>1
    <3>. QED
      BY <2>1, <3>1, <3>2 DEF Queue!TakeDesk, hold, line
  <2>3. ASSUME \A d \in DOMAIN h : h[d] # NoUser, g = h, m = Append(l, u)
        PROVE  Queue!LineUp(u, p)
    <3>1. /\ \A d \in Queue!Desks(p) : hold[p][d] # NoUser
          /\ line' = [line EXCEPT ![p] = Append(line[p], u)] /\ hold' = hold
      BY <1>4, <1>5, <1>7, <1>9, <2>3
    <3>. QED
      BY <2>1, <3>1 DEF Queue!LineUp, hold, line
  <2>. QED
    BY <1>15, <2>2, <2>3 DEF Takes, TakesTurn, Queue!Next, h, l, g, m
<1>. QED
  BY <1>12, <1>13, <1>14, <1>15
(* What QInv says of one place. *)
LEMMA OrderlyPlace ==
  ASSUME QInv, NEW p \in Positions
  PROVE  /\ PlaceOK(act[p], p) /\ Orderly(act[p])
         /\ Holders(act[p]) \in [Desks(p) -> Users \cup {NoUser}] /\ Line(act[p]) \in Seq(Users)
<1>1. PlaceOK(act[p], p) /\ Single(Holders(act[p]), Line(act[p]))
  BY DEF QInv, IInv
<1>2. ASSUME NEW v \in Users, TurnIn(Holders(act[p]), Line(act[p]), v)
      PROVE  Online(v) /\ ~GuestAt(act[p], v)
  <2>1. Here(v) /\ ~Invited(act, v)
    BY <1>2 DEF QInv, HostsOK, Turn
  <2>. QED
    BY <2>1 DEF Invited, Here, Online
<1>. QED
  BY <1>1, <1>2, HostTypes DEF Orderly

(* What follows of hosts and turns at one place. *)
LEMMA TurnsAt ==
  ASSUME QInv, NEW p \in Positions, NEW u \in Users, NEW b,
         \/ SameHosts(act[p], b) \/ Gives(act[p], b, u) \/ Closes(act[p], b)
         \/ Takes(act[p], b, u) /\ ~Turn(act, p, u)
  PROVE  /\ Single(Holders(b), Line(b))
         /\ \A v \in Users : TurnIn(Holders(b), Line(b), v) =>
              \/ Turn(act, p, v) /\ ~(Gives(act[p], b, u) /\ v = u)
              \/ v = u /\ ~Gives(act[p], b, u) /\ Takes(act[p], b, u) /\ ~Turn(act, p, u)
<1>. DEFINE h == Holders(act[p])
            l == Line(act[p])
            g == Holders(b)
            m == Line(b)
<1>1. /\ Single(h, l) /\ h \in [Desks(p) -> Users \cup {NoUser}] /\ l \in Seq(Users)
  BY OrderlyPlace DEF Orderly
<1>2. \A v : Turn(act, p, v) <=> TurnIn(h, l, v)
  BY DEF Turn
<1>. HIDE DEF h, l, g, m
<1>3. CASE Gives(act[p], b, u)
  <2>1. GivesTurn(h, l, g, m, u)
    BY <1>3 DEF Gives, h, l, g, m
  <2>2. Single(g, m) /\ \A v \in Users : TurnIn(g, m, v) => TurnIn(h, l, v) /\ v # u
    BY <1>1, <2>1, GivenUp
  <2>. QED
    BY <1>2, <2>2 DEF g, m
<1>4. CASE ~Gives(act[p], b, u) /\ Takes(act[p], b, u) /\ ~Turn(act, p, u)
  <2>1. TakesTurn(h, l, g, m, u) /\ ~TurnIn(h, l, u)
    BY <1>2, <1>4 DEF Takes, h, l, g, m
  <2>2. Single(g, m) /\ \A v \in Users : TurnIn(g, m, v) => TurnIn(h, l, v) \/ v = u
    BY <1>1, <2>1, TurnTaken
  <2>. QED
    BY <1>2, <1>4, <2>2 DEF g, m
<1>5. CASE ~Gives(act[p], b, u) /\ SameHosts(act[p], b)
  BY <1>1, <1>2, <1>5 DEF SameHosts, h, l
<1>6. CASE ~Gives(act[p], b, u) /\ Closes(act[p], b)
  <2>1. g = h /\ m = <<>> /\ DOMAIN m = {}
    BY <1>6 DEF Closes, g, h, m
  <2>2. Single(g, m) /\ \A v \in Users : TurnIn(g, m, v) => TurnIn(h, l, v)
    BY <1>1, <2>1 DEF Single, TurnIn
  <2>. QED
    BY <1>2, <1>6, <2>2 DEF g, m
<1>. QED
  BY <1>3, <1>4, <1>5, <1>6

(* A step at one place: hosts stay, or one user gives up or takes a turn,  *)
(* or the line is closed; and nobody who has a turn becomes a guest.       *)
LEMMA OneKeeps ==
  ASSUME QInv, IInv', place' = place, NEW p \in Positions, NEW u \in Users, NEW b,
         act' = [act EXCEPT ![p] = b],
         \/ SameHosts(act[p], b) \/ Gives(act[p], b, u) \/ Closes(act[p], b)
         \/ /\ Takes(act[p], b, u) /\ Here(u) /\ ~Invited(act, u)
            /\ \A q \in Positions : ~Turn(act, q, u),
         \A v \in Users : GuestAt(b, v) =>
           \/ Invited(act, v)
           \/ /\ \A q \in Positions : ~Turn(act, q, v)
              /\ v # u \/ SameHosts(act[p], b)
  PROVE  QInv' /\ [Queue!Next]_(Queue!vars)
<1>1. act'[p] = b /\ \A q \in Positions \ {p} : act'[q] = act[q]
  BY DEF QInv, IInv
<1>2. /\ Single(Holders(b), Line(b))
      /\ \A v \in Users : TurnIn(Holders(b), Line(b), v) =>
           Turn(act, p, v) \/ (v = u /\ Takes(act[p], b, u) /\ ~Turn(act, p, u))
  BY TurnsAt
<1>3. \A q \in Positions : Single(Holders(act'[q]), Line(act'[q]))
  BY <1>1, <1>2 DEF QInv
<1>4. ASSUME NEW q \in Positions, NEW v \in Users, Turn(act', q, v)
      PROVE  /\ Here(v)
             /\ \/ Turn(act, q, v)
                \/ /\ v = u /\ q = p /\ ~SameHosts(act[p], b) /\ ~Invited(act, u)
                   /\ \A r \in Positions : ~Turn(act, r, u)
  <2>1. CASE Turn(act, q, v)
    BY <2>1 DEF QInv, HostsOK
  <2>2. CASE ~Turn(act, q, v)
    <3>1. q = p
      BY <1>1, <1>4, <2>2 DEF Turn
    <3>2. v = u /\ Takes(act[p], b, u) /\ ~Turn(act, p, u)
      BY <1>1, <1>2, <1>4, <2>2, <3>1 DEF Turn
    <3>3. ~Gives(act[p], b, u) /\ ~SameHosts(act[p], b) /\ ~Closes(act[p], b)
      <4>1. TurnIn(Holders(b), Line(b), u)
        BY <1>1, <1>4, <3>1, <3>2 DEF Turn
      <4>2. ~Gives(act[p], b, u)
        BY <4>1, <3>2, TurnsAt
      <4>3. ~SameHosts(act[p], b)
        BY <4>1, <3>2 DEF SameHosts, Turn
      <4>4. ~Closes(act[p], b)
        BY <4>1, <3>2 DEF Closes, Turn, TurnIn
      <4>. QED
        BY <4>2, <4>3, <4>4
    <3>. QED
      BY <3>1, <3>2, <3>3
  <2>. QED
    BY <2>1, <2>2
<1>5. ASSUME NEW q \in Positions, NEW v \in Users, Invited(act', v), Turn(act', q, v)
      PROVE  Invited(act, v)
  <2>1. PICK r \in Positions : GuestAt(act'[r], v)
    BY <1>5 DEF Invited
  <2>2. CASE r # p
    BY <1>1, <2>1, <2>2 DEF Invited
  <2>3. CASE r = p
    BY <1>1, <1>4, <1>5, <2>1, <2>3
  <2>. QED
    BY <2>2, <2>3
<1>6. \A v : Here(v)' <=> Here(v)
  BY DEF Here
<1>7. QInv'
  <2>1. \A q \in Positions, v \in Users : Turn(act', q, v) =>
           /\ Here(v)'
           /\ \/ Turn(act, q, v)
              \/ v = u /\ q = p /\ ~Invited(act, u) /\ \A r \in Positions : ~Turn(act, r, u)
    BY <1>4, <1>6
  <2>. QED
    BY ZenonT(30), <1>3, <1>5, <2>1, Keeps
<1>8. [Queue!Next]_(Queue!vars)
  <2>1. \A q \in Positions \ {p} : SameHosts(act[q], act'[q])
    BY <1>1 DEF SameHosts
  <2>2. IInv
    BY DEF QInv
  <2>. QED
    BY <1>1, <2>1, <2>2, QueueMoves
<1>. QED
  BY <1>7, <1>8

(* A change of a desk or of a waiting rite that leaves its host. *)
LEMMA DeskKept ==
  ASSUME NEW p \in Positions, NEW a, PlaceOK(a, p), NEW d \in Desks(p), NEW x,
         x.host = a.desk[d].host
  PROVE  LET b == [a EXCEPT !.desk[d] = x]
         IN SameHosts(a, b) /\ \A v : GuestAt(b, v) => GuestAt(a, v) \/ Joined(x, v)
<1>. DEFINE b == [a EXCEPT !.desk[d] = x]
<1>1. /\ DOMAIN a.desk = Desks(p) /\ b.wait = a.wait /\ DOMAIN b.desk = Desks(p)
      /\ b.desk[d] = x /\ \A e \in Desks(p) \ {d} : b.desk[e] = a.desk[e]
  BY DEF PlaceOK
<1>. HIDE DEF b
<1>2. \A e \in Desks(p) : b.desk[e].host = a.desk[e].host
  BY <1>1
<1>3. SameHosts(a, b)
  BY <1>1, <1>2 DEF SameHosts, Holders, Line
<1>4. \A v : GuestAt(b, v) => GuestAt(a, v) \/ Joined(x, v)
  BY <1>1 DEF GuestAt
<1>. QED
  BY <1>3, <1>4 DEF b

LEMMA TurnKept ==
  ASSUME NEW p \in Positions, NEW a, PlaceOK(a, p), NEW k \in DOMAIN a.wait, NEW e,
         Host(e) = Host(a.wait[k])
  PROVE  LET b == [a EXCEPT !.wait[k] = e]
         IN SameHosts(a, b) /\ \A v : GuestAt(b, v) => GuestAt(a, v) \/ Joined(e, v)
<1>. DEFINE b == [a EXCEPT !.wait[k] = e]
<1>1. /\ b.desk = a.desk /\ DOMAIN b.wait = DOMAIN a.wait
      /\ b.wait[k] = e /\ \A i \in DOMAIN a.wait \ {k} : b.wait[i] = a.wait[i]
  BY DEF PlaceOK
<1>. HIDE DEF b
<1>2. \A i \in DOMAIN a.wait : Host(b.wait[i]) = Host(a.wait[i])
  BY <1>1
<1>3. SameHosts(a, b)
  BY <1>1, <1>2 DEF SameHosts, Holders, Line
<1>4. \A v : GuestAt(b, v) => GuestAt(a, v) \/ Joined(e, v)
  BY <1>1 DEF GuestAt
<1>. QED
  BY <1>3, <1>4 DEF b
-----------------------------------------------------------------------------
(* The steps, by what they do to hosts and guests.                         *)

QueueStep == QInv' /\ [Queue!Next]_(Queue!vars)

LEMMA DeskQ ==
  ASSUME QInv, IInv', place' = place, NEW u \in Users, NEW p \in Positions, NEW d \in Desks(p),
         NEW x, x.host = act[p].desk[d].host, act' = [act EXCEPT ![p].desk[d] = x],
         \A v \in Users : Joined(x, v) =>
           Joined(act[p].desk[d], v) \/ \A q \in Positions : ~Turn(act, q, v)
  PROVE  QueueStep
<1>. DEFINE b == [act[p] EXCEPT !.desk[d] = x]
<1>1. PlaceOK(act[p], p)
  BY DEF QInv, IInv
<1>2. SameHosts(act[p], b) /\ \A v : GuestAt(b, v) => GuestAt(act[p], v) \/ Joined(x, v)
  BY <1>1, DeskKept
<1>3. \A v : Joined(act[p].desk[d], v) => GuestAt(act[p], v)
  BY <1>1 DEF GuestAt, PlaceOK
<1>4. act' = [act EXCEPT ![p] = b]
  BY DEF QInv, IInv
<1>. HIDE DEF b
<1>5. \A v \in Users : GuestAt(b, v) => Invited(act, v) \/ \A q \in Positions : ~Turn(act, q, v)
  BY <1>2, <1>3 DEF Invited
<1>. QED
  BY <1>2, <1>4, <1>5, OneKeeps DEF QueueStep

LEMMA TurnQ ==
  ASSUME QInv, IInv', place' = place, NEW u \in Users, NEW p \in Positions,
         NEW k \in DOMAIN act[p].wait,
         NEW e, Host(e) = Host(act[p].wait[k]), act' = [act EXCEPT ![p].wait[k] = e],
         \A v \in Users : Joined(e, v) =>
           Joined(act[p].wait[k], v) \/ \A q \in Positions : ~Turn(act, q, v)
  PROVE  QueueStep
<1>. DEFINE b == [act[p] EXCEPT !.wait[k] = e]
<1>1. PlaceOK(act[p], p)
  BY DEF QInv, IInv
<1>2. SameHosts(act[p], b) /\ \A v : GuestAt(b, v) => GuestAt(act[p], v) \/ Joined(e, v)
  BY <1>1, TurnKept
<1>3. \A v : Joined(act[p].wait[k], v) => GuestAt(act[p], v)
  BY <1>1 DEF GuestAt, PlaceOK
<1>4. act' = [act EXCEPT ![p] = b]
  BY DEF QInv, IInv
<1>. HIDE DEF b
<1>5. \A v \in Users : GuestAt(b, v) => Invited(act, v) \/ \A q \in Positions : ~Turn(act, q, v)
  BY <1>2, <1>3 DEF Invited
<1>. QED
  BY <1>2, <1>4, <1>5, OneKeeps DEF QueueStep

LEMMA GroupQ ==
  ASSUME QInv, IInv', place' = place, NEW u \in Users, NEW p \in Positions, NEW y, NEW e,
         GroupDesks(act[p], u) # {} =>
           /\ y.host = act[p].desk[First(GroupDesks(act[p], u))].host
           /\ \A v \in Users : Joined(y, v) => Joined(act[p].desk[First(GroupDesks(act[p], u))], v),
         GroupTurns(act[p], u) # {} =>
           /\ Host(e) = Host(act[p].wait[First(GroupTurns(act[p], u))])
           /\ \A v \in Users : Joined(e, v) => Joined(act[p].wait[First(GroupTurns(act[p], u))], v),
         act' = [act EXCEPT ![p] =
                   IF GroupDesks(act[p], u) # {}
                   THEN [act[p] EXCEPT !.desk[First(GroupDesks(act[p], u))] = y]
                   ELSE IF GroupTurns(act[p], u) # {}
                   THEN [act[p] EXCEPT !.wait[First(GroupTurns(act[p], u))] = e] ELSE act[p]]
  PROVE  QueueStep
<1>1. PlaceOK(act[p], p) /\ DOMAIN act = Positions
  BY DEF QInv, IInv
<1>2. CASE GroupDesks(act[p], u) # {}
  <2>. DEFINE d == First(GroupDesks(act[p], u))
  <2>1. d \in Desks(p)
    BY <1>1, <1>2, GroupDesk
  <2>2. act' = [act EXCEPT ![p].desk[d] = y]
    BY <1>1, <1>2
  <2>3. y.host = act[p].desk[d].host /\ \A v \in Users : Joined(y, v) => Joined(act[p].desk[d], v)
    BY <1>2
  <2>. HIDE DEF d
  <2>. QED
    BY <2>1, <2>2, <2>3, DeskQ
<1>3. CASE GroupDesks(act[p], u) = {} /\ GroupTurns(act[p], u) # {}
  <2>. DEFINE k == First(GroupTurns(act[p], u))
  <2>1. k \in DOMAIN act[p].wait
    BY <1>1, <1>3, GroupTurn
  <2>2. act' = [act EXCEPT ![p].wait[k] = e]
    BY <1>1, <1>3
  <2>3. Host(e) = Host(act[p].wait[k]) /\ \A v \in Users : Joined(e, v) => Joined(act[p].wait[k], v)
    BY <1>3
  <2>. HIDE DEF k
  <2>. QED
    BY <2>1, <2>2, <2>3, TurnQ
<1>4. CASE GroupDesks(act[p], u) = {} /\ GroupTurns(act[p], u) = {}
  <2>1. act' = [act EXCEPT ![p] = act[p]]
    BY <1>4
  <2>2. SameHosts(act[p], act[p]) /\ \A v \in Users : GuestAt(act[p], v) => Invited(act, v)
    BY DEF SameHosts, Invited
  <2>. QED
    BY <2>1, <2>2, OneKeeps DEF QueueStep
<1>. QED
  BY <1>2, <1>3, <1>4

(* Who is not busy, or has not committed himself, hosts nothing. *)
LEMMA NotBusy ==
  ASSUME IInv, NEW u \in Users, ~Busy(u)
  PROVE  ~Invited(act, u) /\ \A q \in Positions : ~Turn(act, q, u)
<1>. SUFFICES ASSUME NEW q \in Positions
              PROVE  ~GuestAt(act[q], u) /\ ~Turn(act, q, u)
  BY DEF Invited
<1>1. /\ DOMAIN act[q].desk = Desks(q) /\ \A d \in Desks(q) : DeskOK(act[q].desk[d])
      /\ u # NoUser
  BY UsersOK DEF IInv, PlaceOK
<1>2. \A d \in Desks(q) : ~AtDesk(act[q].desk[d], u)
  BY <1>1 DEF Busy, BusyAt, DesksOf
<1>3. \A i \in DOMAIN act[q].wait : ~InLine(act[q].wait[i], u)
  BY DEF Busy, BusyAt, TurnsOf
<1>4. \A d \in Desks(q) : act[q].desk[d].host # u /\ ~Joined(act[q].desk[d], u)
  BY <1>1, <1>2 DEF AtDesk, DeskOK, FreeDesk, Joined, IsMulti
<1>5. \A i \in DOMAIN act[q].wait : Host(act[q].wait[i]) # u /\ ~Joined(act[q].wait[i], u)
  BY <1>3 DEF InLine
<1>. QED
  BY <1>1, <1>4, <1>5 DEF GuestAt, Turn, TurnIn, Holders, Line

LEMMA NotCommitted ==
  ASSUME IInv, NEW u \in Users, ~Committed(u)
  PROVE  \A q \in Positions : ~Turn(act, q, u)
<1>. SUFFICES ASSUME NEW q \in Positions PROVE ~Turn(act, q, u)
  OBVIOUS
<1>1. DOMAIN act[q].desk = Desks(q)
  BY DEF IInv, PlaceOK
<1>2. \A d \in Desks(q) : act[q].desk[d].host # u
  BY DEF Committed
<1>3. \A i \in DOMAIN act[q].wait : Host(act[q].wait[i]) # u
  BY DEF Committed
<1>. QED
  BY <1>1, <1>2, <1>3 DEF Turn, TurnIn, Holders, Line
LEMMA ComesQ ==
  ASSUME QInv, IInv', NEW u \in Users, LogIn(u) \/ EnterRoom(u)
  PROVE  QueueStep
<1>1. act' = act /\ \A v \in Users : Here(v) => Here(v)'
  BY DEF QInv, IInv, LogIn, EnterRoom, Here
<1>2. \A v \in Users : HostsOK(v)'
  <2>. SUFFICES ASSUME NEW v \in Users, NEW p \in Positions, NEW q \in Positions, Turn(act', p, v)
                PROVE  Here(v)' /\ ~Invited(act', v) /\ (Turn(act', q, v) => p = q)
    BY DEF HostsOK
  <2>. QED
    BY <1>1 DEF QInv, HostsOK
<1>3. QInv'
  BY <1>1, <1>2 DEF QInv
<1>. QED
  BY <1>1, <1>3 DEF QueueStep, Queue!vars

(* Giving up at one place. *)
LEMMA CancelQ ==
  ASSUME QInv, IInv', place' = place, NEW u \in Users, NEW p \in Positions, NEW c,
         act' = [act EXCEPT ![p] = ActWaitCancel(act[p], u, c)]
  PROVE  QueueStep
<1>1. Cancels(act[p], ActWaitCancel(act[p], u, c), u)
  BY OrderlyPlace, CancelHosts
<1>2. Gives(act[p], ActWaitCancel(act[p], u, c), u)
  BY <1>1 DEF Cancels, Gives
<1>3. \A v \in Users : GuestAt(ActWaitCancel(act[p], u, c), v) => Invited(act, v)
  BY <1>1 DEF Cancels, Invited
<1>. QED
  BY <1>2, <1>3, OneKeeps DEF QueueStep

LEMMA GivesUpQ ==
  ASSUME QInv, IInv', NEW u \in Users, NEW p \in Positions,
         ACT_WAIT_CANCEL(u, p) \/ ACT_RELEASE(u) \/ MULTIACT_RELEASE(u, p)
  PROVE  QueueStep
<1>1. ASSUME NEW q \in Positions, act' = [act EXCEPT ![q] = ActWaitCancel(@, u, TRUE)], place' = place
      PROVE  QueueStep
  <2>1. act' = [act EXCEPT ![q] = ActWaitCancel(act[q], u, TRUE)]
    BY <1>1
  <2>. QED
    BY <1>1, <2>1, CancelQ
<1>2. ACT_RELEASE(u) => FirstPlace(u) \in Positions
  BY PlaceOf DEF ACT_RELEASE
<1>. QED
  BY <1>1, <1>2 DEF ACT_WAIT_CANCEL, ACT_RELEASE, MULTIACT_RELEASE

(* Giving up at all places: there is one at most where u has a turn. *)
LEMMA NoTurnSame ==
  ASSUME QInv, NEW p \in Positions, NEW u \in Users, NEW b, Gives(act[p], b, u), ~Turn(act, p, u)
  PROVE  SameHosts(act[p], b)
BY DEF Gives, GivesTurn, Turn, TurnIn, SameHosts

LEMMA AllGive ==
  ASSUME QInv, IInv', NEW u \in Users, \A p \in Positions : Gives(act[p], act'[p], u),
         \A p \in Positions, v \in Users : GuestAt(act'[p], v) => GuestAt(act[p], v),
         \A v \in Users \ {u} : Here(v) => Here(v)'
  PROVE  QueueStep
<1>1. \A q \in Positions :
        /\ Single(Holders(act'[q]), Line(act'[q]))
        /\ \A v \in Users : Turn(act', q, v) => Turn(act, q, v) /\ v # u
  <2>. SUFFICES ASSUME NEW q \in Positions
                PROVE  /\ Single(Holders(act'[q]), Line(act'[q]))
                       /\ \A v \in Users : Turn(act', q, v) => Turn(act, q, v) /\ v # u
    OBVIOUS
  <2>1. /\ Single(Holders(act'[q]), Line(act'[q]))
        /\ \A v \in Users : TurnIn(Holders(act'[q]), Line(act'[q]), v) =>
              \/ Turn(act, q, v) /\ ~(Gives(act[q], act'[q], u) /\ v = u)
              \/ /\ v = u /\ ~Gives(act[q], act'[q], u)
                 /\ Takes(act[q], act'[q], u) /\ ~Turn(act, q, u)
    BY TurnsAt
  <2>. QED
    BY <2>1 DEF Turn
<1>2. \A q \in Positions, v \in Users : Turn(act', q, v) => Here(v)'
  BY <1>1 DEF QInv, HostsOK
<1>3. \A q \in Positions, v \in Users : Invited(act', v) /\ Turn(act', q, v) => Invited(act, v)
  BY DEF Invited
<1>4. QInv'
  <2>1. \A v \in Users : HostsOK(v)'
    <3>. SUFFICES ASSUME NEW v \in Users, NEW p \in Positions, NEW q \in Positions, Turn(act', p, v)
                  PROVE  Here(v)' /\ ~Invited(act', v) /\ (Turn(act', q, v) => p = q)
      BY DEF HostsOK
    <3>1. ~Invited(act, v) /\ (Turn(act, q, v) => p = q)
      BY <1>1 DEF QInv, HostsOK
    <3>. QED
      BY <1>1, <1>2, <1>3, <3>1
  <2>. QED
    BY <1>1, <2>1 DEF QInv
<1>5. ASSUME NEW p \in Positions, \A q \in Positions \ {p} : ~Turn(act, q, u)
      PROVE  [Queue!Next]_(Queue!vars)
  <2>1. \A q \in Positions \ {p} : SameHosts(act[q], act'[q])
    BY <1>5, NoTurnSame
  <2>2. IInv
    BY DEF QInv
  <2>. QED
    BY <2>1, <2>2, QueueMoves
<1>6. CASE \E p \in Positions : Turn(act, p, u)
  BY <1>4, <1>5, <1>6 DEF QueueStep, QInv, HostsOK
<1>7. CASE Positions # {} /\ ~\E p \in Positions : Turn(act, p, u)
  BY <1>4, <1>5, <1>7 DEF QueueStep
<1>8. CASE Positions = {}
  <2>1. (Queue!vars)' = Queue!vars
    BY <1>8 DEF Queue!vars
  <2>. QED
    BY <1>4, <2>1 DEF QueueStep
<1>. QED
  BY <1>6, <1>7, <1>8

LEMMA OrderlyAfter ==
  ASSUME NEW p \in Positions, NEW a, PlaceOK(a, p), Orderly(a), NEW u \in Users,
         NEW b, Cancels(a, b, u)
  PROVE  Orderly(b) /\ ~TurnIn(Holders(b), Line(b), u)
<1>1. /\ Holders(a) \in [Desks(p) -> Users \cup {NoUser}] /\ Line(a) \in Seq(Users)
      /\ Single(Holders(a), Line(a))
  BY HostTypes DEF Orderly
<1>2. GivesTurn(Holders(a), Line(a), Holders(b), Line(b), u)
  BY DEF Cancels
<1>3. /\ Single(Holders(b), Line(b))
      /\ \A v \in Users : TurnIn(Holders(b), Line(b), v) =>
                           TurnIn(Holders(a), Line(a), v) /\ v # u
  BY <1>1, <1>2, GivenUp
<1>. QED
  BY <1>3 DEF Orderly, Cancels

LEMMA LeavesQ ==
  ASSUME QInv, IInv', NEW u \in Users, OutRoom(u) \/ RemoveFamily(u)
  PROVE  QueueStep
<1>. DEFINE once == AllActCancel(act, u, FALSE)
            b == IF Here(u) THEN once ELSE act
            c == AllActCancel(b, u, TRUE)
<1>1. \A v \in Users \ {u} : Here(v) => Here(v)'
  BY DEF QInv, IInv, OutRoom, RemoveFamily, Here
<1>2. ASSUME NEW p \in Positions
      PROVE  PlaceOK(once[p], p) /\ Cancels(act[p], once[p], u)
  <2>1. once[p] = ActWaitCancel(act[p], u, FALSE)
    BY DEF AllActCancel
  <2>. HIDE DEF once
  <2>2. PlaceOK(act[p], p) /\ Orderly(act[p])
    BY OrderlyPlace
  <2>. QED
    BY <2>1, <2>2, CancelOK, CancelHosts
<1>. HIDE DEF once
<1>3. CASE OutRoom(u)
  <2>1. act' = once
    BY <1>3 DEF OutRoom, once
  <2>2. \A p \in Positions : Gives(act[p], act'[p], u)
    BY <1>2, <2>1 DEF Cancels, Gives
  <2>3. \A p \in Positions, v \in Users : GuestAt(act'[p], v) => GuestAt(act[p], v)
    BY <1>2, <2>1 DEF Cancels
  <2>. QED
    BY <1>1, <2>2, <2>3, AllGive
<1>4. CASE RemoveFamily(u)
  <2>1. act' = c
    BY <1>4 DEF RemoveFamily, once
  <2>2. ASSUME NEW p \in Positions
        PROVE  /\ Gives(act[p], c[p], u)
               /\ \A v \in Users : GuestAt(c[p], v) => GuestAt(act[p], v)
    <3>1. c[p] = ActWaitCancel(b[p], u, TRUE)
      BY DEF AllActCancel
    <3>. HIDE DEF c
    <3>2. CASE Here(u)
      <4>1. b[p] = once[p]
        BY <3>2
      <4>2. PlaceOK(act[p], p) /\ Orderly(act[p])
        BY OrderlyPlace
      <4>3. Orderly(once[p]) /\ ~TurnIn(Holders(once[p]), Line(once[p]), u)
        BY <1>2, <4>2, OrderlyAfter
      <4>4. Cancels(once[p], c[p], u)
        BY <1>2, <3>1, <4>1, <4>3, CancelHosts
      <4>5. Holders(c[p]) = Holders(once[p]) /\ Line(c[p]) = Line(once[p])
        BY <4>3, <4>4 DEF Cancels, GivesTurn, TurnIn
      <4>6. Gives(act[p], c[p], u)
        BY <1>2, <4>5 DEF Cancels, Gives
      <4>. QED
        BY <1>2, <4>4, <4>6 DEF Cancels
    <3>3. CASE ~Here(u)
      <4>1. b[p] = act[p]
        BY <3>3
      <4>2. Cancels(act[p], c[p], u)
        BY <3>1, <4>1, OrderlyPlace, CancelHosts
      <4>. QED
        BY <4>2 DEF Cancels, Gives
    <3>. QED
      BY <3>2, <3>3
  <2>. HIDE DEF c
  <2>. QED
    BY <1>1, <2>1, <2>2, AllGive
<1>. QED
  BY <1>3, <1>4

LEMMA LineClosesQ ==
  ASSUME QInv, IInv', NEW p \in LuckAt, CancelActivityWaiting(p)
  PROVE  QueueStep
<1>. DEFINE b == [act[p] EXCEPT !.wait = <<>>]
<1>1. p \in Positions /\ PlaceOK(act[p], p)
  BY PlacesOK DEF QInv, IInv
<1>2. b.desk = act[p].desk /\ b.wait = <<>> /\ DOMAIN <<>> = {}
  BY <1>1 DEF PlaceOK
<1>3. act' = [act EXCEPT ![p] = b] /\ place' = place
  BY DEF CancelActivityWaiting, QInv, IInv
<1>. HIDE DEF b
<1>4. Closes(act[p], b) /\ \A v \in Users : GuestAt(b, v) => Invited(act, v)
  BY <1>1, <1>2 DEF Closes, Holders, Line, GuestAt, Invited
<1>5. CASE Users # {}
  BY <1>1, <1>3, <1>4, <1>5, OneKeeps DEF QueueStep
<1>6. CASE Users = {}
  <2>. DEFINE w == act[p].wait
  <2>1. w = <<>>
    <3>1. w \in Seq(Entries) /\ \A i \in DOMAIN w : Host(w[i]) \in Users
      BY <1>1 DEF PlaceOK, EntryOK
    <3>. HIDE DEF w
    <3>2. Len(w) \in Nat /\ DOMAIN w = 1 .. Len(w)
      BY <3>1
    <3>3. DOMAIN w = {}
      BY <1>6, <3>1
    <3>4. Len(w) = 0
      <4>1. Len(w) >= 1 => 1 \in DOMAIN w
        BY <3>2
      <4>. QED
        BY <3>2, <3>3, <4>1
    <3>. QED
      BY <3>1, <3>4
  <2>2. \A q \in Positions : act'[q] = act[q]
    <3>1. b = act[p]
      BY <1>1, <2>1 DEF b, PlaceOK
    <3>. QED
      BY <1>1, <1>3, <3>1 DEF QInv, IInv
  <2>3. \A v \in Users : HostsOK(v)'
    BY <1>6
  <2>. QED
    BY <2>2, <2>3 DEF QueueStep, QInv, Queue!vars
<1>. QED
  BY <1>5, <1>6
(* A turn of one's own: a free desk, or the end of the line. *)
LEMMA TurnTakenQ ==
  ASSUME QInv, IInv', place' = place, NEW u \in Users, NEW p \in Positions, Here(u), ~Busy(u),
         NEW x, x.host = u, NEW e, Host(e) = u,
         \A v \in Users : Joined(x, v) \/ Joined(e, v) => v # u /\ ~Busy(v),
         \/ Free(act[p]) # {} /\ act' = [act EXCEPT ![p].desk[First(Free(act[p]))] = x]
         \/ Free(act[p]) = {} /\ act' = [act EXCEPT ![p].wait = Append(act[p].wait, e)]
  PROVE  QueueStep
<1>. DEFINE a == act[p]
            h == Holders(a)
            l == Line(a)
<1>1. /\ PlaceOK(a, p) /\ DOMAIN act = Positions /\ DOMAIN a.desk = Desks(p) /\ IInv
      /\ h \in [Desks(p) -> Users \cup {NoUser}] /\ l \in Seq(Users)
  BY OrderlyPlace DEF QInv, IInv, PlaceOK
<1>2. ~Invited(act, u) /\ \A q \in Positions : ~Turn(act, q, u)
  BY <1>1, NotBusy
<1>3. \A v \in Users : Joined(x, v) \/ Joined(e, v) => v # u /\ \A q \in Positions : ~Turn(act, q, v)
  BY <1>1, NotBusy
<1>4. CASE Free(a) # {} /\ act' = [act EXCEPT ![p].desk[First(Free(a))] = x]
  <2>. DEFINE d == First(Free(a))
              b == [a EXCEPT !.desk[d] = x]
  <2>1. d \in Desks(p) /\ a.desk[d].host = NoUser
    BY <1>1, <1>4, FreeDeskOf
  <2>2. act' = [act EXCEPT ![p] = b]
    BY <1>1, <1>4
  <2>. HIDE DEF d
  <2>3. /\ b.wait = a.wait /\ DOMAIN b.desk = Desks(p)
        /\ b.desk[d] = x /\ \A c \in Desks(p) \ {d} : b.desk[c] = a.desk[c]
    BY <1>1, <2>1 DEF PlaceOK
  <2>. HIDE DEF b
  <2>4. Takes(a, b, u)
    <3>1. Line(b) = l
      BY <2>3 DEF Line
    <3>2. Holders(b) = [h EXCEPT ![d] = u]
      <4>1. \A c \in Desks(p) : b.desk[c].host = IF c = d THEN u ELSE a.desk[c].host
        BY <2>1, <2>3
      <4>2. Holders(b) = [c \in Desks(p) |-> IF c = d THEN u ELSE a.desk[c].host]
        BY <2>3, <4>1 DEF Holders
      <4>3. h = [c \in Desks(p) |-> a.desk[c].host]
        BY <1>1 DEF Holders
      <4>. HIDE DEF h
      <4>. QED
        BY <4>2, <4>3
    <3>3. d \in DOMAIN h /\ h[d] = NoUser
      BY <1>1, <2>1 DEF Holders
    <3>. HIDE DEF h, l
    <3>. QED
      BY <3>1, <3>2, <3>3 DEF Takes, TakesTurn, h, l
  <2>5. \A v \in Users : GuestAt(b, v) => GuestAt(a, v) \/ Joined(x, v)
    BY <1>1, <2>3 DEF GuestAt
  <2>6. \A v \in Users : GuestAt(b, v) =>
          Invited(act, v) \/ ((\A q \in Positions : ~Turn(act, q, v)) /\ v # u)
    BY <1>3, <2>5 DEF Invited
  <2>7. \/ SameHosts(act[p], b) \/ Gives(act[p], b, u) \/ Closes(act[p], b)
         \/ /\ Takes(act[p], b, u) /\ Here(u) /\ ~Invited(act, u)
            /\ \A q \in Positions : ~Turn(act, q, u)
    BY <1>2, <2>4
  <2>8. \A v \in Users : GuestAt(b, v) =>
          \/ Invited(act, v)
          \/ /\ \A q \in Positions : ~Turn(act, q, v)
             /\ v # u \/ SameHosts(act[p], b)
    BY <2>6
  <2>. HIDE DEF a, h, l
  <2>. QED
    BY <2>2, <2>7, <2>8, OneKeeps DEF QueueStep
<1>5. CASE Free(a) = {} /\ act' = [act EXCEPT ![p].wait = Append(a.wait, e)]
  <2>. DEFINE w == Append(a.wait, e)
              b == [a EXCEPT !.wait = w]
  <2>1. act' = [act EXCEPT ![p] = b]
    BY <1>1, <1>5
  <2>2. a.wait \in Seq(Entries) /\ Len(a.wait) \in Nat /\ DOMAIN a.wait = 1 .. Len(a.wait)
        /\ Len(l) = Len(a.wait)
    BY <1>1, HostTypes DEF PlaceOK
  <2>3. /\ DOMAIN w = 1 .. Len(a.wait) + 1 /\ w[Len(a.wait) + 1] = e
        /\ \A i \in DOMAIN a.wait : w[i] = a.wait[i]
    BY <2>2
  <2>4. b.desk = a.desk /\ b.wait = w
    BY <1>1 DEF PlaceOK
  <2>. HIDE DEF b, w
  <2>5. \A i \in DOMAIN w : i \in DOMAIN a.wait \/ i = Len(a.wait) + 1
    BY <2>2, <2>3
  <2>6. Line(b) = Append(l, u)
    <3>1. \A i \in DOMAIN a.wait : l[i] = Host(a.wait[i])
      BY DEF Line
    <3>. HIDE DEF l
    <3>2. Append(l, u) = [i \in 1 .. Len(a.wait) + 1 |-> IF i = Len(a.wait) + 1 THEN u ELSE l[i]]
      <4>1. Append(l, u) \in [1 .. Len(l) + 1 -> Users]
        <5>1. Append(l, u) \in Seq(Users) /\ Len(Append(l, u)) = Len(l) + 1
          BY <1>1, AppendProperties
        <5>. QED
          BY <5>1, LenProperties
      <4>2. \A i \in 1 .. Len(a.wait) + 1 : Append(l, u)[i] = IF i = Len(a.wait) + 1 THEN u ELSE l[i]
        BY <1>1, <2>2
      <4>. QED
        BY <2>2, <4>1, <4>2
    <3>3. Line(b) = [i \in 1 .. Len(a.wait) + 1 |-> Host(w[i])]
      BY <2>3, <2>4 DEF Line
    <3>4. \A i \in 1 .. Len(a.wait) + 1 : Host(w[i]) = IF i = Len(a.wait) + 1 THEN u ELSE l[i]
      BY <2>3, <2>5, <3>1
    <3>. QED
      BY <3>2, <3>3, <3>4
  <2>7. Holders(b) = h /\ \A d \in DOMAIN h : h[d] # NoUser
    BY <1>1, <1>5, <2>4 DEF Holders, Free
  <2>8. Takes(a, b, u)
    <3>. HIDE DEF h, l
    <3>. QED
      BY <2>6, <2>7 DEF Takes, TakesTurn, h, l
  <2>9. \A v \in Users : GuestAt(b, v) => GuestAt(a, v) \/ Joined(e, v)
    BY <2>3, <2>4, <2>5 DEF GuestAt
  <2>10. \A v \in Users : GuestAt(b, v) =>
          Invited(act, v) \/ ((\A q \in Positions : ~Turn(act, q, v)) /\ v # u)
    BY <1>3, <2>9 DEF Invited
  <2>11. \/ SameHosts(act[p], b) \/ Gives(act[p], b, u) \/ Closes(act[p], b)
         \/ /\ Takes(act[p], b, u) /\ Here(u) /\ ~Invited(act, u)
            /\ \A q \in Positions : ~Turn(act, q, u)
    BY <1>2, <2>8
  <2>12. \A v \in Users : GuestAt(b, v) =>
          \/ Invited(act, v)
          \/ /\ \A q \in Positions : ~Turn(act, q, v)
             /\ v # u \/ SameHosts(act[p], b)
    BY <2>10
  <2>. HIDE DEF a, h, l
  <2>. QED
    BY <2>1, <2>11, <2>12, OneKeeps DEF QueueStep
<1>. QED
  BY <1>4, <1>5

LEMMA SingleRequestQ ==
  ASSUME QInv, IInv', NEW u \in Users, NEW p \in Positions, ACT_REQ(u, p)
  PROVE  QueueStep
<1>. DEFINE x == [FreeDesk EXCEPT !.host = u, !.type = "single"]
            e == [type |-> "single", users |-> [i \in Seats |-> IF i = 0 THEN Asked(u) ELSE Nobody]]
<1>1. x.host = u /\ Host(e) = u /\ ~IsMulti(x) /\ ~IsMulti(e)
  BY SeatSet DEF FreeDesk, Host, IsMulti, Asked
<1>2. Here(u) /\ ~Busy(u) /\ place' = place
  BY DEF ACT_REQ
<1>3. \/ Free(act[p]) # {} /\ act' = [act EXCEPT ![p].desk[First(Free(act[p]))] = x]
      \/ Free(act[p]) = {} /\ act' = [act EXCEPT ![p].wait = Append(act[p].wait, e)]
  BY DEF ACT_REQ, QInv, IInv
<1>. HIDE DEF x, e
<1>4. \A v \in Users : ~Joined(x, v) /\ ~Joined(e, v)
  BY <1>1 DEF Joined
<1>. QED
  BY <1>1, <1>2, <1>3, <1>4, TurnTakenQ

LEMMA RequestQ ==
  ASSUME QInv, IInv', NEW u \in Users, NEW p \in Positions, NEW type \in MultiTypes,
         NEW guests \in [Joins -> (Users \ {u}) \cup {NoUser}],
         MULTIACT_REQ(u, p, type, guests)
  PROVE  QueueStep
<1>. DEFINE us == Party(u, guests)
            x == [host |-> u, flag |-> "no", type |-> type, users |-> us]
            e == [type |-> type, users |-> us]
<1>1. x.host = u /\ x.users = us /\ e.users = us
  OBVIOUS
<1>2. Here(u) /\ ~Busy(u) /\ place' = place
  BY DEF MULTIACT_REQ
<1>3. \/ Free(act[p]) # {} /\ act' = [act EXCEPT ![p].desk[First(Free(act[p]))] = x]
      \/ Free(act[p]) = {} /\ act' = [act EXCEPT ![p].wait = Append(act[p].wait, e)]
  BY DEF MULTIACT_REQ, QInv, IInv
<1>4. us[0].who = u /\ \A i \in Joins : us[i].who \in Users => us[i].who # u /\ ~Busy(us[i].who)
  <2>1. us[0].who = u
    BY SeatSet DEF Party
  <2>2. ASSUME NEW i \in Joins, us[i].who \in Users
        PROVE  us[i].who # u /\ ~Busy(us[i].who)
    <3>1. i \in Seats /\ i # 0
      BY SeatSet
    <3>2. us[i] = IF guests[i] = NoUser \/ Busy(guests[i]) THEN Nobody ELSE Asked(guests[i])
      BY <3>1 DEF Party
    <3>3. us[i].who # NoUser
      BY <2>2, UsersOK
    <3>4. us[i].who = guests[i] /\ ~Busy(guests[i]) /\ guests[i] # NoUser
      BY <3>2, <3>3 DEF Nobody, Asked
    <3>. QED
      BY <2>2, <3>4
  <2>. QED
    BY <2>1, <2>2
<1>. HIDE DEF us
<1>5. \A v \in Users : Joined(x, v) \/ Joined(e, v) => v # u /\ ~Busy(v)
  BY <1>4 DEF Joined
<1>6. Host(e) = u
  BY <1>4 DEF Host
<1>. HIDE DEF x, e
<1>. QED
  BY <1>1, <1>2, <1>3, <1>5, <1>6, TurnTakenQ
LEMMA SingleStartQ ==
  ASSUME QInv, IInv', NEW u \in Users, ACT_START(u)
  PROVE  QueueStep
<1>. DEFINE p == FirstPlace(u)
            d == First(DesksOf(act[p], u))
            y == [act[p].desk[d] EXCEPT !.flag = "started"]
<1>1. p \in Positions /\ place' = place
  BY PlaceOf DEF ACT_START
<1>2. DesksOf(act[p], u) # {} /\ act' = [act EXCEPT ![p].desk[d].flag = "started"]
  BY DEF ACT_START
<1>. HIDE DEF p
<1>3. PlaceOK(act[p], p) /\ DOMAIN act = Positions
  BY <1>1 DEF QInv, IInv
<1>4. d \in Desks(p) /\ act[p].desk[d] \in DeskTypes
  BY <1>1, <1>2, <1>3, DeskOf DEF DeskOK
<1>5. act' = [act EXCEPT ![p].desk[d] = y]
  BY <1>1, <1>2, <1>3, <1>4 DEF PlaceOK
<1>. HIDE DEF d
<1>6. y.host = act[p].desk[d].host /\ y.type = act[p].desk[d].type /\ y.users = act[p].desk[d].users
  BY <1>4 DEF DeskTypes
<1>. HIDE DEF y
<1>7. \A v \in Users : Joined(y, v) => Joined(act[p].desk[d], v)
  BY <1>6 DEF Joined, IsMulti
<1>. QED
  BY <1>1, <1>4, <1>5, <1>6, <1>7, DeskQ

(* A seat that changes makes a guest of nobody but who sits on it. *)
LEMMA SeatTaken ==
  ASSUME NEW x, x \in DeskTypes \/ x \in Entries, NEW j \in Seats, NEW s \in SeatTypes
  PROVE  LET y == [x EXCEPT !.users[j] = s]
         IN /\ \A v : Joined(y, v) => Joined(x, v) \/ v = s.who
            /\ x \in DeskTypes => y.host = x.host
            /\ j # 0 => Host(y) = Host(x)
<1>. DEFINE y == [x EXCEPT !.users[j] = s]
<1>1. /\ y.type = x.type /\ y.users[j] = s /\ \A i \in Seats \ {j} : y.users[i] = x.users[i]
      /\ x \in DeskTypes => y.host = x.host
  BY DEF DeskTypes, Entries
<1>. HIDE DEF y
<1>2. \A v : Joined(y, v) => Joined(x, v) \/ v = s.who
  BY <1>1, SeatSet DEF Joined, IsMulti
<1>3. j # 0 => Host(y) = Host(x)
  BY <1>1, SeatSet DEF Host
<1>. QED
  BY <1>1, <1>2, <1>3 DEF y

LEMMA OnlineMilder ==
  ASSUME NEW x, x \in DeskTypes \/ x \in Entries
  PROVE  /\ \A v \in Users : Joined(OnlyOnline(x), v) => Joined(x, v)
         /\ Host(OnlyOnline(x)) = Host(x)
         /\ x \in DeskTypes => OnlyOnline(x).host = x.host
<1>. DEFINE us == [i \in Seats |-> IF i # 0 /\ x.users[i].who # NoUser /\ ~Online(x.users[i].who)
                                  THEN [x.users[i] EXCEPT !.who = NoUser] ELSE x.users[i]]
            y == [x EXCEPT !.users = us]
<1>1. \A i \in Seats : x.users[i] \in SeatTypes
  BY DEF DeskTypes, Entries
<1>2. us[0] = x.users[0] /\ \A i \in Seats : us[i].who = x.users[i].who \/ us[i].who = NoUser
  BY <1>1, SeatSet DEF SeatTypes
<1>3. OnlyOnline(x) = y
  BY DEF OnlyOnline, DeskTypes, Entries
<1>. HIDE DEF us
<1>4. y.users = us /\ y.type = x.type /\ (x \in DeskTypes => y.host = x.host)
  BY DEF DeskTypes, Entries
<1>. HIDE DEF y
<1>5. \A v \in Users : Joined(y, v) => Joined(x, v)
  BY <1>2, <1>4, SeatSet, UsersOK DEF Joined, IsMulti
<1>6. Host(y) = Host(x)
  BY <1>2, <1>4 DEF Host
<1>. QED
  BY <1>3, <1>4, <1>5, <1>6

LEMMA FamilyAdded ==
  ASSUME NEW x, x \in DeskTypes \/ x \in Entries, NEW v \in Users
  PROVE  /\ AddFamily(x, v) \in DeskTypes \/ AddFamily(x, v) \in Entries
         /\ \A g \in Users : Joined(AddFamily(x, v), g) => Joined(x, g) \/ g = v
         /\ Host(x) # NoUser => Host(AddFamily(x, v)) = Host(x)
         /\ x \in DeskTypes => AddFamily(x, v) \in DeskTypes /\ AddFamily(x, v).host = x.host
<1>. DEFINE j == First(EmptySeats(x, Seats))
            y == [x EXCEPT !.users[j] = Asked(v)]
<1>1. CASE EmptySeats(x, Seats) = {}
  BY <1>1 DEF AddFamily
<1>2. CASE EmptySeats(x, Seats) # {}
  <2>1. j \in Seats /\ x.users[j].who = NoUser
    <3>1. EmptySeats(x, Seats) \subseteq Nat
      BY SeatSet DEF EmptySeats
    <3>2. j \in EmptySeats(x, Seats)
      BY <1>2, <3>1, FirstIn
    <3>. QED
      BY <3>2 DEF EmptySeats
  <2>2. AddFamily(x, v) = y
    BY <1>2 DEF AddFamily
  <2>. HIDE DEF j
  <2>3. Host(x) # NoUser => j # 0
    BY <2>1 DEF Host
  <2>4. Asked(v) \in SeatTypes /\ Asked(v).who = v
    BY NobodySits DEF Asked
  <2>5. (x \in DeskTypes => y \in DeskTypes) /\ (x \in Entries => y \in Entries)
    BY <2>1, <2>4 DEF DeskTypes, Entries
  <2>6. /\ \A g : Joined(y, g) => Joined(x, g) \/ g = v
        /\ x \in DeskTypes => y.host = x.host
        /\ j # 0 => Host(y) = Host(x)
    BY <2>1, <2>4, SeatTaken
  <2>. HIDE DEF y
  <2>. QED
    BY <2>2, <2>3, <2>5, <2>6
<1>. QED
  BY <1>1, <1>2

LEMMA RequestAddQ ==
  ASSUME QInv, IInv', NEW u \in Users, NEW p \in Positions, NEW v \in Users, MULTIACT_REQADD(u, p, v)
  PROVE  QueueStep
<1>. DEFINE a == act[p]
            d == IF Waits THEN 0 ELSE First(Hosted(a, u))
            own == {i \in DOMAIN a.wait : IsMulti(a.wait[i]) /\ Host(a.wait[i]) = u}
            Added(x) == IF Online(v) /\ ~Busy(v) THEN AddFamily(x, v) ELSE x
            With(x) == OnlyOnline(Added(x))
<1>1. place' = place /\ PlaceOK(a, p) /\ u # NoUser /\ IInv /\ DOMAIN act = Positions
  BY UsersOK DEF QInv, IInv, MULTIACT_REQADD
<1>2. d \in Desks(p)
  <2>1. 0 \in Desks(p)
    BY DesksOK DEF Desks
  <2>2. CASE ~Waits
    <3>1. Hosted(a, u) # {}
      BY <2>2, Zenon DEF MULTIACT_REQADD
    <3>. QED
      BY <1>1, <2>2, <3>1, HostedOf
  <2>. QED
    BY <2>1, <2>2
<1>3. ASSUME NEW x, x \in DeskTypes \/ x \in Entries
      PROVE  /\ \A g \in Users : Joined(With(x), g) =>
                  Joined(x, g) \/ \A q \in Positions : ~Turn(act, q, g)
             /\ Host(x) # NoUser => Host(With(x)) = Host(x)
             /\ x \in DeskTypes => With(x).host = x.host
  <2>. DEFINE y == Added(x)
  <2>1. /\ y \in DeskTypes \/ y \in Entries
        /\ \A g \in Users : Joined(y, g) => Joined(x, g) \/ (g = v /\ ~Busy(v))
        /\ Host(x) # NoUser => Host(y) = Host(x)
        /\ x \in DeskTypes => y \in DeskTypes /\ y.host = x.host
    BY <1>3, FamilyAdded
  <2>. HIDE DEF Added
  <2>2. /\ \A g \in Users : Joined(OnlyOnline(y), g) => Joined(y, g)
        /\ Host(OnlyOnline(y)) = Host(y)
        /\ y \in DeskTypes => OnlyOnline(y).host = y.host
    BY <2>1, OnlineMilder
  <2>3. ~Busy(v) => \A q \in Positions : ~Turn(act, q, v)
    BY <1>1, NotBusy
  <2>. HIDE DEF y
  <2>4. With(x) = OnlyOnline(y)
    BY DEF y
  <2>. HIDE DEF With
  <2>. QED
    BY <2>1, <2>2, <2>3, <2>4
<1>4. CASE act' = [act EXCEPT ![p].desk[d] = With(@)]
  <2>. DEFINE x == With(a.desk[d])
  <2>1. act' = [act EXCEPT ![p].desk[d] = x]
    BY <1>4
  <2>. HIDE DEF d
  <2>2. a.desk[d] \in DeskTypes
    BY <1>1, <1>2 DEF PlaceOK, DeskOK
  <2>3. /\ x.host = a.desk[d].host
        /\ \A g \in Users : Joined(x, g) => Joined(a.desk[d], g) \/ \A q \in Positions : ~Turn(act, q, g)
    BY <1>3, <2>2
  <2>. HIDE DEF x, With
  <2>. QED
    BY <1>1, <1>2, <2>1, <2>3, DeskQ
<1>5. CASE own # {} /\ act' = [act EXCEPT ![p].wait[First(own)] = With(@)]
  <2>. DEFINE k == First(own)
              e == With(a.wait[k])
  <2>1. k \in DOMAIN a.wait
    <3>1. own \subseteq Nat
      BY <1>1 DEF PlaceOK
    <3>2. k \in own
      <4>. HIDE DEF own
      <4>. QED
        BY <1>5, <3>1, FirstIn
    <3>. QED
      BY <3>2
  <2>2. act' = [act EXCEPT ![p].wait[k] = e]
    BY <1>5
  <2>. HIDE DEF k
  <2>3. a.wait[k] \in Entries /\ Host(a.wait[k]) # NoUser
    BY <1>1, <2>1, UsersOK DEF PlaceOK, EntryOK
  <2>4. /\ Host(e) = Host(a.wait[k])
        /\ \A g \in Users : Joined(e, g) => Joined(a.wait[k], g) \/ \A q \in Positions : ~Turn(act, q, g)
    BY <1>3, <2>3
  <2>. HIDE DEF e, With
  <2>. QED
    BY <1>1, <2>1, <2>2, <2>4, TurnQ
<1>. QED
  BY <1>4, <1>5 DEF MULTIACT_REQADD

LEMMA JoinQ ==
  ASSUME QInv, IInv', NEW u \in Users, NEW p \in Positions, MULTIACT2_JOIN(u, p)
  PROVE  QueueStep
<1>. DEFINE x == act[p].desk[0]
            j == First(EmptySeats(x, Joins))
            y == [x EXCEPT !.users[j] = Asked(u)]
<1>1. /\ place' = place /\ PlaceOK(act[p], p) /\ 0 \in Desks(p) /\ IInv
      /\ \A q \in Positions : ~Turn(act, q, u)
  <2>1. 0 \in Desks(p)
    BY DesksOK DEF Desks
  <2>2. IInv /\ ~Committed(u)
    BY DEF QInv, MULTIACT2_JOIN
  <2>3. \A q \in Positions : ~Turn(act, q, u)
    BY <2>2, NotCommitted
  <2>. QED
    BY <2>1, <2>2, <2>3 DEF IInv, MULTIACT2_JOIN
<1>2. EmptySeats(x, Joins) # {}
  BY DEF MULTIACT2_JOIN
<1>3. j \in Seats
  <2>1. EmptySeats(x, Joins) \subseteq Nat
    BY SeatSet DEF EmptySeats
  <2>2. j \in EmptySeats(x, Joins)
    BY <1>2, <2>1, FirstIn
  <2>. QED
    BY <2>2, SeatSet DEF EmptySeats
<1>4. act' = [act EXCEPT ![p].desk[0] = y]
  BY <1>1, Zenon DEF MULTIACT2_JOIN, IInv, PlaceOK
<1>. HIDE DEF j
<1>5. x \in DeskTypes /\ Asked(u) \in SeatTypes /\ Asked(u).who = u
  BY <1>1, NobodySits DEF PlaceOK, Asked
<1>6. y.host = x.host /\ \A v : Joined(y, v) => Joined(x, v) \/ v = u
  BY <1>3, <1>5, SeatTaken
<1>. HIDE DEF y
<1>. DEFINE d == 0
<1>7. /\ d \in Desks(p) /\ act' = [act EXCEPT ![p].desk[d] = y] /\ y.host = act[p].desk[d].host
  BY <1>1, <1>4, <1>6
<1>8. \A v \in Users : Joined(y, v) =>
        Joined(act[p].desk[d], v) \/ \A q \in Positions : ~Turn(act, q, v)
  BY <1>1, <1>6
<1>. HIDE DEF d
<1>. QED
  BY <1>1, <1>7, <1>8, DeskQ
(* The answers and reports of guests, by their effect on one rite. *)
LEMMA AnswerQ ==
  ASSUME QInv, IInv', NEW u \in Users, NEW p \in Positions, NEW yes \in BOOLEAN, MULTIACT_ANS(u, p, yes)
  PROVE  QueueStep
<1>. DEFINE Answered(x) ==
              IF ~Joined(x, u) \/ x.users[SeatOf(x, u)].status # "NONE" THEN x
              ELSE IF yes THEN [x EXCEPT !.users[SeatOf(x, u)].status = "ACCEPT"]
              ELSE [x EXCEPT !.users[SeatOf(x, u)].who = NoUser]
            s(x) == IF yes THEN [x.users[SeatOf(x, u)] EXCEPT !.status = "ACCEPT"]
                    ELSE [x.users[SeatOf(x, u)] EXCEPT !.who = NoUser]
<1>1. PlaceOK(act[p], p) /\ place' = place
  BY DEF QInv, IInv, MULTIACT_ANS
<1>2. ASSUME NEW x, x \in DeskTypes \/ x \in Entries
      PROVE  /\ \A v \in Users : Joined(Answered(x), v) => Joined(x, v)
             /\ Host(Answered(x)) = Host(x)
             /\ x \in DeskTypes => Answered(x).host = x.host
  <2>. DEFINE j == SeatOf(x, u)
  <2>1. CASE ~Joined(x, u) \/ x.users[j].status # "NONE"
    BY <2>1
  <2>2. CASE Joined(x, u) /\ x.users[j].status = "NONE"
    <3>1. j \in Joins /\ x.users[j].who = u /\ j \in Seats /\ j # 0
      BY <2>2, SeatOfGuest, SeatSet
    <3>2. x.users[j] \in SeatTypes
      BY <1>2, <3>1 DEF DeskTypes, Entries
    <3>3. s(x) \in SeatTypes /\ s(x).who \in {u, NoUser}
      BY <3>1, <3>2 DEF SeatTypes, Statuses
    <3>4. Answered(x) = [x EXCEPT !.users[j] = s(x)]
      BY <1>2, <2>2, <3>1, <3>2 DEF DeskTypes, Entries
    <3>. HIDE DEF j, s, Answered
    <3>5. /\ \A v : Joined(Answered(x), v) => Joined(x, v) \/ v = s(x).who
          /\ Host(Answered(x)) = Host(x)
          /\ x \in DeskTypes => Answered(x).host = x.host
      BY <1>2, <3>1, <3>3, <3>4, SeatTaken
    <3>. QED
      BY <2>2, <3>3, <3>5, UsersOK
  <2>. QED
    BY <2>1, <2>2
<1>. DEFINE d == First(GroupDesks(act[p], u))
            i == First(GroupTurns(act[p], u))
            y == Answered(act[p].desk[d])
            e == Answered(act[p].wait[i])
<1>3. act' = [act EXCEPT ![p] =
               IF GroupDesks(act[p], u) # {} THEN [act[p] EXCEPT !.desk[d] = y]
               ELSE IF GroupTurns(act[p], u) # {} THEN [act[p] EXCEPT !.wait[i] = e] ELSE act[p]]
  BY DEF MULTIACT_ANS, Group
<1>4. GroupDesks(act[p], u) # {} =>
        y.host = act[p].desk[d].host /\ \A v \in Users : Joined(y, v) => Joined(act[p].desk[d], v)
  BY <1>1, <1>2, GroupDesk DEF DeskOK
<1>5. GroupTurns(act[p], u) # {} =>
        Host(e) = Host(act[p].wait[i]) /\ \A v \in Users : Joined(e, v) => Joined(act[p].wait[i], v)
  BY <1>1, <1>2, GroupTurn DEF EntryOK
<1>. HIDE DEF y, e
<1>. QED
  BY <1>1, <1>3, <1>4, <1>5, GroupQ

LEMMA ReadyQ ==
  ASSUME QInv, IInv', NEW u \in Users, NEW p \in Positions, MULTIACT_READY(u, p)
  PROVE  QueueStep
<1>. DEFINE Prepared(x) ==
              IF ~Joined(x, u) \/ x.users[SeatOf(x, u)].status # "ACCEPT" THEN x
              ELSE [x EXCEPT !.users[SeatOf(x, u)].status = "READY"]
            s(x) == [x.users[SeatOf(x, u)] EXCEPT !.status = "READY"]
<1>1. PlaceOK(act[p], p) /\ place' = place
  BY DEF QInv, IInv, MULTIACT_READY
<1>2. ASSUME NEW x, x \in DeskTypes \/ x \in Entries
      PROVE  /\ \A v \in Users : Joined(Prepared(x), v) => Joined(x, v)
             /\ Host(Prepared(x)) = Host(x)
             /\ x \in DeskTypes => Prepared(x).host = x.host
  <2>. DEFINE j == SeatOf(x, u)
  <2>1. CASE ~Joined(x, u) \/ x.users[j].status # "ACCEPT"
    BY <2>1
  <2>2. CASE Joined(x, u) /\ x.users[j].status = "ACCEPT"
    <3>1. j \in Joins /\ x.users[j].who = u /\ j \in Seats /\ j # 0
      BY <2>2, SeatOfGuest, SeatSet
    <3>2. x.users[j] \in SeatTypes
      BY <1>2, <3>1 DEF DeskTypes, Entries
    <3>3. s(x) \in SeatTypes /\ s(x).who = u
      BY <3>1, <3>2 DEF SeatTypes, Statuses
    <3>4. Prepared(x) = [x EXCEPT !.users[j] = s(x)]
      BY <1>2, <2>2, <3>1, <3>2 DEF DeskTypes, Entries
    <3>. HIDE DEF j, s, Prepared
    <3>5. /\ \A v : Joined(Prepared(x), v) => Joined(x, v) \/ v = s(x).who
          /\ Host(Prepared(x)) = Host(x)
          /\ x \in DeskTypes => Prepared(x).host = x.host
      BY <1>2, <3>1, <3>3, <3>4, SeatTaken
    <3>. QED
      BY <2>2, <3>3, <3>5
  <2>. QED
    BY <2>1, <2>2
<1>. DEFINE d == First(GroupDesks(act[p], u))
            i == First(GroupTurns(act[p], u))
            y == Prepared(act[p].desk[d])
            e == Prepared(act[p].wait[i])
<1>3. act' = [act EXCEPT ![p] =
               IF GroupDesks(act[p], u) # {} THEN [act[p] EXCEPT !.desk[d] = y]
               ELSE IF GroupTurns(act[p], u) # {} THEN [act[p] EXCEPT !.wait[i] = e] ELSE act[p]]
  BY DEF MULTIACT_READY, Group
<1>4. GroupDesks(act[p], u) # {} =>
        y.host = act[p].desk[d].host /\ \A v \in Users : Joined(y, v) => Joined(act[p].desk[d], v)
  BY <1>1, <1>2, GroupDesk DEF DeskOK
<1>5. GroupTurns(act[p], u) # {} =>
        Host(e) = Host(act[p].wait[i]) /\ \A v \in Users : Joined(e, v) => Joined(act[p].wait[i], v)
  BY <1>1, <1>2, GroupTurn DEF EntryOK
<1>. HIDE DEF y, e
<1>. QED
  BY <1>1, <1>3, <1>4, <1>5, GroupQ

LEMMA GoQ ==
  ASSUME QInv, IInv', NEW u \in Users, NEW p \in Positions, MULTIACT_GO(u, p)
  PROVE  QueueStep
<1>. DEFINE d == First(Hosted(act[p], u))
            x == act[p].desk[d]
            ready == {i \in Seats : x.users[i].who # NoUser /\ x.users[i].status = "READY"}
            stays(i) == i \in ready /\ Online(x.users[i].who)
            us == [i \in Seats |-> IF stays(i) THEN x.users[i]
                                   ELSE [x.users[i] EXCEPT !.who = NoUser]]
            t == IF Cardinality(ready) = 1 /\ x.type = "pray" THEN "single" ELSE x.type
            y == [x EXCEPT !.flag = "go", !.type = t, !.users = us]
<1>1. PlaceOK(act[p], p) /\ place' = place /\ Hosted(act[p], u) # {}
  BY DEF QInv, IInv, MULTIACT_GO
<1>2. d \in Desks(p) /\ DeskOK(x)
  BY <1>1, HostedOf
<1>3. x \in DeskTypes /\ \A i \in Seats : x.users[i] \in SeatTypes
  BY <1>2 DEF DeskOK, DeskTypes
<1>4. act' = [act EXCEPT ![p].desk[d] = y]
  <2>1. y = [x EXCEPT !.flag = "go",
                    !.type = IF Cardinality(ready) = 1 /\ @ = "pray" THEN "single" ELSE @,
                    !.users = [i \in Seats |-> IF stays(i) THEN @[i]
                                               ELSE [@[i] EXCEPT !.who = NoUser]]]
    BY <1>3 DEF DeskTypes
  <2>. QED
    BY <2>1, Zenon DEF MULTIACT_GO
<1>. HIDE DEF d
<1>5. \A i \in Seats : us[i].who = x.users[i].who \/ us[i].who = NoUser
  BY <1>3 DEF SeatTypes
<1>6. t = x.type \/ t = "single"
  OBVIOUS
<1>. HIDE DEF us, t
<1>7. y.host = x.host /\ y.users = us /\ y.type = t
  BY <1>3 DEF DeskTypes
<1>. HIDE DEF y
<1>8. \A v \in Users : Joined(y, v) => Joined(x, v)
  BY <1>5, <1>6, <1>7, SeatSet, UsersOK DEF Joined, IsMulti
<1>. QED
  BY <1>1, <1>2, <1>4, <1>7, <1>8, DeskQ

LEMMA StartQ ==
  ASSUME QInv, IInv', NEW u \in Users, NEW p \in Positions, MULTIACT_START(u, p)
  PROVE  QueueStep
<1>. DEFINE d == First(Shared(act[p], u))
            x == act[p].desk[d]
            us == [i \in Seats |-> IF x.users[i].who = u
                                   THEN [x.users[i] EXCEPT !.status = "START"] ELSE x.users[i]]
            y == [x EXCEPT !.users = us]
            z == CheckMultiactAllStarted(y)
<1>1. PlaceOK(act[p], p) /\ place' = place /\ Shared(act[p], u) # {}
  BY DEF QInv, IInv, MULTIACT_START
<1>2. d \in Desks(p) /\ DeskOK(x)
  BY <1>1, SharedOf
<1>3. x \in DeskTypes /\ \A i \in Seats : x.users[i] \in SeatTypes
  BY <1>2 DEF DeskOK, DeskTypes
<1>4. act' = [act EXCEPT ![p].desk[d] = z]
  <2>1. y = [x EXCEPT !.users = [i \in Seats |-> IF @[i].who = u
                                   THEN [@[i] EXCEPT !.status = "START"] ELSE @[i]]]
    BY <1>3 DEF DeskTypes
  <2>. QED
    BY <2>1, Zenon DEF MULTIACT_START
<1>. HIDE DEF d
<1>5. us \in [Seats -> SeatTypes] /\ \A i \in Seats : us[i].who = x.users[i].who
  BY <1>3 DEF SeatTypes, Statuses
<1>. HIDE DEF us
<1>6. y \in DeskTypes /\ y.host = x.host /\ y.type = x.type /\ y.users = us
  BY <1>3, <1>5 DEF DeskTypes
<1>. HIDE DEF y
<1>7. \A v \in Users : Joined(y, v) => Joined(x, v)
  BY <1>5, <1>6, SeatSet DEF Joined, IsMulti
<1>8. z.host = y.host
  BY <1>6 DEF CheckMultiactAllStarted, DeskTypes
<1>9. \A v \in Users : Joined(z, v) => Joined(y, v)
  BY <1>6, CheckMilder
<1>. HIDE DEF z
<1>. QED
  BY <1>1, <1>2, <1>4, <1>6, <1>7, <1>8, <1>9, DeskQ

LEMMA CallOffQ ==
  ASSUME QInv, IInv', NEW u \in Users, NEW p \in Positions, MULTIACT_CANCEL(u, p)
  PROVE  QueueStep
<1>. DEFINE a == act[p]
            d == First(GroupDesks(a, u))
            i == First(GroupTurns(a, u))
            Left(y) == [y EXCEPT !.users[SeatOf(y, u)] = Nobody]
            LeftDesk(y) == CheckMultiactAllStarted(Left(y))
<1>1. place' = place /\ PlaceOK(a, p) /\ u # NoUser /\ DOMAIN act = Positions
  BY UsersOK DEF QInv, IInv, MULTIACT_CANCEL
<1>2. CASE act' = [act EXCEPT ![p] = ActWaitCancel(a, u, TRUE)]
  BY <1>1, <1>2, CancelQ
<1>3. ASSUME NEW x, x \in DeskTypes \/ x \in Entries, InGroup(x, u), Host(x) # u
      PROVE  /\ Host(Left(x)) = Host(x) /\ \A v \in Users : Joined(Left(x), v) => Joined(x, v)
             /\ x \in DeskTypes => Left(x) \in DeskTypes /\ Left(x).host = x.host
  <2>1. Joined(x, u)
    BY <1>3 DEF InGroup, Joined, Host, Joins
  <2>2. SeatOf(x, u) \in Seats /\ SeatOf(x, u) # 0
    BY <2>1, SeatOfGuest, SeatSet
  <2>3. Nobody \in SeatTypes /\ Nobody.who = NoUser
    BY NobodySits
  <2>4. x \in DeskTypes => Left(x) \in DeskTypes
    BY <2>2, <2>3 DEF DeskTypes
  <2>5. /\ \A v : Joined(Left(x), v) => Joined(x, v) \/ v = Nobody.who
        /\ x \in DeskTypes => Left(x).host = x.host
        /\ Host(Left(x)) = Host(x)
    BY <1>3, <2>2, <2>3, SeatTaken
  <2>. HIDE DEF Left
  <2>. QED
    BY <2>3, <2>4, <2>5, UsersOK
<1>4. CASE /\ GroupDesks(a, u) # {} /\ Host(a.desk[d]) # u
           /\ act' = [act EXCEPT ![p] = [a EXCEPT !.desk[d] = LeftDesk(@)]]
  <2>. DEFINE x == a.desk[d]
              y == Left(x)
              z == LeftDesk(x)
  <2>1. d \in Desks(p) /\ x \in DeskTypes /\ InGroup(x, u)
    BY <1>1, <1>4, GroupDesk DEF DeskOK
  <2>2. act' = [act EXCEPT ![p].desk[d] = z]
    BY <1>4
  <2>. HIDE DEF d
  <2>3. /\ y \in DeskTypes /\ y.host = x.host /\ \A v \in Users : Joined(y, v) => Joined(x, v)
    BY <1>3, <1>4, <2>1
  <2>. HIDE DEF y
  <2>4. z = CheckMultiactAllStarted(y)
    BY DEF y
  <2>. HIDE DEF z
  <2>5. z.host = y.host /\ \A v \in Users : Joined(z, v) => Joined(y, v)
    <3>1. CheckMultiactAllStarted(y).host = y.host
      BY <2>3 DEF CheckMultiactAllStarted, DeskTypes
    <3>. QED
      BY <2>3, <2>4, <3>1, CheckMilder
  <2>. QED
    BY <1>1, <2>1, <2>2, <2>3, <2>5, DeskQ
<1>5. CASE /\ GroupDesks(a, u) = {} /\ GroupTurns(a, u) # {} /\ Host(a.wait[i]) # u
           /\ act' = [act EXCEPT ![p] = [a EXCEPT !.wait[i] = Left(@)]]
  <2>. DEFINE e == Left(a.wait[i])
  <2>1. i \in DOMAIN a.wait /\ a.wait[i] \in Entries /\ InGroup(a.wait[i], u)
    BY <1>1, <1>5, GroupTurn DEF EntryOK
  <2>2. act' = [act EXCEPT ![p].wait[i] = e]
    BY <1>5
  <2>. HIDE DEF i
  <2>3. Host(e) = Host(a.wait[i]) /\ \A v \in Users : Joined(e, v) => Joined(a.wait[i], v)
    BY <1>3, <1>5, <2>1
  <2>. HIDE DEF e
  <2>. QED
    BY <1>1, <2>1, <2>2, <2>3, TurnQ
<1>. QED
  BY <1>2, <1>4, <1>5 DEF MULTIACT_CANCEL, Group

-----------------------------------------------------------------------------
(* The theorems.                                                           *)

LEMMA Starts ==
  ASSUME Init
  PROVE  IInv
<1>1. place \in [Users -> {"here", "elsewhere", "offline"}] /\ DOMAIN act = Positions
  BY DEF Init
<1>2. ASSUME NEW p \in Positions
      PROVE  PlaceOK(act[p], p)
  <2>. DEFINE f == [d \in Desks(p) |-> FreeDesk]
  <2>1. act[p] = [desk |-> f, wait |-> <<>>]
    BY <1>2 DEF Init
  <2>2. f \in [Desks(p) -> DeskTypes] /\ \A d \in Desks(p) : DeskOK(f[d])
    BY FreeDeskOK DEF DeskOK
  <2>3. <<>> \in Seq(Entries) /\ DOMAIN <<>> = {}
    OBVIOUS
  <2>. HIDE DEF f
  <2>4. PlaceOK([desk |-> f, wait |-> <<>>], p)
    BY <1>2, <2>2, <2>3, NewPlace
  <2>. QED
    BY <2>1, <2>4
<1>. QED
  BY <1>1, <1>2 DEF IInv

LEMMA Preserved ==
  ASSUME IInv, [Next]_vars
  PROVE  IInv'
<1>1. CASE UNCHANGED vars
  BY <1>1 DEF vars, IInv, PlaceOK, DeskOK, EntryOK, SeatsOK, GoOK, Host, IsMulti, AllStarted
<1>2. ASSUME NEW u \in Users, NEW p \in MultiAt, Multi(u, p)
      PROVE  IInv'
  <2>1. p \in Positions
    BY <1>2, PlacesOK
  <2>2. ASSUME NEW type \in MultiTypes, NEW guests \in [Joins -> (Users \ {u}) \cup {NoUser}],
               MULTIACT_REQ(u, p, type, guests)
        PROVE  IInv'
    BY <2>1, <2>2, Request
  <2>3. ASSUME NEW v \in Users, MULTIACT_REQADD(u, p, v)
        PROVE  IInv'
    BY <2>1, <2>3, RequestAdd
  <2>4. ASSUME NEW yes \in BOOLEAN, MULTIACT_ANS(u, p, yes)
        PROVE  IInv'
    BY <2>1, <2>4, Answer
  <2>5. \/ MULTIACT2_JOIN(u, p) \/ MULTIACT_READY(u, p) \/ MULTIACT_GO(u, p)
        \/ MULTIACT_START(u, p) \/ MULTIACT_RELEASE(u, p) \/ MULTIACT_CANCEL(u, p)
        => IInv'
    BY <2>1, Join, Ready, Go, Start, GivesUp, CallOff
  <2>. QED
    BY <1>2, <2>2, <2>3, <2>4, <2>5 DEF Multi
<1>3. ASSUME NEW u \in Users, NEW p \in Positions, ACT_REQ(u, p) \/ ACT_WAIT_CANCEL(u, p)
      PROVE  IInv'
  BY <1>3, SingleRequest, GivesUp
<1>4. ASSUME NEW u \in Users,
             \/ LogIn(u) \/ EnterRoom(u) \/ OutRoom(u) \/ RemoveFamily(u)
             \/ ACT_START(u) \/ ACT_RELEASE(u)
      PROVE  IInv'
  <2>1. ASSUME ACT_RELEASE(u) PROVE IInv'
    <3>1. FirstPlace(u) \in Positions
      BY <2>1, PlaceOf DEF ACT_RELEASE
    <3>. QED
      BY <2>1, <3>1, GivesUp
  <2>. QED
    BY <1>4, <2>1, ComesAndGoes, SingleStart
<1>5. CASE Next
  BY <1>2, <1>3, <1>4, <1>5, LineCloses DEF Next
<1>. QED
  BY <1>1, <1>5

(* Desks, seats and turns keep their types, and a desk that is given up is *)
(* as init leaves it, whatever users ask for in whatever order.            *)
THEOREM ActivityTypes == Spec => []TypeOK
<1>1. IInv => TypeOK
  BY DEF IInv, TypeOK, PlaceOK, DeskOK, Free
<1>. QED
  BY Starts, Preserved, <1>1, PTL DEF Spec

(* Nobody waits at a place with a free desk: in ActWaitCancel, the requests*)
(* and the loss of a user, for any number of users, places and desks.      *)
THEOREM DesksInUse == Spec => []NoIdleDesk
<1>1. IInv => NoIdleDesk
  BY DEF IInv, NoIdleDesk, PlaceOK, Free
<1>. QED
  BY Starts, Preserved, <1>1, PTL DEF Spec

(* A rite everybody has started is marked as started, so its guests are    *)
(* told, provided no client invites guests after it has said GO.           *)
THEOREM StartsTold == ~LateInvites => (Spec => []StartNotMissed)
<1>1. ASSUME ~LateInvites
      PROVE  IInv => StartNotMissed
  <2>. SUFFICES ASSUME IInv, NEW p \in Positions, NEW d \in Desks(p),
                       act[p].desk[d].host # NoUser, IsMulti(act[p].desk[d]),
                       AllStarted(act[p].desk[d])
                PROVE  act[p].desk[d].flag = "started"
    BY DEF StartNotMissed
  <2>. DEFINE x == act[p].desk[d]
  <2>1. x \in DeskTypes /\ SeatsOK(x) /\ GoOK(x)
    BY <1>1 DEF IInv, PlaceOK, DeskOK
  <2>2. x.flag # "no"
    BY <2>1, SeatSet DEF SeatsOK, Host, AllStarted
  <2>3. x.flag # "go"
    BY <2>1 DEF GoOK
  <2>. QED
    BY <2>1, <2>2, <2>3 DEF DeskTypes
<1>2. CASE ~LateInvites
  BY <1>1, <1>2, Starts, Preserved, PTL DEF Spec
<1>. QED
  BY <1>2

(* The channel begins with no turn anywhere. *)
LEMMA StartsQ ==
  ASSUME Init
  PROVE  QInv
<1>1. IInv
  BY Starts
<1>2. ASSUME NEW p \in Positions
      PROVE  /\ Single(Holders(act[p]), Line(act[p]))
             /\ \A u \in Users : ~Turn(act, p, u)
  <2>1. act[p] = [desk |-> [d \in Desks(p) |-> FreeDesk], wait |-> <<>>]
    BY DEF Init
  <2>2. Holders(act[p]) = [d \in Desks(p) |-> NoUser]
    BY <2>1 DEF Holders, FreeDesk
  <2>3. DOMAIN Line(act[p]) = {}
    BY <2>1 DEF Line
  <2>. QED
    BY <2>2, <2>3, UsersOK DEF Single, Turn, TurnIn
<1>. QED
  BY <1>1, <1>2 DEF QInv, HostsOK

(* Every step keeps the turns in order and is a step of the queue, or none. *)
LEMMA PreservedQ ==
  ASSUME QInv, [Next]_vars
  PROVE  QueueStep
<1>0. IInv'
  BY Preserved DEF QInv
<1>1. CASE UNCHANGED vars
  <2>1. act' = act /\ place' = place
    BY <1>1 DEF vars
  <2>2. \A v \in Users : HostsOK(v)'
    <3>. SUFFICES ASSUME NEW v \in Users, NEW p \in Positions, NEW q \in Positions, Turn(act', p, v)
                  PROVE  Here(v)' /\ ~Invited(act', v) /\ (Turn(act', q, v) => p = q)
      BY DEF HostsOK
    <3>. QED
      BY <2>1 DEF QInv, HostsOK, Here
  <2>. QED
    BY <1>0, <2>1, <2>2 DEF QueueStep, QInv, Queue!vars
<1>2. ASSUME NEW u \in Users, NEW p \in MultiAt, Multi(u, p)
      PROVE  QueueStep
  <2>1. p \in Positions
    BY <1>2, PlacesOK
  <2>2. ASSUME NEW type \in MultiTypes, NEW guests \in [Joins -> (Users \ {u}) \cup {NoUser}],
               MULTIACT_REQ(u, p, type, guests)
        PROVE  QueueStep
    BY <1>0, <2>1, <2>2, RequestQ
  <2>3. ASSUME NEW v \in Users, MULTIACT_REQADD(u, p, v)
        PROVE  QueueStep
    BY <1>0, <2>1, <2>3, RequestAddQ
  <2>4. ASSUME NEW yes \in BOOLEAN, MULTIACT_ANS(u, p, yes)
        PROVE  QueueStep
    BY <1>0, <2>1, <2>4, AnswerQ
  <2>5. \/ MULTIACT2_JOIN(u, p) \/ MULTIACT_READY(u, p) \/ MULTIACT_GO(u, p)
        \/ MULTIACT_START(u, p) \/ MULTIACT_RELEASE(u, p) \/ MULTIACT_CANCEL(u, p)
        => QueueStep
    BY <1>0, <2>1, JoinQ, ReadyQ, GoQ, StartQ, GivesUpQ, CallOffQ
  <2>. QED
    BY <1>2, <2>2, <2>3, <2>4, <2>5 DEF Multi
<1>3. ASSUME NEW u \in Users, NEW p \in Positions, ACT_REQ(u, p) \/ ACT_WAIT_CANCEL(u, p)
      PROVE  QueueStep
  BY <1>0, <1>3, SingleRequestQ, GivesUpQ
<1>4. ASSUME NEW u \in Users,
             \/ LogIn(u) \/ EnterRoom(u) \/ OutRoom(u) \/ RemoveFamily(u)
             \/ ACT_START(u) \/ ACT_RELEASE(u)
      PROVE  QueueStep
  <2>1. ASSUME ACT_RELEASE(u) PROVE QueueStep
    <3>1. FirstPlace(u) \in Positions
      BY <2>1, PlaceOf DEF ACT_RELEASE
    <3>. QED
      BY <1>0, <2>1, <3>1, GivesUpQ
  <2>. QED
    BY <1>0, <1>4, <2>1, ComesQ, LeavesQ, SingleStartQ
<1>5. CASE Next
  BY <1>0, <1>2, <1>3, <1>4, <1>5, LineClosesQ DEF Next
<1>. QED
  BY <1>1, <1>5

(* Whoever hosts a rite or waits for a desk is in the channel: OutRoom and *)
(* RemoveFamily find every turn, because nobody has two and no host sits   *)
(* as a guest at an earlier desk.                                          *)
THEOREM HostsAreHere == Spec => []HostsPresent
<1>1. QInv => HostsPresent
  <2>. SUFFICES ASSUME QInv, NEW p \in Positions
                PROVE  /\ \A d \in Desks(p) : act[p].desk[d].host # NoUser =>
                                               Here(act[p].desk[d].host)
                       /\ \A i \in DOMAIN act[p].wait : Here(Host(act[p].wait[i]))
    BY DEF HostsPresent
  <2>1. /\ Holders(act[p]) \in [Desks(p) -> Users \cup {NoUser}]
        /\ DOMAIN act[p].desk = Desks(p)
        /\ \A i \in DOMAIN act[p].wait : Host(act[p].wait[i]) \in Users
    BY OrderlyPlace DEF PlaceOK, EntryOK
  <2>2. \A u \in Users : Turn(act, p, u) => Here(u)
    BY DEF QInv, HostsOK
  <2>3. ASSUME NEW d \in Desks(p), act[p].desk[d].host # NoUser
        PROVE  Here(act[p].desk[d].host)
    <3>1. Holders(act[p])[d] = act[p].desk[d].host
      BY <2>1 DEF Holders
    <3>2. act[p].desk[d].host \in Users
      BY <2>1, <2>3, <3>1
    <3>. QED
      BY <2>1, <2>2, <3>1, <3>2 DEF Turn, TurnIn
  <2>4. ASSUME NEW i \in DOMAIN act[p].wait
        PROVE  Here(Host(act[p].wait[i]))
    BY <2>1, <2>2, <2>4 DEF Turn, TurnIn, Line
  <2>. QED
    BY <2>3, <2>4
<1>2. QInv /\ [Next]_vars => QInv'
  BY PreservedQ DEF QueueStep
<1>. QED
  BY StartsQ, <1>1, <1>2, PTL DEF Spec

(* The channel keeps the promise of RiteQueue: a desk goes to the first who*)
(* waits, nobody is passed over, moved from his desk or given two turns,   *)
(* whatever guests do and however users leave.                             *)
THEOREM QueueIsKept == Spec => QueueKept
<1>1. Init => Queue!Init
  <2>. SUFFICES ASSUME Init PROVE Queue!Init
    OBVIOUS
  <2>1. ASSUME NEW p \in Positions
        PROVE  /\ [d \in Desks(p) |-> act[p].desk[d].host] = [d \in Queue!Desks(p) |-> NoUser]
               /\ [i \in DOMAIN act[p].wait |-> Host(act[p].wait[i])] = <<>>
    <3>1. act[p] = [desk |-> [d \in Desks(p) |-> FreeDesk], wait |-> <<>>]
      BY DEF Init
    <3>2. [d \in Desks(p) |-> act[p].desk[d].host] = [d \in Queue!Desks(p) |-> NoUser]
      BY <3>1 DEF FreeDesk, Desks, Queue!Desks
    <3>3. DOMAIN act[p].wait = 1 .. 0
      BY <3>1
    <3>. DEFINE f == [i \in DOMAIN act[p].wait |-> Host(act[p].wait[i])]
    <3>4. f \in Seq({Host(act[p].wait[i]) : i \in 1 .. 0}) /\ DOMAIN f = 1 .. 0
      BY <3>3
    <3>. HIDE DEF f
    <3>5. f = <<>>
      BY <3>4
    <3>. QED
      BY <3>2, <3>5 DEF f
  <2>. QED
    BY <2>1 DEF Queue!Init
<1>2. QInv /\ [Next]_vars => QInv' /\ [Queue!Next]_(Queue!vars)
  BY PreservedQ DEF QueueStep
<1>. QED
  BY StartsQ, <1>1, <1>2, PTL DEF Spec, QueueKept, Queue!Spec
=============================================================================
