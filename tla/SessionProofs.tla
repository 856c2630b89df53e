--------------------------- MODULE SessionProofs ---------------------------
(***************************************************************************)
(* Proofs about what brings sessions and messages to a client, the modules *)
(* SessionDiscovery, SessionTransport and MemoryTransport, and about       *)
(* AuditArchive, the run over the relayer and the storage.  They share no  *)
(* state.                                                                  *)
(*                                                                         *)
(* SessionDiscovery, for any groups, callers, page sizes and streams.      *)
(* Everything rests on the await-free stretch in which a page is handled:  *)
(* what it finds was not seen, is seen afterwards, and leaves no event of  *)
(* its type behind the cursor it stores.                                   *)
(***************************************************************************)
EXTENDS SessionDiscovery, SessionTransport, MemoryTransport, AuditArchive, FiniteSetTheorems,
        SequenceTheorems, WellFoundedInduction, TLAPS

Call == [at : {"idle", "querying", "hydrating", "handling", "ended"},
         kind : Nat, cursor : Nat, pages : Nat,
         events : SUBSET Nat, fresh : SUBSET Groups]

Querying(p) == poll[p].at = "querying"

Shape ==
    /\ stream \in Seq(Event)
    /\ cursors \in [KindSet -> Nat] /\ saved \in [KindSet -> Nat]
    /\ \A k \in KindSet : cursors[k] <= Len(stream) /\ saved[k] <= Len(stream)
    /\ active \in [Groups -> Nat]
    /\ poll \in [Pollers -> Call]
    /\ seen \subseteq DOMAIN stream
    /\ \A p \in Pollers : Querying(p) => /\ poll[p].kind \in DOMAIN Kinds
                                         /\ poll[p].cursor <= Len(stream)

\* What was found or told was seen.
ToldIsSeen == told \subseteq seen /\ \A p \in Pollers : poll[p].events \subseteq seen

\* No event of the type behind the cursor was passed over.
Covered(k, cursor) ==
    \A i \in DOMAIN stream :
        IsOwn(i) /\ stream[i].kind = k /\ i <= cursor => i \in seen \cup before

CursorsHonest == \A k \in KindSet : Covered(k, cursors[k]) /\ Covered(k, saved[k])
QueriesHonest == \A p \in Pollers : Querying(p) => Covered(KindOf(poll[p].kind), poll[p].cursor)

\* At most the newest event of the group has not been read.
OneByOne == \A g \in Groups \ overtaken : \A i \in OwnOf(g) \ seen : \A j \in OwnOf(g) : j <= i

IInv == /\ Shape
        /\ ToldIsSeen /\ ToldOnce
        /\ CursorsHonest /\ QueriesHonest
        /\ OneByOne /\ KnowsMembership

-----------------------------------------------------------------------------
\* A finite set of numbers has a greatest one.
LEMMA HasGreatest ==
    ASSUME NEW S, S \subseteq Nat, S # {}, IsFiniteSet(S)
    PROVE  \E x \in S : \A y \in S : y <= x
<1> DEFINE Above(x) == {y \in S : x < y}
           T == {Above(x) : x \in S}
           F == FiniteSubsetsOf(S)
<1>1. IsWellFoundedOn(StrictSubsetOrdering(S), F)
  BY FS_StrictSubsetOrderingWellFounded
<1>2. T \subseteq F /\ T # {}
  <2>1. F = SUBSET S
    BY FS_FiniteSubsetsOfFinite
  <2> HIDE DEF F
  <2> QED
    BY <2>1
<1>3. PICK U \in T : \A V \in T : ~(<<V, U>> \in StrictSubsetOrdering(S))
  <2> HIDE DEF T, F
  <2> QED
    BY <1>1, <1>2, WFMin
<1>4. PICK x \in S : U = Above(x)
  BY <1>3
<1>5. \A y \in S : ~(x < y)
  <2> SUFFICES ASSUME NEW y \in S, x < y PROVE FALSE
    OBVIOUS
  <2>1. \A z \in S : y < z => x < z
    OBVIOUS
  <2>2. y \in Above(x) /\ y \notin Above(y)
    OBVIOUS
  <2>3. Above(y) \subseteq Above(x) /\ Above(y) # Above(x)
    BY <2>1, <2>2
  <2>4. Above(y) \in T /\ Above(x) \in SUBSET S /\ Above(y) \in SUBSET S
    OBVIOUS
  <2>5. <<Above(y), Above(x)>> \in StrictSubsetOrdering(S)
    BY <2>3, <2>4 DEF StrictSubsetOrdering
  <2> QED
    BY <1>3, <1>4, <2>4, <2>5
<1> QED
  BY <1>5

LEMMA NewestIsGreatest ==
    ASSUME NEW S, S \subseteq Nat, S # {}, IsFiniteSet(S)
    PROVE  Newest(S) \in S /\ \A j \in S : j <= Newest(S)
<1>1. \E x \in S : \A y \in S : y <= x
  BY HasGreatest
<1> QED
  BY <1>1 DEF Newest

LEMMA GreatestIsNewest ==
    ASSUME NEW S, S \subseteq Nat, NEW n \in S, \A j \in S : j <= n
    PROVE  Newest(S) = n
<1>1. \E x \in S : \A j \in S : j <= x
  OBVIOUS
<1>2. Newest(S) \in S /\ \A j \in S : j <= Newest(S)
  BY <1>1 DEF Newest
<1>3. Newest(S) \in Nat /\ n \in Nat /\ Newest(S) <= n /\ n <= Newest(S)
  BY <1>2
<1> QED
  BY <1>3

\* Positions in the stream.
LEMMA Positions ==
    ASSUME stream \in Seq(Event)
    PROVE  /\ Len(stream) \in Nat
           /\ DOMAIN stream = 1 .. Len(stream)
           /\ DOMAIN stream \subseteq Nat
           /\ \A S : S \subseteq DOMAIN stream => IsFiniteSet(S)
<1>1. Len(stream) \in Nat /\ DOMAIN stream = 1 .. Len(stream)
  OBVIOUS
<1>2. IsFiniteSet(DOMAIN stream)
  BY <1>1, FS_Interval
<1>3. \A S : S \subseteq DOMAIN stream => IsFiniteSet(S)
  BY <1>2, FS_Subset
<1> QED
  BY <1>1, <1>3

LEMMA Kind1 == 1 \in DOMAIN Kinds /\ \A n \in DOMAIN Kinds : KindOf(n) \in KindSet
  BY DiscoveryAssumption DEF KindOf, KindSet

-----------------------------------------------------------------------------
\* A page takes the events that come next, and leaves out none between them.
LEMMA PageIsPrefix ==
    ASSUME stream \in Seq(Event), NEW kind, NEW cursor \in Nat
    PROVE  /\ Page(kind, cursor) \subseteq Rest(kind, cursor)
           /\ Rest(kind, cursor) \subseteq DOMAIN stream
           /\ \A i \in Rest(kind, cursor), j \in Page(kind, cursor) :
                 i <= j => i \in Page(kind, cursor)
<1> DEFINE rest == Rest(kind, cursor)
           AsFarAs(i) == {j \in rest : j <= i}
<1>1. Page(kind, cursor) = {i \in rest : Cardinality(AsFarAs(i)) <= EventPageSize}
  BY DEF Page
<1>2. rest \subseteq DOMAIN stream
  BY DEF Rest
<1>3. ASSUME NEW i \in rest, NEW j \in Page(kind, cursor), i <= j
      PROVE  i \in Page(kind, cursor)
  <2>1. i \in Nat /\ j \in Nat /\ rest \subseteq Nat /\ j \in rest
    BY <1>1, <1>2, <1>3, Positions
  <2>2. AsFarAs(i) \subseteq AsFarAs(j)
    <3> HIDE DEF rest
    <3>1. \A k \in rest : k <= i => k <= j
      BY <1>3, <2>1
    <3> QED
      BY <3>1
  <2>3. IsFiniteSet(AsFarAs(i)) /\ IsFiniteSet(AsFarAs(j))
    BY <1>2, Positions
  <2>4. /\ Cardinality(AsFarAs(i)) \in Nat /\ Cardinality(AsFarAs(j)) \in Nat
        /\ Cardinality(AsFarAs(i)) <= Cardinality(AsFarAs(j))
    <3> HIDE DEF AsFarAs
    <3> QED
      BY <2>2, <2>3, FS_Subset, FS_CardinalityType
  <2>5. Cardinality(AsFarAs(j)) <= EventPageSize /\ EventPageSize \in Nat
    BY <1>1, <1>3, DiscoveryAssumption
  <2>6. Cardinality(AsFarAs(i)) <= EventPageSize
    <3> HIDE DEF AsFarAs
    <3> QED
      BY <2>4, <2>5
  <2> QED
    BY <1>1, <2>6
<1> QED
  BY <1>1, <1>2, <1>3

\* The next cursor stays in the stream and has the page behind it, nothing else.
LEMMA NextCursorIsHonest ==
    ASSUME stream \in Seq(Event), NEW kind, NEW cursor \in Nat, cursor <= Len(stream),
           NEW next, next = NextCursor(Page(kind, cursor), cursor)
    PROVE  /\ next \in Nat /\ next <= Len(stream)
           /\ \A i \in DOMAIN stream :
                 stream[i].kind = kind /\ i <= next => i <= cursor \/ i \in Page(kind, cursor)
<1> DEFINE page == Page(kind, cursor)
<1>1. page \subseteq Rest(kind, cursor) /\ Rest(kind, cursor) \subseteq DOMAIN stream
  BY PageIsPrefix
<1>2. /\ Len(stream) \in Nat /\ DOMAIN stream = 1 .. Len(stream)
      /\ DOMAIN stream \subseteq Nat /\ IsFiniteSet(page)
  BY <1>1, Positions
<1>3. CASE page = {}
  BY <1>2, <1>3 DEF NextCursor
<1>4. CASE page # {}
  <2>1. page \subseteq Nat
    BY <1>1, <1>2
  <2>2. next = Newest(page)
    BY <1>4 DEF NextCursor
  <2>3. next \in page
    <3> HIDE DEF page
    <3> QED
      BY <1>2, <1>4, <2>1, <2>2, NewestIsGreatest
  <2>4. next \in Nat /\ next <= Len(stream)
    BY <1>1, <1>2, <2>3
  <2>5. ASSUME NEW i \in DOMAIN stream, stream[i].kind = kind, i <= next, ~(i <= cursor)
        PROVE  i \in page
    <3>1. i \in Rest(kind, cursor)
      BY <1>2, <2>5 DEF Rest
    <3> QED
      BY <2>3, <2>5, <3>1, PageIsPrefix
  <2> QED
    BY <2>4, <2>5
<1> QED
  BY <1>3, <1>4

\* Where poll goes after a page, it takes along what it found, and the cursor it
\* asks with is the one of the page or a stored one.
LEMMA AfterAPage ==
    ASSUME NEW p \in Pollers, NEW q \in Call, q.kind \in DOMAIN Kinds, q.at = "querying",
           NEW cursor \in Nat, NEW reached \in [KindSet -> Nat],
           NEW c, c = NextQuery(p, q, cursor, reached)
    PROVE  /\ c \in Call
           /\ c.events = q.events
           /\ c.at = "querying" =>
                 /\ c.kind \in DOMAIN Kinds
                 /\ \/ c.kind = q.kind /\ c.cursor = cursor
                    \/ c.cursor = reached[KindOf(c.kind)]
<1>0. Kinds \in Seq(AllKinds) /\ Len(Kinds) \in Nat /\ DOMAIN Kinds = 1 .. Len(Kinds)
  BY DiscoveryAssumption
<1>1. CASE c = [q EXCEPT !.cursor = cursor, !.pages = q.pages + 1]
  <2> DEFINE pages == q.pages + 1
  <2>1. pages \in Nat
    BY DEF Call
  <2> HIDE DEF pages
  <2>2. c = [q EXCEPT !.cursor = cursor, !.pages = pages]
    BY <1>1 DEF pages
  <2>3. c \in Call /\ c.events = q.events /\ c.kind = q.kind /\ c.cursor = cursor
    BY <2>1, <2>2 DEF Call
  <2> QED
    BY <2>3
<1>2. CASE /\ q.kind < Len(Kinds)
           /\ c = [q EXCEPT !.kind = q.kind + 1, !.cursor = reached[KindOf(q.kind + 1)], !.pages = 0]
  <2> DEFINE kind == q.kind + 1
             there == reached[KindOf(kind)]
  <2>1. kind \in DOMAIN Kinds /\ kind \in Nat
    BY <1>0, <1>2
  <2>2. there \in Nat /\ 0 \in Nat
    BY <2>1, Kind1
  <2> HIDE DEF kind, there
  <2>3. c = [q EXCEPT !.kind = kind, !.cursor = there, !.pages = 0]
    BY <1>2 DEF kind, there
  <2>4. c \in Call /\ c.events = q.events /\ c.kind = kind /\ c.cursor = there
    BY <2>1, <2>2, <2>3 DEF Call
  <2> QED
    BY <2>1, <2>4 DEF there
<1>3. CASE c = [q EXCEPT !.at = "hydrating", !.kind = 0, !.cursor = 0, !.pages = 0]
  <2>1. 0 \in Nat /\ "hydrating" # "querying"
    OBVIOUS
  <2>2. c \in Call /\ c.events = q.events /\ c.at = "hydrating"
    BY <1>3, <2>1 DEF Call
  <2> QED
    BY <2>1, <2>2
<1> QED
  BY <1>1, <1>2, <1>3 DEF NextQuery

-----------------------------------------------------------------------------
LEMMA DiscoveryInitHolds == DiscoveryInit => IInv
<1> SUFFICES ASSUME DiscoveryInit PROVE IInv
  OBVIOUS
<1>1. /\ stream = << >> /\ seen = {} /\ told = {} /\ overtaken = {}
      /\ poll = [p \in Pollers |-> NoPoll]
      /\ cursors = [k \in KindSet |-> 0] /\ saved = [k \in KindSet |-> 0]
      /\ active = [g \in Groups |-> 0]
  BY DEF DiscoveryInit
<1>2. stream \in Seq(Event) /\ Len(stream) = 0 /\ DOMAIN stream = {}
  BY <1>1
<1>3. NoPoll \in Call /\ NoPoll.at = "idle" /\ NoPoll.events = {}
  BY DEF NoPoll, Call
<1>4. \A p \in Pollers : poll[p] = NoPoll
  BY <1>1
<1>5. Shape
  BY <1>1, <1>2, <1>3, <1>4 DEF Shape, Querying
<1>6. ToldIsSeen /\ ToldOnce
  BY <1>1, <1>3, <1>4 DEF ToldIsSeen, ToldOnce
<1>7. CursorsHonest /\ QueriesHonest
  BY <1>2, <1>3, <1>4 DEF CursorsHonest, QueriesHonest, Covered, Querying
<1>8. \A g \in Groups : OwnOf(g) = {}
  BY <1>2 DEF OwnOf
<1>9. OneByOne /\ KnowsMembership
  BY <1>1, <1>8 DEF OneByOne, KnowsMembership, MemberAfter
<1> QED
  BY <1>5, <1>6, <1>7, <1>9 DEF IInv

\* The contract emits an event: it is no call's yet, and the newest of its group.
LEMMA EmitKeeps ==
    ASSUME IInv, NEW kind \in KindSet, NEW g \in Groups, NEW member \in {Actor, Stranger},
           Emit(kind, g, member)
    PROVE  IInv'
<1> DEFINE e == [kind |-> kind, group |-> g, member |-> member]
           here == Len(stream) + 1
<1>1. /\ stream' = Append(stream, e)
      /\ UNCHANGED <<cursors, seen, active, poll, told, before, saved>>
      /\ overtaken' = IF member = Actor /\ ~(OwnOf(g) \subseteq seen)
                      THEN overtaken \cup {g} ELSE overtaken
  BY DEF Emit, memory, history
<1>2. Shape /\ ToldIsSeen /\ ToldOnce /\ CursorsHonest /\ QueriesHonest /\ OneByOne
      /\ KnowsMembership
  BY DEF IInv
<1>3. e \in Event
  BY DiscoveryAssumption DEF Event, KindSet
<1>4. /\ stream' \in Seq(Event)
      /\ Len(stream) \in Nat /\ Len(stream') = here
      /\ DOMAIN stream = 1 .. Len(stream)
      /\ DOMAIN stream' = DOMAIN stream \cup {here}
      /\ \A i \in DOMAIN stream : stream'[i] = stream[i]
      /\ stream'[here] = e
  <2> HIDE DEF e
  <2> QED
    BY <1>1, <1>2, <1>3 DEF Shape
<1>5. /\ \A i \in DOMAIN stream : IsOwn(i)' <=> IsOwn(i)
      /\ stream'[here].member = Actor <=> member = Actor
      /\ stream'[here].group = g
  BY <1>4 DEF IsOwn
<1>6. Shape'
  <2>1. /\ cursors' \in [KindSet -> Nat] /\ saved' \in [KindSet -> Nat]
        /\ active' \in [Groups -> Nat] /\ poll' \in [Pollers -> Call]
    BY <1>1, <1>2 DEF Shape
  <2>2. \A k \in KindSet : cursors'[k] <= Len(stream') /\ saved'[k] <= Len(stream')
    BY <1>1, <1>2, <1>4 DEF Shape
  <2>3. seen' \subseteq DOMAIN stream'
    BY <1>1, <1>2, <1>4 DEF Shape
  <2>4. ASSUME NEW p \in Pollers, Querying(p)'
        PROVE  poll'[p].kind \in DOMAIN Kinds /\ poll'[p].cursor <= Len(stream')
    <3>1. poll[p].kind \in DOMAIN Kinds /\ poll[p].cursor <= Len(stream) /\ poll[p].cursor \in Nat
      BY <1>1, <1>2, <2>4 DEF Shape, Querying, Call
    <3> QED
      BY <1>1, <1>4, <3>1
  <2> QED
    BY <1>4, <2>1, <2>2, <2>3, <2>4 DEF Shape
<1>7. ToldIsSeen' /\ ToldOnce'
  BY <1>1, <1>2 DEF ToldIsSeen, ToldOnce
<1>8. ASSUME NEW k, NEW c \in Nat, c <= Len(stream), Covered(k, c)
      PROVE  Covered(k, c)'
  <2>1. \A i \in DOMAIN stream' : i <= c => i \in DOMAIN stream
    BY <1>4, <1>8
  <2> QED
    BY <1>1, <1>4, <1>5, <1>8, <2>1 DEF Covered
<1>9. CursorsHonest' /\ QueriesHonest'
  <2>1. \A k \in KindSet : /\ cursors[k] \in Nat /\ cursors[k] <= Len(stream)
                           /\ saved[k] \in Nat /\ saved[k] <= Len(stream)
    BY <1>2 DEF Shape
  <2>2. \A p \in Pollers : poll[p].cursor \in Nat
    BY <1>2 DEF Shape, Call
  <2>3. \A p \in Pollers : Querying(p) => poll[p].cursor <= Len(stream)
    BY <1>2 DEF Shape
  <2>4. \A k \in KindSet : Covered(k, cursors[k])' /\ Covered(k, saved[k])'
    <3>1. \A k \in KindSet : Covered(k, cursors[k]) /\ Covered(k, saved[k])
      BY <1>2 DEF CursorsHonest
    <3> QED
      BY <1>1, <1>8, <2>1, <3>1 DEF Covered
  <2>5. \A p \in Pollers : Querying(p)' => Covered(KindOf(poll[p].kind), poll[p].cursor)'
    <3>1. \A p \in Pollers : Querying(p) => Covered(KindOf(poll[p].kind), poll[p].cursor)
      BY <1>2 DEF QueriesHonest
    <3> QED
      BY <1>1, <1>8, <2>2, <2>3, <3>1 DEF Covered, Querying, KindOf
  <2> QED
    BY <1>1, <2>4, <2>5 DEF CursorsHonest, QueriesHonest, Querying
<1>10. \A h \in Groups :
          OwnOf(h)' = IF h = g /\ member = Actor THEN OwnOf(h) \cup {here} ELSE OwnOf(h)
  <2> SUFFICES ASSUME NEW h \in Groups, NEW i
               PROVE  i \in OwnOf(h)' <=> \/ i \in OwnOf(h)
                                          \/ i = here /\ h = g /\ member = Actor
    OBVIOUS
  <2>1. CASE i = here
    <3>1. here \notin DOMAIN stream /\ here \in DOMAIN stream'
      BY <1>4
    <3>2. here \notin OwnOf(h)
      BY <3>1 DEF OwnOf
    <3>3. here \in OwnOf(h)' <=> h = g /\ member = Actor
      BY <1>5, <3>1 DEF OwnOf, IsOwn
    <3> QED
      BY <2>1, <3>2, <3>3
  <2>2. CASE i # here
    BY <1>4, <1>5, <2>2 DEF OwnOf
  <2> QED
    BY <2>1, <2>2
<1>11. \A h \in Groups : OwnOf(h) \subseteq DOMAIN stream /\ here \notin seen
  BY <1>2, <1>4 DEF OwnOf, Shape
<1>12. OneByOne'
  <2> SUFFICES ASSUME NEW h \in Groups \ overtaken', NEW i \in OwnOf(h)' \ seen,
                      NEW j \in OwnOf(h)'
               PROVE  j <= i
    BY <1>1 DEF OneByOne
  <2>1. h \notin overtaken
    BY <1>1
  <2>2. CASE h = g /\ member = Actor
    <3>1. OwnOf(h) \subseteq seen
      BY <1>1, <2>2
    <3>2. i = here /\ OwnOf(h)' \subseteq DOMAIN stream \cup {here}
      BY <1>10, <1>11, <3>1
    <3> QED
      BY <1>4, <3>2
  <2>3. CASE ~(h = g /\ member = Actor)
    BY <1>2, <1>10, <2>1, <2>3 DEF OneByOne
  <2> QED
    BY <2>2, <2>3
<1>13. KnowsMembership'
  <2> SUFFICES ASSUME NEW h \in Groups \ overtaken'
               PROVE  active[h] # 0 <=> MemberAfter(OwnOf(h) \cap seen)'
    BY <1>1 DEF KnowsMembership
  <2> DEFINE S == OwnOf(h) \cap seen
  <2>1. h \notin overtaken
    BY <1>1
  <2>2. (OwnOf(h) \cap seen)' = S
    BY <1>1, <1>10, <1>11
  <2>3. active[h] # 0 <=> S # {} /\ Joins(Newest(S))
    BY <1>2, <2>1 DEF KnowsMembership, MemberAfter
  <2>4. S # {} => (Joins(Newest(S))' <=> Joins(Newest(S)))
    <3> SUFFICES ASSUME S # {} PROVE Joins(Newest(S))' <=> Joins(Newest(S))
      OBVIOUS
    <3>1. S \subseteq DOMAIN stream
      BY <1>11
    <3>2. S \subseteq Nat /\ IsFiniteSet(S)
      BY <1>2, <3>1, Positions DEF Shape
    <3>3. Newest(S) \in S
      <4> HIDE DEF S
      <4> QED
        BY <3>2, NewestIsGreatest
    <3>4. Newest(S)' = Newest(S)
      BY <2>2 DEF Newest
    <3> QED
      BY <1>4, <3>1, <3>3, <3>4 DEF Joins
  <2>5. MemberAfter(OwnOf(h) \cap seen)' <=> S # {} /\ Joins(Newest(S))'
    BY <2>2 DEF MemberAfter, Joins, Newest
  <2> QED
    BY <2>3, <2>4, <2>5
<1> QED
  BY <1>6, <1>7, <1>9, <1>12, <1>13 DEF IInv

-----------------------------------------------------------------------------
\* A call begins, ends or fails: nothing of the memory changes, and what the call
\* had found is told or dropped.
LEMMA CallMovesOn ==
    ASSUME IInv, NEW p \in Pollers, NEW c \in Call,
           c.events = {},
           c.at = "querying" => c.kind \in DOMAIN Kinds /\ c.cursor = cursors[KindOf(c.kind)],
           poll' = [poll EXCEPT ![p] = c],
           UNCHANGED <<stream, cursors, seen, active, before, overtaken>>,
           told' \in {told, told \cup poll[p].events},
           saved' \in {saved, cursors}
    PROVE  IInv'
<1>1. Shape /\ ToldIsSeen /\ ToldOnce /\ CursorsHonest /\ QueriesHonest /\ OneByOne
      /\ KnowsMembership
  BY DEF IInv
<1>2. poll \in [Pollers -> Call]
  BY <1>1 DEF Shape
<1>3. /\ poll' \in [Pollers -> Call]
      /\ poll'[p] = c
      /\ \A q \in Pollers \ {p} : poll'[q] = poll[q]
  BY <1>2
<1>4. /\ \A k \in KindSet : cursors[k] <= Len(stream)
      /\ cursors \in [KindSet -> Nat] /\ saved' \in [KindSet -> Nat]
      /\ \A k \in KindSet : saved'[k] <= Len(stream)
  BY <1>1 DEF Shape
<1>5. \A q \in Pollers : Querying(q)' =>
          /\ poll'[q].kind \in DOMAIN Kinds
          /\ poll'[q].cursor <= Len(stream)
          /\ Covered(KindOf(poll'[q].kind), poll'[q].cursor)
  <2> SUFFICES ASSUME NEW q \in Pollers, poll'[q].at = "querying"
               PROVE  /\ poll'[q].kind \in DOMAIN Kinds
                      /\ poll'[q].cursor <= Len(stream)
                      /\ Covered(KindOf(poll'[q].kind), poll'[q].cursor)
    BY DEF Querying
  <2>1. CASE q = p
    <3>1. KindOf(c.kind) \in KindSet
      BY <1>3, <2>1, Kind1
    <3> QED
      BY <1>1, <1>3, <1>4, <2>1, <3>1 DEF CursorsHonest
  <2>2. CASE q # p
    BY <1>1, <1>3, <2>2 DEF Shape, QueriesHonest, Querying
  <2> QED
    BY <2>1, <2>2
<1>6. Shape'
  <2>1. stream' \in Seq(Event) /\ active' \in [Groups -> Nat] /\ seen' \subseteq DOMAIN stream'
    BY <1>1 DEF Shape
  <2>2. \A q \in Pollers : Querying(q)' => /\ poll'[q].kind \in DOMAIN Kinds
                                           /\ poll'[q].cursor <= Len(stream')
    BY <1>5
  <2> QED
    BY <1>3, <1>4, <2>1, <2>2 DEF Shape
<1>7. CursorsHonest'
  <2>1. \A k \in KindSet : Covered(k, cursors[k]) /\ Covered(k, saved'[k])
    BY <1>1 DEF CursorsHonest
  <2> QED
    BY <2>1 DEF CursorsHonest, Covered, IsOwn
<1>8. QueriesHonest'
  BY <1>5 DEF QueriesHonest, Covered, IsOwn
<1>9. ToldIsSeen' /\ ToldOnce'
  <2>1. /\ told \subseteq seen
        /\ \A q \in Pollers : poll[q].events \subseteq seen
        /\ \A q \in Pollers : poll[q].events \cap told = {}
        /\ \A q, r \in Pollers : q # r => poll[q].events \cap poll[r].events = {}
    BY <1>1 DEF ToldIsSeen, ToldOnce
  <2>2. \A q \in Pollers : poll'[q].events = IF q = p THEN {} ELSE poll[q].events
    BY <1>3
  <2>3. told' \subseteq told \cup poll[p].events
    OBVIOUS
  <2>4. ToldIsSeen'
    BY <2>1, <2>2, <2>3 DEF ToldIsSeen
  <2>5. \A q \in Pollers : poll'[q].events \cap told' = {}
    BY <2>1, <2>2, <2>3
  <2>6. \A q \in Pollers, r \in Pollers : q # r => poll'[q].events \cap poll'[r].events = {}
    BY <2>1, <2>2
  <2> QED
    BY <2>4, <2>5, <2>6 DEF ToldOnce
<1>10. OneByOne' /\ KnowsMembership'
  <2>1. /\ \A g : OwnOf(g)' = OwnOf(g)
        /\ \A i : Joins(i)' <=> Joins(i)
    BY DEF OwnOf, IsOwn, Joins
  <2>2. OneByOne'
    BY <1>1, <2>1 DEF OneByOne
  <2>3. KnowsMembership'
    BY <1>1, <2>1 DEF KnowsMembership, MemberAfter, Newest
  <2> QED
    BY <2>2, <2>3
<1> QED
  BY <1>6, <1>7, <1>8, <1>9, <1>10 DEF IInv

\* A page is handled: what was new in it joins the call and the seen events at once.
LEMMA ReadPageKeeps ==
    ASSUME IInv, NEW p \in Pollers, ReadPage(p)
    PROVE  IInv'
<1> DEFINE kind == KindOf(poll[p].kind)
           page == Page(kind, poll[p].cursor)
           new  == Fresh(page)
           next == NextCursor(page, poll[p].cursor)
           gain == [poll[p] EXCEPT !.events = @ \cup new,
                                   !.fresh = @ \cup NewlyDiscovered(new)]
           c    == NextQuery(p, gain, next, cursors')
<1>1. /\ Querying(p)
      /\ seen' = seen \cup new
      /\ active' = Activate(new)
      /\ cursors' = [cursors EXCEPT ![kind] = IF next = 0 THEN @ ELSE next]
      /\ poll' = [poll EXCEPT ![p] = c]
      /\ UNCHANGED <<stream, told, before, saved, overtaken>>
  BY DEF ReadPage, Querying, history
<1>2. Shape /\ ToldIsSeen /\ ToldOnce /\ CursorsHonest /\ QueriesHonest /\ OneByOne
      /\ KnowsMembership
  BY DEF IInv
<1>3. /\ stream \in Seq(Event) /\ seen \subseteq DOMAIN stream
      /\ poll \in [Pollers -> Call] /\ poll[p] \in Call
      /\ poll[p].kind \in DOMAIN Kinds
      /\ poll[p].cursor \in Nat /\ poll[p].cursor <= Len(stream)
      /\ cursors \in [KindSet -> Nat]
      /\ \A k \in KindSet : cursors[k] <= Len(stream)
  BY <1>1, <1>2 DEF Shape, Call
<1>4. kind \in KindSet
  BY <1>3, Kind1
<1>5. /\ next \in Nat /\ next <= Len(stream)
      /\ \A i \in DOMAIN stream :
            stream[i].kind = kind /\ i <= next => i <= poll[p].cursor \/ i \in page
  BY <1>3, NextCursorIsHonest
<1>6. /\ new = {i \in page : IsOwn(i) /\ i \notin seen}
      /\ page \subseteq DOMAIN stream /\ new \subseteq DOMAIN stream
      /\ DOMAIN stream \subseteq Nat
  <2>1. page \subseteq DOMAIN stream
    BY <1>3, PageIsPrefix
  <2> HIDE DEF page
  <2> QED
    BY <1>3, <2>1, Positions DEF Fresh
<1>7. gain \in Call /\ gain.events = poll[p].events \cup new
      /\ gain.kind = poll[p].kind /\ gain.at = "querying"
  <2>1. new \subseteq Nat /\ NewlyDiscovered(new) \subseteq Groups
    BY <1>6 DEF NewlyDiscovered
  <2>2. poll[p].events \cup new \in SUBSET Nat
        /\ poll[p].fresh \cup NewlyDiscovered(new) \in SUBSET Groups
    BY <1>3, <2>1 DEF Call
  <2> DEFINE ev == poll[p].events \cup new
             fr == poll[p].fresh \cup NewlyDiscovered(new)
  <2>3. gain = [poll[p] EXCEPT !.events = ev, !.fresh = fr]
    OBVIOUS
  <2> HIDE DEF ev, fr, gain
  <2>4. gain \in Call /\ gain.events = ev /\ gain.kind = poll[p].kind /\ gain.at = poll[p].at
    BY <1>3, <2>2, <2>3 DEF Call, ev, fr
  <2> QED
    BY <1>1, <2>4 DEF Querying, ev
<1> HIDE DEF page, new, next, gain
<1>8. /\ cursors' \in [KindSet -> Nat]
      /\ \A k \in KindSet : \/ cursors'[k] = cursors[k]
                            \/ k = kind /\ cursors'[k] = next
  BY <1>1, <1>3, <1>4, <1>5
<1>9. /\ c \in Call
      /\ c.events = poll[p].events \cup new
      /\ c.at = "querying" => /\ c.kind \in DOMAIN Kinds
                              /\ \/ c.kind = poll[p].kind /\ c.cursor = next
                                 \/ c.cursor = cursors'[KindOf(c.kind)]
  <2>1. gain.kind \in DOMAIN Kinds
    BY <1>3, <1>7
  <2> QED
    BY <1>5, <1>7, <1>8, <2>1, AfterAPage
<1> HIDE DEF c
<1>10. /\ poll' \in [Pollers -> Call]
       /\ poll'[p] = c
       /\ \A q \in Pollers \ {p} : poll'[q] = poll[q]
  BY <1>1, <1>3, <1>9
<1>11. /\ stream' = stream /\ told' = told /\ before' = before /\ saved' = saved
       /\ seen' = seen \cup new
  BY <1>1
<1> DEFINE Done(k, n) == \A i \in DOMAIN stream :
                            IsOwn(i) /\ stream[i].kind = k /\ i <= n => i \in seen' \cup before
<1>12. /\ \A k, n : Covered(k, n) => Done(k, n)
       /\ Done(kind, next)
  <2>1. Covered(kind, poll[p].cursor)
    BY <1>1, <1>2 DEF QueriesHonest
  <2>2. ASSUME NEW i \in DOMAIN stream, IsOwn(i), stream[i].kind = kind, i <= next
        PROVE  i \in seen' \cup before
    BY <1>5, <1>6, <1>11, <2>1, <2>2 DEF Covered
  <2>3. \A k, n : Covered(k, n) => Done(k, n)
    BY <1>11 DEF Covered
  <2> QED
    BY <2>2, <2>3
<1> HIDE DEF kind
<1>13. \A k \in KindSet : /\ Done(k, cursors'[k]) /\ Done(k, saved[k])
                          /\ cursors'[k] <= Len(stream)
  <2> SUFFICES ASSUME NEW k \in KindSet
               PROVE  /\ Done(k, cursors'[k]) /\ Done(k, saved[k])
                      /\ cursors'[k] <= Len(stream)
    OBVIOUS
  <2>1. Covered(k, cursors[k]) /\ Covered(k, saved[k]) /\ cursors[k] <= Len(stream)
    BY <1>2, <1>3 DEF CursorsHonest
  <2>2. Done(k, cursors[k]) /\ Done(k, saved[k])
    <3> HIDE DEF Done
    <3> QED
      BY <1>12, <2>1
  <2> HIDE DEF Done
  <2>3. CASE cursors'[k] = cursors[k]
    BY <2>1, <2>2, <2>3
  <2>4. CASE k = kind /\ cursors'[k] = next
    BY <1>5, <1>12, <2>2, <2>4
  <2> QED
    BY <1>8, <2>3, <2>4
<1>14. \A q \in Pollers : poll'[q].at = "querying" =>
          /\ poll'[q].kind \in DOMAIN Kinds
          /\ poll'[q].cursor <= Len(stream)
          /\ Done(KindOf(poll'[q].kind), poll'[q].cursor)
  <2> SUFFICES ASSUME NEW q \in Pollers, poll'[q].at = "querying"
               PROVE  /\ poll'[q].kind \in DOMAIN Kinds
                      /\ poll'[q].cursor <= Len(stream)
                      /\ Done(KindOf(poll'[q].kind), poll'[q].cursor)
    OBVIOUS
  <2> HIDE DEF Done
  <2>1. CASE q = p /\ c.kind = poll[p].kind /\ c.cursor = next
    BY <1>3, <1>5, <1>10, <1>12, <2>1 DEF kind
  <2>2. CASE q = p /\ c.kind \in DOMAIN Kinds /\ c.cursor = cursors'[KindOf(c.kind)]
    <3>1. KindOf(c.kind) \in KindSet
      BY <2>2, Kind1
    <3> QED
      BY <1>10, <1>13, <2>2, <3>1
  <2>3. CASE q # p
    <3>1. /\ poll[q].kind \in DOMAIN Kinds /\ poll[q].cursor <= Len(stream)
          /\ Covered(KindOf(poll[q].kind), poll[q].cursor)
      BY <1>2, <1>10, <2>3 DEF Shape, QueriesHonest, Querying
    <3> QED
      BY <1>10, <1>12, <2>3, <3>1
  <2> QED
    BY <1>9, <1>10, <2>1, <2>2, <2>3
<1>15. active' \in [Groups -> Nat]
  <2> SUFFICES ASSUME NEW g \in Groups, About(new, g) # {}
               PROVE  Newest(About(new, g)) \in Nat
    BY <1>1, <1>2 DEF Activate, Shape
  <2>1. About(new, g) \subseteq DOMAIN stream
    BY <1>6 DEF About
  <2>2. About(new, g) \subseteq Nat /\ IsFiniteSet(About(new, g))
    BY <1>3, <1>6, <2>1, Positions
  <2> QED
    BY <2>2, NewestIsGreatest
<1>16. Shape'
  <2> HIDE DEF Done
  <2>1. saved' \in [KindSet -> Nat] /\ \A k \in KindSet : saved'[k] <= Len(stream)
    BY <1>2, <1>11 DEF Shape
  <2>2. seen' \subseteq DOMAIN stream'
    BY <1>3, <1>6, <1>11
  <2>3. \A q \in Pollers : Querying(q)' => /\ poll'[q].kind \in DOMAIN Kinds
                                           /\ poll'[q].cursor <= Len(stream')
    BY <1>11, <1>14 DEF Querying
  <2>4. stream' \in Seq(Event) /\ \A k \in KindSet : cursors'[k] <= Len(stream')
    BY <1>3, <1>11, <1>13
  <2> QED
    BY <1>8, <1>10, <1>11, <1>15, <2>1, <2>2, <2>3, <2>4 DEF Shape
<1>17. CursorsHonest'
  BY <1>11, <1>13 DEF CursorsHonest, Covered, IsOwn
<1>18. QueriesHonest'
  BY <1>11, <1>14 DEF QueriesHonest, Querying, Covered, IsOwn, KindOf
<1>19. ToldIsSeen' /\ ToldOnce'
  <2>1. /\ told \subseteq seen
        /\ \A q \in Pollers : poll[q].events \subseteq seen
        /\ \A q \in Pollers : poll[q].events \cap told = {}
        /\ \A q \in Pollers, r \in Pollers : q # r => poll[q].events \cap poll[r].events = {}
    BY <1>2 DEF ToldIsSeen, ToldOnce
  <2>2. \A q \in Pollers :
           poll'[q].events = IF q = p THEN poll[q].events \cup new ELSE poll[q].events
    BY <1>9, <1>10
  <2>3. new \cap seen = {}
    BY <1>6
  <2>4. ToldIsSeen'
    BY <1>11, <2>1, <2>2 DEF ToldIsSeen
  <2>5. \A q \in Pollers : poll'[q].events \cap told' = {}
    BY <1>11, <2>1, <2>2, <2>3
  <2>6. \A q \in Pollers, r \in Pollers : q # r => poll'[q].events \cap poll'[r].events = {}
    BY <2>1, <2>2, <2>3
  <2> QED
    BY <2>4, <2>5, <2>6 DEF ToldOnce
<1>20. /\ \A g : OwnOf(g)' = OwnOf(g)
       /\ \A i : Joins(i)' <=> Joins(i)
       /\ \A S : Newest(S)' = Newest(S)
  BY <1>1 DEF OwnOf, IsOwn, Joins, Newest
<1>21. OneByOne'
  BY <1>1, <1>2, <1>20 DEF OneByOne
<1>22. KnowsMembership'
  <2> SUFFICES ASSUME NEW g \in Groups \ overtaken
               PROVE  active'[g] # 0 <=> MemberAfter(OwnOf(g) \cap seen)'
    BY <1>1 DEF KnowsMembership
  <2> DEFINE S == OwnOf(g) \cap seen
             N == About(new, g)
  <2>1. N = new \cap OwnOf(g) /\ N \cap seen = {} /\ OwnOf(g) \subseteq DOMAIN stream
    BY <1>6 DEF About, OwnOf
  <2>2. (OwnOf(g) \cap seen)' = S \cup N
    BY <1>1, <1>20, <2>1
  <2>3. active[g] # 0 <=> S # {} /\ Joins(Newest(S))
    BY <1>2 DEF KnowsMembership, MemberAfter
  <2>4. MemberAfter(OwnOf(g) \cap seen)' <=> S \cup N # {} /\ Joins(Newest(S \cup N))
    BY <1>20, <2>2 DEF MemberAfter
  <2>5. CASE N = {}
    <3>1. active'[g] = active[g]
      BY <1>1, <2>5 DEF Activate
    <3> QED
      BY <2>3, <2>4, <2>5, <3>1
  <2>6. CASE N # {}
    <3>1. PICK n \in N : TRUE
      BY <2>6
    <3>2. n \in OwnOf(g) \ seen /\ n \in S \cup N /\ N \subseteq OwnOf(g) /\ S \cup N \subseteq OwnOf(g)
      BY <2>1, <3>1
    <3>3. \A j \in OwnOf(g) : j <= n
      BY <1>2, <3>2 DEF OneByOne
    <3>4. OwnOf(g) \subseteq Nat /\ n \in Nat /\ n # 0
      <4>1. DOMAIN stream = 1 .. Len(stream) /\ Len(stream) \in Nat
        BY <1>3, Positions
      <4> QED
        BY <2>1, <3>2, <4>1
    <3>5. Newest(N) = n /\ Newest(S \cup N) = n
      <4>1. N \subseteq Nat /\ S \cup N \subseteq Nat /\ n \in N
        BY <3>1, <3>2, <3>4
      <4>2. (\A j \in N : j <= n) /\ (\A j \in S \cup N : j <= n)
        BY <3>2, <3>3
      <4> HIDE DEF N, S
      <4> QED
        BY <3>2, <4>1, <4>2, GreatestIsNewest
    <3>6. active'[g] = IF Joins(n) THEN n ELSE 0
      BY <1>1, <2>6, <3>5 DEF Activate
    <3>7. MemberAfter(OwnOf(g) \cap seen)' <=> Joins(n)
      BY <2>4, <3>2, <3>5
    <3> QED
      BY <3>4, <3>6, <3>7
  <2> QED
    BY <2>5, <2>6
<1> QED
  BY <1>16, <1>17, <1>18, <1>19, <1>21, <1>22 DEF IInv

\* A new process knows nothing, and what the last one had seen counts as seen before.
LEMMA RestartKeeps ==
    ASSUME IInv, NEW initial, initial \in {saved, [k \in KindSet |-> 0]}, Restart(initial)
    PROVE  IInv'
<1>1. /\ cursors' = initial /\ seen' = {} /\ told' = {}
      /\ active' = [g \in Groups |-> 0]
      /\ poll' = [p \in Pollers |-> NoPoll]
      /\ before' = before \cup seen
      /\ overtaken' = {g \in Groups : OwnOf(g) # {}}
      /\ stream' = stream /\ saved' = saved
  BY DEF Restart
<1>2. Shape /\ CursorsHonest
  BY DEF IInv
<1>3. NoPoll \in Call /\ NoPoll.at = "idle" /\ NoPoll.events = {}
  BY DEF NoPoll, Call
<1>4. \A p \in Pollers : poll'[p] = NoPoll
  BY <1>1
<1>5. /\ Len(stream) \in Nat /\ DOMAIN stream = 1 .. Len(stream)
      /\ saved \in [KindSet -> Nat] /\ \A k \in KindSet : saved[k] <= Len(stream)
  BY <1>2, Positions DEF Shape
<1>6. Shape'
  <2>1. initial \in [KindSet -> Nat] /\ \A k \in KindSet : initial[k] <= Len(stream)
    BY <1>5
  <2>2. poll' \in [Pollers -> Call] /\ \A p \in Pollers : ~Querying(p)'
    BY <1>1, <1>3, <1>4 DEF Querying
  <2> QED
    BY <1>1, <1>2, <1>5, <2>1, <2>2 DEF Shape
<1>7. ToldIsSeen' /\ ToldOnce'
  BY <1>1, <1>3, <1>4 DEF ToldIsSeen, ToldOnce
<1>8. CursorsHonest'
  <2>1. \A k \in KindSet : Covered(k, saved[k])
    BY <1>2 DEF CursorsHonest
  <2>2. \A k \in KindSet : initial[k] = saved[k] \/ initial[k] = 0
    OBVIOUS
  <2>3. \A k \in KindSet : Covered(k, initial[k])
    BY <1>5, <2>1, <2>2 DEF Covered
  <2> QED
    BY <1>1, <2>1, <2>3 DEF CursorsHonest, Covered, IsOwn
<1>9. QueriesHonest'
  BY <1>3, <1>4 DEF QueriesHonest, Querying
<1>10. OneByOne' /\ KnowsMembership'
  <2>1. \A g \in Groups : OwnOf(g)' = OwnOf(g) /\ active'[g] = 0
    BY <1>1 DEF OwnOf, IsOwn
  <2> QED
    BY <1>1, <2>1 DEF OneByOne, KnowsMembership, MemberAfter
<1> QED
  BY <1>6, <1>7, <1>8, <1>9, <1>10 DEF IInv

-----------------------------------------------------------------------------
\* The shapes of a call that begins and of one that is over.
LEMMA CallShapes ==
    /\ NoPoll \in Call /\ NoPoll.events = {} /\ NoPoll.at = "idle"
    /\ \A at \in {"idle", "handling", "ended"} :
          LET c == [NoPoll EXCEPT !.at = at]
          IN  c \in Call /\ c.events = {} /\ c.at = at
    /\ \A cursor \in Nat :
          LET c == [NoPoll EXCEPT !.at = "querying", !.kind = 1, !.cursor = cursor]
          IN  c \in Call /\ c.events = {} /\ c.kind = 1 /\ c.cursor = cursor
<1>1. 0 \in Nat /\ 1 \in Nat
  OBVIOUS
<1> QED
  BY <1>1 DEF NoPoll, Call

LEMMA StutterKeeps == IInv /\ UNCHANGED discoveryVars => IInv'
  BY DEF discoveryVars, IInv, Shape, Querying, ToldIsSeen, ToldOnce, CursorsHonest, QueriesHonest,
         Covered, OneByOne, KnowsMembership, MemberAfter, OwnOf, IsOwn, Joins, Newest, KindOf

LEMMA DiscoveryStep == IInv /\ [DiscoveryNext]_discoveryVars => IInv'
<1> SUFFICES ASSUME IInv, [DiscoveryNext]_discoveryVars PROVE IInv'
  OBVIOUS
<1> USE DEF memory, history
<1>1. ASSUME NEW kind \in KindSet, NEW g \in Groups, NEW member \in {Actor, Stranger},
             Emit(kind, g, member)
      PROVE  IInv'
  BY <1>1, EmitKeeps
<1>2. ASSUME NEW p \in Pollers, StartPoll(p) PROVE IInv'
  <2> DEFINE cursor == cursors[KindOf(1)]
             c == [NoPoll EXCEPT !.at = "querying", !.kind = 1, !.cursor = cursor]
  <2>1. cursor \in Nat
    BY Kind1 DEF IInv, Shape
  <2>2. /\ poll' = [poll EXCEPT ![p] = c]
        /\ UNCHANGED <<stream, cursors, seen, active, before, overtaken>>
        /\ told' = told /\ saved' = saved
    BY <1>2 DEF StartPoll
  <2> HIDE DEF cursor
  <2>3. c \in Call /\ c.events = {} /\ c.kind = 1 /\ c.cursor = cursor
    BY <2>1, CallShapes
  <2> HIDE DEF c
  <2> QED
    BY <2>2, <2>3, Kind1, CallMovesOn DEF cursor
<1>3. ASSUME NEW p \in Pollers, ReadPage(p) PROVE IInv'
  BY <1>3, ReadPageKeeps
<1>4. ASSUME NEW p \in Pollers, Finish(p) PROVE IInv'
  <2> DEFINE c == [NoPoll EXCEPT !.at = IF p = Loop /\ Interesting(p) THEN "handling" ELSE "idle"]
  <2>1. /\ poll' = [poll EXCEPT ![p] = c]
        /\ UNCHANGED <<stream, cursors, seen, active, before, overtaken>>
        /\ told' = told \cup poll[p].events /\ saved' = cursors
    BY <1>4 DEF Finish
  <2>2. c \in Call /\ c.events = {} /\ c.at # "querying"
    BY CallShapes
  <2> HIDE DEF c
  <2> QED
    BY <2>1, <2>2, CallMovesOn
<1>5. ASSUME NEW p \in Pollers,
             poll' = [poll EXCEPT ![p] = AfterFailure(p)],
             UNCHANGED <<stream, memory, history, overtaken>>
      PROVE  IInv'
  <2> DEFINE c == AfterFailure(p)
  <2>1. c \in Call /\ c.events = {} /\ c.at # "querying"
    BY CallShapes DEF AfterFailure
  <2>2. /\ poll' = [poll EXCEPT ![p] = c]
        /\ UNCHANGED <<stream, cursors, seen, active, before, overtaken>>
        /\ told' = told /\ saved' = saved
    BY <1>5
  <2> HIDE DEF c
  <2> QED
    BY <2>1, <2>2, CallMovesOn
<1>6. Loop \in Pollers
  BY DEF Pollers
<1>7. ASSUME NEW p \in Pollers, FailPoll(p) PROVE IInv'
  BY <1>5, <1>7 DEF FailPoll
<1>8. CASE HandlerThrows \/ Stop
  BY <1>5, <1>6, <1>8 DEF HandlerThrows, Stop
<1>9. CASE LoopHandled
  <2> DEFINE c == NoPoll
  <2>1. /\ poll' = [poll EXCEPT ![Loop] = c]
        /\ UNCHANGED <<stream, cursors, seen, active, before, overtaken>>
        /\ told' = told /\ saved' = saved
    BY <1>9 DEF LoopHandled
  <2>2. c \in Call /\ c.events = {} /\ c.at # "querying"
    BY CallShapes
  <2> HIDE DEF c
  <2> QED
    BY <1>6, <2>1, <2>2, CallMovesOn
<1>10. CASE Restart(saved) \/ Restart([k \in KindSet |-> 0])
  BY <1>10, RestartKeeps
<1>11. CASE UNCHANGED discoveryVars
  BY <1>11, StutterKeeps
<1> QED
  BY <1>1, <1>2, <1>3, <1>4, <1>7, <1>8, <1>9, <1>10, <1>11 DEF DiscoveryNext, PollGoesOn

LEMMA DiscoveryInvariant == DiscoverySpec => []IInv
  BY DiscoveryInitHolds, DiscoveryStep, PTL DEF DiscoverySpec

-----------------------------------------------------------------------------
(***************************************************************************)
(* poll in session-discovery.ts: for any callers that overlap anyhow, an   *)
(* event is reported by at most one result of a process.                   *)
(***************************************************************************)
THEOREM EventsToldOnce == DiscoverySpec => []ToldOnce
<1>1. IInv => ToldOnce
  BY DEF IInv
<1> QED
  BY <1>1, DiscoveryInvariant, PTL

(***************************************************************************)
(* cursorByEventType: for any page size and any restarts, no event of the  *)
(* actor is behind a stored cursor that no poll has handled.               *)
(***************************************************************************)
THEOREM CursorsSkipNothing == DiscoverySpec => []NothingSkipped
<1>1. IInv => NothingSkipped
  BY DEF IInv, CursorsHonest, Covered, NothingSkipped
<1> QED
  BY <1>1, DiscoveryInvariant, PTL

(***************************************************************************)
(* activeSessions: for any number of groups and polls, a group whose       *)
(* events were read one by one is active exactly while the actor is a      *)
(* member as far as it was told.                                           *)
(***************************************************************************)
THEOREM ActiveIsMembership == DiscoverySpec => []KnowsMembership
<1>1. IInv => KnowsMembership
  BY DEF IInv
<1> QED
  BY <1>1, DiscoveryInvariant, PTL

-----------------------------------------------------------------------------
\* What the types of the state say beyond IInv.
Tight == /\ \A g \in Groups : active[g] <= Len(stream)
         /\ before \subseteq DOMAIN stream
         /\ begun \in [KindSet -> Nat] /\ \A k \in KindSet : begun[k] <= Len(stream)
         /\ overtaken \subseteq Groups
         /\ \A p \in Pollers : poll[p].kind <= Len(Kinds) /\ poll[p].pages <= MaxPagesPerEventType

LEMMA TypesFollow == IInv /\ Tight => DiscoveryTypeOK
<1> SUFFICES ASSUME IInv, Tight PROVE DiscoveryTypeOK
  OBVIOUS
<1>1. Shape /\ ToldIsSeen
  BY DEF IInv
<1>2. stream \in Seq(Event) /\ Len(stream) \in Nat
  BY <1>1 DEF Shape
<1>3. cursors \in [KindSet -> 0 .. Len(stream)] /\ saved \in [KindSet -> 0 .. Len(stream)]
  BY <1>1, <1>2 DEF Shape
<1>7. begun \in [KindSet -> 0 .. Len(stream)]
  BY <1>2 DEF Tight
<1>4. active \in [Groups -> 0 .. Len(stream)]
  BY <1>1, <1>2 DEF Shape, Tight
<1>5. \A S \in {seen, told, before} : S \subseteq DOMAIN stream
  BY <1>1 DEF Shape, ToldIsSeen, Tight
<1>6. poll \in [Pollers -> Poll]
  <2> SUFFICES ASSUME NEW p \in Pollers PROVE poll[p] \in Poll
    BY <1>1 DEF Shape
  <2>1. poll[p] \in Call /\ poll[p].events \subseteq DOMAIN stream
    BY <1>1 DEF Shape, ToldIsSeen
  <2>2. Len(Kinds) \in Nat /\ MaxPagesPerEventType \in Nat
    BY DiscoveryAssumption
  <2>3. poll[p].kind \in 0 .. Len(Kinds) /\ poll[p].pages \in 0 .. MaxPagesPerEventType
    BY <2>1, <2>2 DEF Call, Tight
  <2> QED
    BY <2>1, <2>3 DEF Call, Poll
<1> QED
  BY <1>2, <1>3, <1>4, <1>5, <1>6, <1>7 DEF DiscoveryTypeOK, Tight

\* A call goes on within the kinds and the pages there are.
LEMMA NextQueryTight ==
    ASSUME NEW p \in Pollers, NEW q \in Call, q.kind \in DOMAIN Kinds,
           q.pages <= MaxPagesPerEventType,
           NEW cursor, NEW reached, NEW c, c = NextQuery(p, q, cursor, reached)
    PROVE  c.kind <= Len(Kinds) /\ c.pages <= MaxPagesPerEventType
<1>1. /\ Len(Kinds) \in Nat /\ DOMAIN Kinds = 1 .. Len(Kinds)
      /\ MaxPagesPerEventType \in Nat \ {0}
  BY DiscoveryAssumption
<1>2. q.kind \in Nat /\ q.pages \in Nat /\ q.kind <= Len(Kinds)
  BY <1>1 DEF Call
<1>3. CASE /\ q.pages + 1 < MaxPagesPerEventType
           /\ c = [q EXCEPT !.cursor = cursor, !.pages = q.pages + 1]
  <2>1. c.kind = q.kind /\ c.pages = q.pages + 1
    BY <1>3 DEF Call
  <2> QED
    BY <1>1, <1>2, <1>3, <2>1
<1>4. CASE /\ q.kind < Len(Kinds)
           /\ c = [q EXCEPT !.kind = q.kind + 1, !.cursor = reached[KindOf(q.kind + 1)], !.pages = 0]
  <2>1. c.kind = q.kind + 1 /\ c.pages = 0
    BY <1>4 DEF Call
  <2> QED
    BY <1>1, <1>2, <1>4, <2>1
<1>5. CASE c = [q EXCEPT !.at = "hydrating", !.kind = 0, !.cursor = 0, !.pages = 0]
  <2>1. c.kind = 0 /\ c.pages = 0
    BY <1>5 DEF Call
  <2> QED
    BY <1>1, <2>1
<1> QED
  BY <1>3, <1>4, <1>5 DEF NextQuery

\* A step of one call that leaves the rest alone.
LEMMA TightCall ==
    ASSUME IInv, Tight, NEW p \in Pollers, NEW c,
           c.kind <= Len(Kinds) /\ c.pages <= MaxPagesPerEventType,
           poll' = [poll EXCEPT ![p] = c],
           UNCHANGED <<stream, before, begun, overtaken>>,
           \A g \in Groups : active'[g] <= Len(stream)
    PROVE  Tight'
<1>1. \A q \in Pollers : poll'[q] = IF q = p THEN c ELSE poll[q]
  BY DEF IInv, Shape
<1> QED
  BY <1>1 DEF Tight

LEMMA TightReadPage ==
    ASSUME IInv, Tight, NEW p \in Pollers, ReadPage(p)
    PROVE  Tight'
<1> DEFINE kind == KindOf(poll[p].kind)
           page == Page(kind, poll[p].cursor)
           new  == Fresh(page)
           next == NextCursor(page, poll[p].cursor)
           gain == [poll[p] EXCEPT !.events = @ \cup new,
                                   !.fresh = @ \cup NewlyDiscovered(new)]
           c    == NextQuery(p, gain, next, cursors')
<1>1. /\ Querying(p)
      /\ active' = Activate(new)
      /\ poll' = [poll EXCEPT ![p] = c]
      /\ UNCHANGED <<stream, before, begun, overtaken>>
  BY DEF ReadPage, Querying, history
<1>2. Shape
  BY DEF IInv
<1>3. /\ stream \in Seq(Event) /\ poll[p] \in Call /\ poll[p].cursor \in Nat
      /\ poll[p].kind \in DOMAIN Kinds /\ poll[p].pages <= MaxPagesPerEventType
  BY <1>1, <1>2 DEF Shape, Call, Tight
<1>4. new \subseteq DOMAIN stream /\ DOMAIN stream = 1 .. Len(stream) /\ Len(stream) \in Nat
  <2>1. page \subseteq DOMAIN stream
    BY <1>3, PageIsPrefix
  <2> HIDE DEF page
  <2> QED
    BY <1>3, <2>1, Positions DEF Fresh
<1>5. gain \in Call /\ gain.kind = poll[p].kind /\ gain.pages = poll[p].pages
  <2>1. new \subseteq Nat /\ NewlyDiscovered(new) \subseteq Groups
    BY <1>4 DEF NewlyDiscovered
  <2> DEFINE ev == poll[p].events \cup new
             fr == poll[p].fresh \cup NewlyDiscovered(new)
  <2>2. ev \in SUBSET Nat /\ fr \in SUBSET Groups
    BY <1>3, <2>1 DEF Call
  <2>3. gain = [poll[p] EXCEPT !.events = ev, !.fresh = fr]
    OBVIOUS
  <2> HIDE DEF ev, fr, gain
  <2> QED
    BY <1>3, <2>2, <2>3 DEF Call
<1>6. \A g \in Groups : active'[g] <= Len(stream)
  <2> SUFFICES ASSUME NEW g \in Groups PROVE active'[g] <= Len(stream)
    OBVIOUS
  <2>1. CASE About(new, g) = {}
    BY <1>1, <2>1 DEF Activate, Tight
  <2>2. CASE About(new, g) # {}
    <3> DEFINE S == About(new, g)
    <3>1. S \subseteq DOMAIN stream
      BY <1>4 DEF About
    <3>2. S \subseteq Nat /\ IsFiniteSet(S)
      BY <1>3, <3>1, Positions
    <3> HIDE DEF S
    <3>3. Newest(S) \in S
      BY <2>2, <3>2, NewestIsGreatest DEF S
    <3>4. Newest(S) <= Len(stream) /\ 0 <= Len(stream)
      BY <1>4, <3>1, <3>3
    <3>5. active'[g] = IF Joins(Newest(S)) THEN Newest(S) ELSE 0
      BY <1>1, <2>2 DEF Activate, S
    <3> QED
      BY <3>4, <3>5
  <2> QED
    BY <2>1, <2>2
<1> HIDE DEF gain, next
<1>7. c.kind <= Len(Kinds) /\ c.pages <= MaxPagesPerEventType
  BY <1>3, <1>5, NextQueryTight
<1> HIDE DEF c
<1> QED
  BY <1>1, <1>6, <1>7, TightCall

LEMMA TightStart == DiscoveryInit => Tight
  BY DiscoveryAssumption DEF DiscoveryInit, Tight, NoPoll

LEMMA TightStep == IInv /\ Tight /\ [DiscoveryNext]_discoveryVars => Tight'
<1> SUFFICES ASSUME IInv, Tight, [DiscoveryNext]_discoveryVars PROVE Tight'
  OBVIOUS
<1> USE DEF memory, history
<1>1. /\ Len(Kinds) \in Nat /\ 1 <= Len(Kinds) /\ 0 <= Len(Kinds)
      /\ 0 <= MaxPagesPerEventType
  BY DiscoveryAssumption
<1>2. Loop \in Pollers /\ Len(stream) \in Nat /\ stream \in Seq(Event)
  BY DEF Pollers, IInv, Shape
<1>3. active' = active => \A g \in Groups : active'[g] <= Len(stream)
  BY DEF Tight
<1>4. ASSUME NEW kind \in KindSet, NEW g \in Groups, NEW member \in {Actor, Stranger},
             Emit(kind, g, member)
      PROVE  Tight'
  <2> DEFINE e == [kind |-> kind, group |-> g, member |-> member]
  <2>1. stream' = Append(stream, e) /\ UNCHANGED <<active, poll, before, begun>>
    BY <1>4 DEF Emit
  <2>2. overtaken' \in {overtaken, overtaken \cup {g}}
    BY <1>4 DEF Emit
  <2> HIDE DEF e
  <2>3. Len(stream') = Len(stream) + 1 /\ DOMAIN stream \subseteq DOMAIN stream'
    BY <1>2, <2>1
  <2>4. \A h \in Groups : active[h] \in Nat
    BY DEF IInv, Shape
  <2>5. \A h \in Groups : active[h] <= Len(stream')
    BY <1>2, <2>3, <2>4 DEF Tight
  <2>6. \A k \in KindSet : begun[k] <= Len(stream')
    BY <1>2, <2>3 DEF Tight
  <2> QED
    BY <2>1, <2>2, <2>3, <2>5, <2>6 DEF Tight
<1>5. ASSUME NEW p \in Pollers, StartPoll(p) PROVE Tight'
  <2> DEFINE c == [NoPoll EXCEPT !.at = "querying", !.kind = 1, !.cursor = cursors[KindOf(1)]]
  <2>1. c.kind <= Len(Kinds) /\ c.pages <= MaxPagesPerEventType
    BY <1>1 DEF NoPoll
  <2>2. poll' = [poll EXCEPT ![p] = c] /\ UNCHANGED <<stream, active, before, begun, overtaken>>
    BY <1>5 DEF StartPoll
  <2> HIDE DEF c
  <2> QED
    BY <1>3, <2>1, <2>2, TightCall
<1>6. ASSUME NEW p \in Pollers, Finish(p) PROVE Tight'
  <2> DEFINE c == [NoPoll EXCEPT !.at = IF p = Loop /\ Interesting(p) THEN "handling" ELSE "idle"]
  <2>1. c.kind <= Len(Kinds) /\ c.pages <= MaxPagesPerEventType
    BY <1>1 DEF NoPoll
  <2>2. poll' = [poll EXCEPT ![p] = c] /\ UNCHANGED <<stream, active, before, begun, overtaken>>
    BY <1>6 DEF Finish
  <2> HIDE DEF c
  <2> QED
    BY <1>3, <2>1, <2>2, TightCall
<1>7. ASSUME NEW p \in Pollers, poll' = [poll EXCEPT ![p] = AfterFailure(p)],
             UNCHANGED <<stream, active, before, begun, overtaken>>
      PROVE  Tight'
  <2> DEFINE c == AfterFailure(p)
  <2>1. c.kind <= Len(Kinds) /\ c.pages <= MaxPagesPerEventType
    BY <1>1 DEF NoPoll, AfterFailure
  <2>2. poll' = [poll EXCEPT ![p] = c] /\ UNCHANGED <<stream, active, before, begun, overtaken>>
    BY <1>7
  <2> HIDE DEF c
  <2> QED
    BY <1>3, <2>1, <2>2, TightCall
<1>8. ASSUME NEW p \in Pollers, FailPoll(p) PROVE Tight'
  BY <1>7, <1>8 DEF FailPoll
<1>9. CASE HandlerThrows \/ Stop
  BY <1>2, <1>7, <1>9 DEF HandlerThrows, Stop
<1>10. CASE LoopHandled
  <2>1. NoPoll.kind <= Len(Kinds) /\ NoPoll.pages <= MaxPagesPerEventType
    BY <1>1 DEF NoPoll
  <2>2. /\ poll' = [poll EXCEPT ![Loop] = NoPoll]
        /\ UNCHANGED <<stream, active, before, begun, overtaken>>
    BY <1>10 DEF LoopHandled
  <2> QED
    BY <1>2, <1>3, <2>1, <2>2, TightCall
<1>11. ASSUME NEW initial, initial \in {saved, [k \in KindSet |-> 0]}, Restart(initial)
       PROVE  Tight'
  <2>1. /\ active' = [g \in Groups |-> 0]
        /\ poll' = [p \in Pollers |-> NoPoll]
        /\ before' = before \cup seen
        /\ overtaken' = {g \in Groups : OwnOf(g) # {}}
        /\ stream' = stream /\ begun' = initial
    BY <1>11 DEF Restart
  <2>2. seen \subseteq DOMAIN stream
    BY DEF IInv, Shape
  <2>3. before' \subseteq DOMAIN stream' /\ overtaken' \subseteq Groups
    BY <2>1, <2>2 DEF Tight
  <2>4. \A p \in Pollers : poll'[p].kind = 0 /\ poll'[p].pages = 0
    BY <2>1 DEF NoPoll
  <2>5. \A g \in Groups : active'[g] = 0
    BY <2>1
  <2>6. begun' \in [KindSet -> Nat] /\ \A k \in KindSet : begun'[k] <= Len(stream)
    BY <1>2, <1>11, <2>1 DEF IInv, Shape
  <2> QED
    BY <1>1, <1>2, <2>1, <2>3, <2>4, <2>5, <2>6 DEF Tight
<1>12. CASE UNCHANGED discoveryVars
  BY <1>12 DEF discoveryVars, Tight
<1> QED
  BY <1>4, <1>5, <1>6, <1>8, <1>9, <1>10, <1>11, <1>12, TightReadPage DEF DiscoveryNext, PollGoesOn

LEMMA DiscoveryTight == DiscoverySpec => [](IInv /\ Tight)
<1>1. DiscoveryInit => IInv /\ Tight
  BY DiscoveryInitHolds, TightStart
<1>2. IInv /\ Tight /\ [DiscoveryNext]_discoveryVars => (IInv /\ Tight)'
  BY DiscoveryStep, TightStep
<1> QED
  BY <1>1, <1>2, PTL DEF DiscoverySpec

(***************************************************************************)
(* poll and start: in every call that is under way the page and the type   *)
(* are within their limits, and whatever is kept or told, in this process  *)
(* or an earlier one, refers to events that there are.                     *)
(***************************************************************************)
THEOREM DiscoveryTypeCorrect == DiscoverySpec => []DiscoveryTypeOK
  BY DiscoveryTight, TypesFollow, PTL

-----------------------------------------------------------------------------
(***************************************************************************)
(* SessionTransport, for any page size, number of pages and length of the  *)
(* group.  While a call of list fetches, all its pages have been full      *)
(* ones; a page with which it ends though it may read more pages reaches   *)
(* the end of the group as it is then.  A loop of subscribe works through  *)
(* a batch that goes on exactly where it is.                               *)
(***************************************************************************)
AnyListing == [at : {"idle", "fetching", "listed", "found", "failed"},
               session : Sessions \cup {NoSession}, wanted : Nat,
               got : Seq(Nat), pages : Nat, posted : Nat]

\* A call of list that has seen the beginning of a group of n messages.
Reads(l, n) ==
    /\ l \in AnyListing
    /\ l.posted <= n
    /\ Len(l.got) <= n /\ l.got = UpTo(Len(l.got))
    /\ l.at = "fetching" => l.pages < MaxPages /\ Len(l.got) = l.pages * PageSize
    /\ l.at = "listed" => Len(l.got) >= AtMost(l.posted, Window)

GroupOK == group \in Seq(Sessions \cup {NoEnvelope})

SessionInv == /\ GroupOK
              /\ listing = [r \in Readers |-> listing[r]]
              /\ \A r \in Readers : Reads(listing[r], Len(group))

-----------------------------------------------------------------------------
LEMMA Constants ==
    /\ PageSize \in Nat \ {0} /\ MaxPages \in Nat \ {0}
    /\ Window \in Nat /\ Window = MaxPages * PageSize
BY TransportAssumption DEF Window

LEMMA GroupShape ==
    ASSUME GroupOK
    PROVE  Len(group) \in Nat /\ DOMAIN group = 1 .. Len(group)
BY DEF GroupOK

LEMMA UpToShape ==
    ASSUME NEW n \in Nat
    PROVE  UpTo(n) \in Seq(Nat) /\ Len(UpTo(n)) = n /\ \A i \in 1 .. n : UpTo(n)[i] = i
BY DEF UpTo

\* Where a call goes on reading.
LEMMA AfterPrefix ==
    ASSUME NEW l, l.got \in Seq(Nat), l.got = UpTo(Len(l.got))
    PROVE  After(l) = Len(l.got)
<1>1. Len(l.got) \in Nat
  OBVIOUS
<1>2. CASE l.got = << >>
  BY <1>2 DEF After
<1>3. CASE l.got # << >>
  <2>1. Len(l.got) \in 1 .. Len(l.got)
    BY <1>1, <1>3
  <2>2. UpTo(Len(l.got))[Len(l.got)] = Len(l.got)
    BY <1>1, <2>1, UpToShape
  <2> QED
    BY <1>3, <2>2 DEF After, Last
<1> QED
  BY <1>2, <1>3

\* The page that is served to who has read n messages.
LEMMA PageShape ==
    ASSUME GroupOK, NEW n \in Nat, n <= Len(group)
    PROVE  LET page == FirstOf(FetchFrom(n), PageSize)
               size == AtMost(Len(group) - n, PageSize)
           IN  /\ size \in Nat
               /\ page \in Seq(Nat) /\ Len(page) = size
               /\ UpTo(n) \o page = UpTo(n + size)
               /\ HasNext(n, PageSize) <=> Len(group) - n > PageSize
<1> DEFINE rest == FetchFrom(n)
           left == Len(group) - n
           size == AtMost(left, PageSize)
           page == FirstOf(rest, PageSize)
<1>1. left \in Nat
  BY GroupShape
<1>2. size \in Nat /\ size <= left
  BY <1>1, Constants DEF AtMost
<1>3. rest = [i \in 1 .. left |-> n + i]
  BY DEF FetchFrom
<1>4. rest \in Seq(Nat) /\ Len(rest) = left
  <2> HIDE DEF left, rest
  <2> QED
    BY <1>1, <1>3
<1>5. page = SubSeq(rest, 1, size)
  BY <1>1, <1>4, Constants DEF FirstOf, AtMost
<1>6. HasNext(n, PageSize) <=> left > PageSize
  BY <1>4 DEF HasNext
<1> HIDE DEF rest, left, size, page
<1>7. page \in Seq(Nat) /\ Len(page) = size /\ \A i \in 1 .. size : page[i] = n + i
  <2>1. \A i \in 1 .. size : i \in 1 .. left
    BY <1>1, <1>2
  <2>2. SubSeq(rest, 1, size) \in Seq(Nat) /\ Len(SubSeq(rest, 1, size)) = size
    BY <1>1, <1>2, <1>4
  <2>3. \A i \in 1 .. size : SubSeq(rest, 1, size)[i] = rest[i]
    BY <1>1, <1>2, <1>4
  <2>4. \A i \in 1 .. left : rest[i] = n + i
    BY <1>3
  <2> QED
    BY <1>5, <2>1, <2>2, <2>3, <2>4
<1>8. UpTo(n) \o page = UpTo(n + size)
  <2>1. UpTo(n) \in Seq(Nat) /\ Len(UpTo(n)) = n /\ \A i \in 1 .. n : UpTo(n)[i] = i
    BY UpToShape
  <2>2. /\ UpTo(n + size) \in Seq(Nat) /\ Len(UpTo(n + size)) = n + size
        /\ \A i \in 1 .. n + size : UpTo(n + size)[i] = i
    BY <1>2, UpToShape
  <2>3. /\ UpTo(n) \o page \in Seq(Nat) /\ Len(UpTo(n) \o page) = n + size
        /\ \A i \in 1 .. n + size : (UpTo(n) \o page)[i] =
               IF i <= n THEN UpTo(n)[i] ELSE page[i - n]
    <3> DEFINE s == UpTo(n)
    <3>1. s \in Seq(Nat) /\ Len(s) = n
      BY <2>1
    <3> HIDE DEF s
    <3>2. s \o page \in Seq(Nat) /\ Len(s \o page) = n + size
      <4>1. page \in Seq(Nat) /\ Len(page) = size
        BY <1>7
      <4>2. s \o page \in Seq(Nat)
        BY <3>1, <4>1
      <4>3. Len(s \o page) = Len(s) + Len(page)
        BY <3>1, <4>1
      <4> QED
        BY <3>1, <4>1, <4>2, <4>3
    <3>3. \A i \in 1 .. n + size : (s \o page)[i] = IF i <= n THEN s[i] ELSE page[i - n]
      BY <1>7, <3>1
    <3> QED
      BY <3>2, <3>3 DEF s
  <2>4. \A i \in 1 .. n + size : (UpTo(n) \o page)[i] = i
    <3> SUFFICES ASSUME NEW i \in 1 .. n + size PROVE (UpTo(n) \o page)[i] = i
      OBVIOUS
    <3>1. CASE i <= n
      BY <2>1, <2>3, <3>1
    <3>2. CASE ~(i <= n)
      <4>1. i - n \in 1 .. size
        BY <1>2, <3>2
      <4> QED
        BY <1>7, <2>3, <3>2, <4>1
    <3> QED
      BY <3>1, <3>2
  <2> QED
    BY <2>2, <2>3, <2>4, SeqEqual
<1> QED
  BY <1>2, <1>6, <1>7, <1>8 DEF left, size, page, rest

\* (p + 1) * PageSize, and a window of full pages.
LEMMA FullPages ==
    ASSUME NEW p \in Nat
    PROVE  /\ (p + 1) * PageSize = p * PageSize + PageSize /\ p * PageSize \in Nat
           /\ p + 1 = MaxPages => (p + 1) * PageSize = Window
BY Constants DEF Window

LEMMA FetchPageKeeps ==
    ASSUME SessionInv, NEW r \in Readers, FetchPage(r)
    PROVE  SessionInv'
<1> DEFINE l    == listing[r]
           n    == Len(l.got)
           size == AtMost(Len(group) - n, PageSize)
           page == FirstOf(FetchFrom(After(l)), PageSize)
           more == HasNext(After(l), PageSize) /\ page # << >> /\ l.pages + 1 < MaxPages
           goes == IF more THEN "fetching" ELSE "listed"
           read == [l EXCEPT !.got = @ \o page, !.pages = @ + 1, !.at = goes]
<1>1. /\ Reads(l, Len(group)) /\ l.at = "fetching"
      /\ l \in AnyListing /\ l.got \in Seq(Nat) /\ n \in Nat /\ n <= Len(group)
      /\ l.got = UpTo(n) /\ l.pages \in Nat /\ l.posted \in Nat /\ l.posted <= Len(group)
      /\ l.pages < MaxPages /\ n = l.pages * PageSize
  <2>1. Reads(l, Len(group)) /\ l.at = "fetching"
    BY DEF SessionInv, FetchPage
  <2> HIDE DEF l
  <2>2. l \in AnyListing
    BY <2>1 DEF Reads
  <2>3. l.got \in Seq(Nat) /\ l.pages \in Nat /\ l.posted \in Nat
    BY <2>2 DEF AnyListing
  <2> QED
    BY <2>1, <2>2, <2>3 DEF Reads
<1>2. listing' = [listing EXCEPT ![r] = read] /\ group' = group
  BY DEF FetchPage
<1>3. Len(group) \in Nat
  BY GroupShape DEF SessionInv
<1>4. After(l) = n
  <2> HIDE DEF l
  <2> QED
    BY <1>1, AfterPrefix
<1>5. /\ size \in Nat /\ page \in Seq(Nat) /\ Len(page) = size
      /\ l.got \o page = UpTo(n + size)
      /\ HasNext(After(l), PageSize) <=> Len(group) - n > PageSize
  <2>1. LET served == FirstOf(FetchFrom(n), PageSize)
        IN  /\ size \in Nat
            /\ served \in Seq(Nat) /\ Len(served) = size
            /\ UpTo(n) \o served = UpTo(n + size)
            /\ HasNext(n, PageSize) <=> Len(group) - n > PageSize
    BY <1>1, PageShape DEF SessionInv
  <2> QED
    BY <1>1, <1>4, <2>1
<1> HIDE DEF l, n, page, more, goes
<1>6. /\ read \in AnyListing /\ read.got = UpTo(n + size) /\ read.pages = l.pages + 1
      /\ read.posted = l.posted /\ read.at = goes
  <2> DEFINE got == l.got \o page
             pages == l.pages + 1
  <2>1. got \in Seq(Nat) /\ pages \in Nat /\ goes \in {"fetching", "listed"}
    BY <1>1, <1>5 DEF goes
  <2>2. read = [l EXCEPT !.got = got, !.pages = pages, !.at = goes]
    OBVIOUS
  <2>3. l \in AnyListing /\ got = UpTo(n + size)
    BY <1>1, <1>5
  <2> HIDE DEF got, pages, read
  <2>4. read \in AnyListing /\ read.got = got /\ read.pages = pages
        /\ read.posted = l.posted /\ read.at = goes
    BY <2>1, <2>2, <2>3 DEF AnyListing
  <2> QED
    BY <2>3, <2>4 DEF pages
<1>7. Len(read.got) = n + size
  BY <1>1, <1>5, <1>6, UpToShape
<1>8. size <= Len(group) - n /\ size <= PageSize
  BY <1>1, <1>3, Constants DEF AtMost
<1>9. /\ (l.pages + 1) * PageSize = n + PageSize
      /\ l.pages + 1 = MaxPages => n + PageSize = Window
  BY <1>1, FullPages
<1>10. more => l.pages + 1 < MaxPages /\ size = PageSize
  BY <1>1, <1>3, <1>5, Constants DEF more, AtMost
<1>11. ~more => n + size >= AtMost(l.posted, Window)
  <2>1. CASE size = Len(group) - n
    <3>1. n + size = Len(group)
      BY <1>1, <1>3, <2>1
    <3>2. l.posted >= AtMost(l.posted, Window)
      BY <1>1, Constants DEF AtMost
    <3>3. AtMost(l.posted, Window) \in Nat
      BY <1>1, Constants DEF AtMost
    <3> HIDE DEF size
    <3> QED
      BY <1>1, <1>3, <3>1, <3>2, <3>3
  <2>2. CASE size # Len(group) - n
    <3>1. size = PageSize /\ Len(group) - n > PageSize
      <4>1. Len(group) - n \in Nat
        BY <1>1, <1>3
      <4> QED
        BY <2>2, <4>1, Constants DEF AtMost
    <3>2. page # << >>
      BY <1>5, <3>1, Constants
    <3>3. ~more => l.pages + 1 = MaxPages
      <4>1. HasNext(After(l), PageSize)
        BY <1>5, <3>1
      <4>2. ~more => ~(l.pages + 1 < MaxPages)
        BY <3>2, <4>1 DEF more
      <4>3. l.pages \in Nat /\ MaxPages \in Nat /\ l.pages < MaxPages
        BY <1>1, Constants
      <4> HIDE DEF more
      <4> QED
        BY <4>2, <4>3
    <3> QED
      BY <1>1, <1>9, <3>1, <3>3, Constants DEF AtMost
  <2> QED
    BY <2>1, <2>2
<1> HIDE DEF size, read
<1>12. Reads(read, Len(group))
  <2>1. Len(read.got) <= Len(group) /\ read.got = UpTo(Len(read.got))
    BY <1>1, <1>3, <1>5, <1>6, <1>7, <1>8
  <2>2. read.at = "fetching" => read.pages < MaxPages /\ Len(read.got) = read.pages * PageSize
    BY <1>6, <1>7, <1>9, <1>10 DEF goes
  <2>3. read.at = "listed" => Len(read.got) >= AtMost(read.posted, Window)
    BY <1>6, <1>7, <1>11 DEF goes
  <2> QED
    BY <1>1, <1>6, <2>1, <2>2, <2>3 DEF Reads
<1>13. /\ GroupOK' /\ listing' = [q \in Readers |-> listing'[q]]
      /\ \A q \in Readers : listing'[q] = IF q = r THEN read ELSE listing[q]
  BY <1>2 DEF SessionInv, GroupOK
<1> QED
  BY <1>2, <1>12, <1>13 DEF SessionInv

LEMMA IdleListing ==
    /\ NoListing \in AnyListing /\ NoListing.got = << >> /\ NoListing.pages = 0
    /\ NoListing.posted = 0 /\ NoListing.at = "idle"
BY DEF NoListing, AnyListing

\* Calls that have not fetched anything.
LEMMA FreshReads ==
    ASSUME NEW l \in AnyListing, NEW n \in Nat, l.got = << >>, l.pages = 0, l.posted <= n,
           l.at # "listed"
    PROVE  Reads(l, n)
<1>1. UpTo(0) = << >>
  BY DEF UpTo
<1>2. 0 < MaxPages /\ 0 * PageSize = 0
  BY Constants
<1> QED
  BY <1>1, <1>2 DEF Reads

\* A step of one reader, after which its call has not fetched anything.
LEMMA OthersKeep ==
    ASSUME SessionInv, NEW r \in Readers, NEW l \in AnyListing,
           l.got = << >>, l.pages = 0, l.posted <= Len(group), l.at # "listed",
           group' = group, listing' = [listing EXCEPT ![r] = l]
    PROVE  SessionInv'
<1>1. Reads(l, Len(group))
  BY FreshReads, GroupShape DEF SessionInv
<1>2. /\ GroupOK' /\ listing' = [q \in Readers |-> listing'[q]]
      /\ \A q \in Readers : listing'[q] = IF q = r THEN l ELSE listing[q]
  BY DEF SessionInv, GroupOK
<1> QED
  BY <1>1, <1>2 DEF SessionInv

LEMMA StartListKeeps ==
    ASSUME SessionInv, NEW r \in Readers, NEW topic \in Sessions,
           NEW wanted \in {0} \cup Orders, StartList(r, topic, wanted)
    PROVE  SessionInv'
<1> DEFINE l == [NoListing EXCEPT !.at = "fetching", !.session = topic,
                                  !.wanted = wanted, !.posted = Len(group)]
<1>1. Len(group) \in Nat /\ wanted \in Nat
  BY GroupShape, TransportAssumption DEF SessionInv, Orders
<1>2. /\ l \in AnyListing /\ l.got = << >> /\ l.pages = 0 /\ l.posted = Len(group)
      /\ l.at # "listed"
  BY <1>1, IdleListing DEF AnyListing
<1>3. group' = group /\ listing' = [listing EXCEPT ![r] = l]
  BY DEF StartList
<1> HIDE DEF l
<1>4. l.posted <= Len(group)
  BY <1>1, <1>2
<1> QED
  BY <1>2, <1>3, <1>4, OthersKeep

LEMMA ReturnKeeps ==
    ASSUME SessionInv, NEW r \in Readers, Return(r)
    PROVE  SessionInv'
<1> DEFINE k == listing[r]
           l == IF k.wanted = 0 THEN NoListing
                ELSE IF Found(k) THEN [NoListing EXCEPT !.at = "found"]
                ELSE [NoListing EXCEPT !.at = "fetching", !.session = k.session,
                                       !.wanted = k.wanted, !.posted = Len(group)]
<1>1. Len(group) \in Nat
  BY GroupShape DEF SessionInv
<1>2. k.wanted \in Nat /\ k.session \in Sessions \cup {NoSession}
  <2>1. k \in AnyListing
    BY DEF SessionInv, Reads
  <2> HIDE DEF k
  <2> QED
    BY <2>1 DEF AnyListing
<1>3. group' = group /\ listing' = [listing EXCEPT ![r] = l]
  BY DEF Return
<1> HIDE DEF k
<1>4. CASE k.wanted = 0
  <2>1. listing' = [listing EXCEPT ![r] = NoListing]
    BY <1>3, <1>4
  <2>2. NoListing.posted <= Len(group) /\ NoListing.at # "listed"
    BY <1>1, IdleListing
  <2> QED
    BY <1>3, <2>1, <2>2, IdleListing, OthersKeep
<1>5. CASE k.wanted # 0 /\ Found(k)
  <2> DEFINE new == [NoListing EXCEPT !.at = "found"]
  <2>1. /\ new \in AnyListing /\ new.got = << >> /\ new.pages = 0 /\ new.posted = 0
        /\ new.at # "listed"
    BY IdleListing DEF AnyListing
  <2>2. listing' = [listing EXCEPT ![r] = new]
    BY <1>3, <1>5
  <2> HIDE DEF new
  <2>3. new.posted <= Len(group)
    BY <1>1, <2>1
  <2> QED
    BY <1>3, <2>1, <2>2, <2>3, OthersKeep
<1>6. CASE k.wanted # 0 /\ ~Found(k)
  <2> DEFINE new == [NoListing EXCEPT !.at = "fetching", !.session = k.session,
                                      !.wanted = k.wanted, !.posted = Len(group)]
  <2>1. /\ new \in AnyListing /\ new.got = << >> /\ new.pages = 0
        /\ new.posted = Len(group) /\ new.at # "listed"
    BY <1>1, <1>2, IdleListing DEF AnyListing
  <2>2. listing' = [listing EXCEPT ![r] = new]
    BY <1>3, <1>6
  <2> HIDE DEF new
  <2>3. new.posted <= Len(group)
    BY <1>1, <2>1
  <2> QED
    BY <1>3, <2>1, <2>2, <2>3, OthersKeep
<1> QED
  BY <1>4, <1>5, <1>6

LEMMA FailListKeeps ==
    ASSUME SessionInv, NEW r \in Readers, FailList(r)
    PROVE  SessionInv'
<1> DEFINE l == [NoListing EXCEPT !.at = "failed"]
<1>1. /\ l \in AnyListing /\ l.got = << >> /\ l.pages = 0 /\ l.posted = 0
      /\ l.at # "listed"
  BY IdleListing DEF AnyListing
<1>2. group' = group /\ listing' = [listing EXCEPT ![r] = l]
  BY DEF FailList
<1> HIDE DEF l
<1>3. l.posted <= Len(group)
  BY <1>1, GroupShape DEF SessionInv
<1> QED
  BY <1>1, <1>2, <1>3, OthersKeep

\* What a call has read stays the beginning of a group that grows.
LEMMA SendKeeps ==
    ASSUME SessionInv, NEW text \in Sessions \cup {NoEnvelope}, Send(text)
    PROVE  SessionInv'
<1>1. group' = Append(group, text) /\ listing' = listing
  BY DEF Send
<1>2. /\ group' \in Seq(Sessions \cup {NoEnvelope})
      /\ Len(group) \in Nat /\ Len(group') = Len(group) + 1
  BY <1>1 DEF SessionInv, GroupOK
<1>3. ASSUME NEW r \in Readers
      PROVE  Reads(listing[r], Len(group'))
  <2>1. Reads(listing[r], Len(group))
    BY DEF SessionInv
  <2>2. Len(listing[r].got) \in Nat /\ listing[r].posted \in Nat
    BY <2>1 DEF Reads, AnyListing
  <2> QED
    BY <1>2, <2>1, <2>2 DEF Reads
<1> QED
  BY <1>1, <1>2, <1>3 DEF SessionInv, GroupOK

LEMMA TransportStep == SessionInv /\ [TransportNext]_transportVars => SessionInv'
<1> SUFFICES ASSUME SessionInv, [TransportNext]_transportVars PROVE SessionInv'
  OBVIOUS
<1>1. CASE group' = group /\ listing' = listing
  BY <1>1 DEF SessionInv, GroupOK
<1>2. ASSUME NEW text \in Sessions \cup {NoEnvelope}, Send(text) PROVE SessionInv'
  BY <1>2, SendKeeps
<1>3. CASE ReaderNext
  BY <1>3, StartListKeeps, FetchPageKeeps, ReturnKeeps, FailListKeeps
     DEF ReaderNext, ReaderGoesOn
<1>4. CASE SubscriberNext
  BY <1>1, <1>4 DEF SubscriberNext, StreamGoesOn, Subscribe, FetchBatch, Yield, Handled,
                    StreamFails, Unsubscribe
<1>5. CASE UNCHANGED transportVars
  BY <1>1, <1>5 DEF transportVars
<1> QED
  BY <1>2, <1>3, <1>4, <1>5 DEF TransportNext

LEMMA TransportStart == TransportInit => SessionInv
<1> SUFFICES ASSUME TransportInit PROVE SessionInv
  OBVIOUS
<1>1. group \in Seq(Sessions \cup {NoEnvelope}) /\ Len(group) = 0
  BY DEF TransportInit
<1>2. Reads(NoListing, 0)
  BY IdleListing, FreshReads
<1> QED
  BY <1>1, <1>2 DEF TransportInit, SessionInv, GroupOK

-----------------------------------------------------------------------------
(***************************************************************************)
(* list in packages/sui-stack-adapter: for any page size, number of pages  *)
(* and length of the group, what list has read is the beginning of the     *)
(* group, and what it returns is all that was posted before the call or a  *)
(* full window of it, however many messages arrive between its pages.      *)
(***************************************************************************)
THEOREM ListsArePrefixes == TransportSpec => []ListIsPrefix
<1>1. SessionInv => ListIsPrefix
  BY DEF SessionInv, Reads, ListIsPrefix
<1> QED
  BY <1>1, TransportStart, TransportStep, PTL DEF TransportSpec

-----------------------------------------------------------------------------
AnyStream == [at : {"closed", "polling", "handling"}, session : Sessions \cup {NoSession},
              after : Nat, batch : Seq(Nat), given : Seq(Nat), aborted : BOOLEAN]

\* The batch goes on where the loop is.
BatchFollows(k, n) == /\ k.after + Len(k.batch) <= n
                      /\ \A j \in 1 .. Len(k.batch) : k.batch[j] = k.after + j

\* The handler was given, of the messages of g passed so far, those of its session, topic.
GivenSoFar(given, after, topic, g) ==
    /\ \A i, j \in 1 .. Len(given) : i < j => given[i] < given[j]
    /\ \A i \in 1 .. Len(given) : given[i] \in 1 .. after /\ g[given[i]] = topic
    /\ \A m \in 1 .. after : g[m] = topic => \E i \in 1 .. Len(given) : given[i] = m

Streams(k, g) == /\ k \in AnyStream
                 /\ BatchFollows(k, Len(g))
                 /\ GivenSoFar(k.given, k.after, k.session, g)

StreamInv == /\ GroupOK
             /\ sub = [s \in Subscribers |-> sub[s]]
             /\ \A s \in Subscribers : Streams(sub[s], group)

\* A step of one loop, which leaves it as k.
LEMMA StreamSet ==
    ASSUME StreamInv, NEW s \in Subscribers, NEW k, Streams(k, group),
           group' = group, sub' = [sub EXCEPT ![s] = k]
    PROVE  StreamInv'
<1>1. GroupOK' /\ sub' = [q \in Subscribers |-> sub'[q]]
  BY DEF StreamInv, GroupOK
<1>2. \A q \in Subscribers : sub'[q] = IF q = s THEN k ELSE sub[q]
  BY DEF StreamInv
<1> QED
  BY <1>1, <1>2 DEF StreamInv

\* Only the place of the loop and the signal change.
LEMMA StreamPlace ==
    ASSUME NEW k, Streams(k, group), NEW at \in {"closed", "polling", "handling"},
           NEW aborted \in BOOLEAN
    PROVE  Streams([k EXCEPT !.at = at, !.aborted = aborted], group)
<1> DEFINE l == [k EXCEPT !.at = at, !.aborted = aborted]
<1>1. /\ l \in AnyStream /\ l.after = k.after /\ l.batch = k.batch /\ l.given = k.given
      /\ l.session = k.session
  BY DEF Streams, AnyStream
<1> HIDE DEF l
<1>2. BatchFollows(l, Len(group))
  BY <1>1 DEF Streams, BatchFollows
<1> QED
  BY <1>1, <1>2 DEF Streams, l

LEMMA FreshStream ==
    /\ NoStream \in AnyStream /\ NoStream.after = 0 /\ NoStream.batch = << >>
    /\ NoStream.given = << >>
BY DEF NoStream, AnyStream

LEMMA SubscribeKeeps ==
    ASSUME StreamInv, NEW s \in Subscribers, NEW topic \in Sessions, Subscribe(s, topic)
    PROVE  StreamInv'
<1> DEFINE k == [NoStream EXCEPT !.at = "polling", !.session = topic]
<1>1. group' = group /\ sub' = [sub EXCEPT ![s] = k]
  BY DEF Subscribe
<1>2. /\ k \in AnyStream /\ k.after = 0 /\ k.batch = << >> /\ k.given = << >>
      /\ k.session = topic
  BY FreshStream DEF AnyStream
<1> HIDE DEF k
<1>3. Len(group) \in Nat
  BY GroupShape DEF StreamInv
<1>4. BatchFollows(k, Len(group)) /\ GivenSoFar(k.given, k.after, k.session, group)
  BY <1>2, <1>3 DEF BatchFollows, GivenSoFar
<1>5. Streams(k, group)
  BY <1>2, <1>4 DEF Streams
<1> QED
  BY <1>1, <1>5, StreamSet

\* What the relayer serves to a loop that has passed n messages.
LEMMA BatchShape ==
    ASSUME GroupOK, NEW n \in Nat, n <= Len(group)
    PROVE  LET batch == FirstOf(FetchFrom(n), StreamLimit)
           IN  /\ batch \in Seq(Nat) /\ n + Len(batch) <= Len(group)
               /\ \A j \in 1 .. Len(batch) : batch[j] = n + j
<1> DEFINE rest == FetchFrom(n)
           left == Len(group) - n
           size == AtMost(left, StreamLimit)
<1>1. left \in Nat /\ StreamLimit \in Nat
  BY GroupShape, TransportAssumption
<1>2. size \in Nat /\ size <= left
  BY <1>1 DEF AtMost
<1>3. rest = [i \in 1 .. left |-> n + i]
  BY DEF FetchFrom
<1>4. rest \in Seq(Nat) /\ Len(rest) = left
  <2> HIDE DEF left, rest
  <2> QED
    BY <1>1, <1>3
<1>5. FirstOf(rest, StreamLimit) = SubSeq(rest, 1, size)
  BY <1>1, <1>4 DEF FirstOf, AtMost
<1>6. n + left = Len(group)
  BY GroupShape
<1> HIDE DEF rest, left, size
<1>7. SubSeq(rest, 1, size) \in Seq(Nat) /\ Len(SubSeq(rest, 1, size)) = size
  BY <1>1, <1>2, <1>4
<1>8. \A j \in 1 .. size : SubSeq(rest, 1, size)[j] = n + j
  <2>1. \A i \in 1 .. size : i \in 1 .. left
    BY <1>1, <1>2
  <2>2. \A i \in 1 .. size : SubSeq(rest, 1, size)[i] = rest[i]
    BY <1>1, <1>2, <1>4
  <2>3. \A i \in 1 .. left : rest[i] = n + i
    BY <1>3
  <2> QED
    BY <2>1, <2>2, <2>3
<1>9. n + size <= Len(group)
  BY <1>1, <1>2, <1>6
<1> QED
  BY <1>5, <1>7, <1>8, <1>9 DEF rest

LEMMA FetchBatchKeeps ==
    ASSUME StreamInv, NEW s \in Subscribers, FetchBatch(s)
    PROVE  StreamInv'
<1> DEFINE k     == sub[s]
           batch == FirstOf(FetchFrom(k.after), StreamLimit)
           l     == [k EXCEPT !.batch = batch]
<1>1. group' = group /\ sub' = [sub EXCEPT ![s] = l]
  BY DEF FetchBatch
<1>2. Streams(k, group) /\ GroupOK
  BY DEF StreamInv
<1> HIDE DEF k
<1>3. k.after \in Nat /\ Len(k.batch) \in Nat
  BY <1>2 DEF Streams, AnyStream
<1>4. k.after <= Len(group)
  BY <1>2, <1>3, GroupShape DEF Streams, BatchFollows
<1>5. /\ batch \in Seq(Nat) /\ k.after + Len(batch) <= Len(group)
      /\ \A j \in 1 .. Len(batch) : batch[j] = k.after + j
  BY <1>2, <1>3, <1>4, BatchShape
<1> HIDE DEF batch
<1>6. /\ l \in AnyStream /\ l.after = k.after /\ l.batch = batch /\ l.given = k.given
      /\ l.session = k.session
  BY <1>2, <1>5 DEF Streams, AnyStream
<1> HIDE DEF l
<1>7. BatchFollows(l, Len(group))
  BY <1>5, <1>6 DEF BatchFollows
<1>8. Streams(l, group)
  BY <1>2, <1>6, <1>7 DEF Streams
<1> QED
  BY <1>1, <1>8, StreamSet

\* The next message is passed: it is given exactly if it is of the session.
LEMMA OnePassed ==
    ASSUME NEW given \in Seq(Nat), NEW after \in Nat, NEW topic, NEW g,
           GivenSoFar(given, after, topic, g)
    PROVE  LET more == IF g[after + 1] = topic THEN Append(given, after + 1) ELSE given
           IN  more \in Seq(Nat) /\ GivenSoFar(more, after + 1, topic, g)
<1>1. Len(given) \in Nat
  OBVIOUS
<1>2. \A m \in 1 .. after + 1 : m \in 1 .. after \/ m = after + 1
  OBVIOUS
<1>3. \A m \in 1 .. after : m \in 1 .. after + 1
  OBVIOUS
<1>4. CASE g[after + 1] # topic
  <2>1. GivenSoFar(given, after + 1, topic, g)
    BY <1>2, <1>3, <1>4 DEF GivenSoFar
  <2> QED
    BY <1>4, <2>1
<1>5. CASE g[after + 1] = topic
  <2> DEFINE more == Append(given, after + 1)
  <2>1. /\ more \in Seq(Nat) /\ Len(more) = Len(given) + 1
        /\ more[Len(given) + 1] = after + 1
        /\ \A i \in 1 .. Len(given) : more[i] = given[i]
    OBVIOUS
  <2> HIDE DEF more
  <2>2. \A i \in 1 .. Len(more) : i \in 1 .. Len(given) \/ i = Len(given) + 1
    BY <1>1, <2>1
  <2>3. \A i \in 1 .. Len(given) : i \in 1 .. Len(more)
    BY <1>1, <2>1
  <2>4. \A i, j \in 1 .. Len(more) : i < j => more[i] < more[j]
    <3> SUFFICES ASSUME NEW i \in 1 .. Len(more), NEW j \in 1 .. Len(more), i < j
                 PROVE  more[i] < more[j]
      OBVIOUS
    <3>1. i \in 1 .. Len(given)
      BY <1>1, <2>1
    <3>2. more[i] = given[i] /\ given[i] \in 1 .. after
      BY <2>1, <3>1 DEF GivenSoFar
    <3>3. CASE j \in 1 .. Len(given)
      BY <2>1, <3>1, <3>3 DEF GivenSoFar
    <3>4. CASE j = Len(given) + 1
      BY <2>1, <3>2, <3>4
    <3> QED
      BY <2>2, <3>3, <3>4
  <2>5. \A i \in 1 .. Len(more) : more[i] \in 1 .. after + 1 /\ g[more[i]] = topic
    <3> SUFFICES ASSUME NEW i \in 1 .. Len(more)
                 PROVE  more[i] \in 1 .. after + 1 /\ g[more[i]] = topic
      OBVIOUS
    <3>1. CASE i \in 1 .. Len(given)
      BY <1>3, <2>1, <3>1 DEF GivenSoFar
    <3>2. CASE i = Len(given) + 1
      BY <1>5, <2>1, <3>2
    <3> QED
      BY <2>2, <3>1, <3>2
  <2>6. \A m \in 1 .. after + 1 : g[m] = topic => \E i \in 1 .. Len(more) : more[i] = m
    <3> SUFFICES ASSUME NEW m \in 1 .. after + 1, g[m] = topic
                 PROVE  \E i \in 1 .. Len(more) : more[i] = m
      OBVIOUS
    <3>1. CASE m \in 1 .. after
      <4>1. PICK i \in 1 .. Len(given) : given[i] = m
        BY <3>1 DEF GivenSoFar
      <4> QED
        BY <2>1, <2>3, <4>1
    <3>2. CASE m = after + 1
      <4>1. Len(given) + 1 \in 1 .. Len(more)
        BY <1>1, <2>1
      <4> QED
        BY <2>1, <3>2, <4>1
    <3> QED
      BY <1>2, <3>1, <3>2
  <2>7. GivenSoFar(more, after + 1, topic, g)
    BY <2>4, <2>5, <2>6 DEF GivenSoFar
  <2> QED
    BY <1>5, <2>1, <2>7 DEF more
<1> QED
  BY <1>4, <1>5

LEMMA YieldKeeps ==
    ASSUME StreamInv, NEW s \in Subscribers, Yield(s)
    PROVE  StreamInv'
<1> DEFINE k     == sub[s]
           i     == Head(k.batch)
           rest  == Tail(k.batch)
           ours  == IsEnvelopeOf(k.session, i)
           given == IF ours THEN Append(k.given, i) ELSE k.given
           at    == IF ours THEN "handling" ELSE "polling"
           l     == [k EXCEPT !.after = i, !.batch = rest, !.given = given, !.at = at]
<1>1. group' = group /\ sub' = [sub EXCEPT ![s] = l] /\ k.batch # << >>
  BY DEF Yield
<1>2. Streams(k, group) /\ GroupOK
  BY DEF StreamInv
<1> HIDE DEF k
<1>3. k.after \in Nat /\ k.batch \in Seq(Nat) /\ k.given \in Seq(Nat) /\ Len(k.batch) \in Nat
  BY <1>2 DEF Streams, AnyStream
<1>4. /\ i = k.after + 1 /\ rest \in Seq(Nat) /\ Len(rest) = Len(k.batch) - 1
      /\ Len(k.batch) >= 1
      /\ \A j \in 1 .. Len(rest) : rest[j] = k.batch[j + 1]
  <2>1. Len(k.batch) >= 1 /\ i = k.batch[1]
    BY <1>1, <1>3
  <2>2. 1 \in 1 .. Len(k.batch)
    BY <1>3, <2>1
  <2>3. i = k.after + 1
    BY <1>2, <2>1, <2>2 DEF Streams, BatchFollows
  <2> QED
    BY <1>1, <1>3, <2>1, <2>3
<1>5. \A j \in 1 .. Len(rest) : rest[j] = i + j
  <2> SUFFICES ASSUME NEW j \in 1 .. Len(rest) PROVE rest[j] = i + j
    OBVIOUS
  <2>1. j + 1 \in 1 .. Len(k.batch)
    BY <1>3, <1>4
  <2>2. k.batch[j + 1] = k.after + (j + 1)
    BY <1>2, <2>1 DEF Streams, BatchFollows
  <2>3. j \in Nat
    BY <1>4
  <2>4. PICK a \in Nat : a = k.after
    BY <1>3
  <2>5. a + (j + 1) = (a + 1) + j
    BY <2>3
  <2> QED
    BY <1>4, <2>2, <2>4, <2>5
<1>6. i + Len(rest) <= Len(group)
  <2>1. k.after + Len(k.batch) <= Len(group) /\ Len(group) \in Nat
    BY <1>2, GroupShape DEF Streams, BatchFollows
  <2> QED
    BY <1>3, <1>4, <2>1
<1>7. given \in Seq(Nat) /\ GivenSoFar(given, i, k.session, group)
  <2>1. GivenSoFar(k.given, k.after, k.session, group)
    BY <1>2 DEF Streams
  <2>2. LET more == IF group[k.after + 1] = k.session THEN Append(k.given, k.after + 1)
                    ELSE k.given
        IN  more \in Seq(Nat) /\ GivenSoFar(more, k.after + 1, k.session, group)
    BY <1>3, <2>1, OnePassed
  <2> QED
    BY <1>4, <2>2 DEF IsEnvelopeOf
<1>8. i \in Nat /\ at \in {"closed", "polling", "handling"}
  BY <1>3, <1>4
<1> HIDE DEF i, rest, given, at
<1>9. /\ l \in AnyStream /\ l.after = i /\ l.batch = rest /\ l.given = given
      /\ l.session = k.session
  BY <1>2, <1>4, <1>7, <1>8 DEF Streams, AnyStream
<1> HIDE DEF l
<1>10. BatchFollows(l, Len(group))
  BY <1>5, <1>6, <1>9 DEF BatchFollows
<1>11. Streams(l, group)
  BY <1>7, <1>9, <1>10 DEF Streams
<1> QED
  BY <1>1, <1>11, StreamSet

LEMMA PlaceKeeps ==
    ASSUME StreamInv, NEW s \in Subscribers,
           Handled(s) \/ StreamFails(s) \/ Unsubscribe(s)
    PROVE  StreamInv'
<1> DEFINE k == sub[s]
<1>1. group' = group
  BY DEF Handled, StreamFails, Unsubscribe
<1>2. Streams(k, group)
  BY DEF StreamInv
<1>3. PICK at \in {"closed", "polling", "handling"}, aborted \in BOOLEAN :
          sub' = [sub EXCEPT ![s] = [k EXCEPT !.at = at, !.aborted = aborted]]
  <2>1. /\ k.at \in {"closed", "polling", "handling"} /\ k.aborted \in BOOLEAN
        /\ k = [k EXCEPT !.at = k.at] /\ k = [k EXCEPT !.aborted = k.aborted]
    <3> HIDE DEF k
    <3> QED
      BY <1>2 DEF Streams, AnyStream
  <2>2. CASE Handled(s)
    <3>1. sub' = [sub EXCEPT ![s] = [k EXCEPT !.at = "polling"]]
      BY <2>2 DEF Handled
    <3>2. [k EXCEPT !.at = "polling"] = [k EXCEPT !.at = "polling", !.aborted = k.aborted]
      <4> HIDE DEF k
      <4> QED
        BY <1>2 DEF Streams, AnyStream
    <3> QED
      BY <2>1, <3>1, <3>2
  <2>3. CASE StreamFails(s)
    <3>1. sub' = [sub EXCEPT ![s] = [k EXCEPT !.at = "closed"]]
      BY <2>3 DEF StreamFails
    <3>2. [k EXCEPT !.at = "closed"] = [k EXCEPT !.at = "closed", !.aborted = k.aborted]
      <4> HIDE DEF k
      <4> QED
        BY <1>2 DEF Streams, AnyStream
    <3> QED
      BY <2>1, <3>1, <3>2
  <2>4. CASE Unsubscribe(s)
    <3>1. sub' = [sub EXCEPT ![s] = [k EXCEPT !.aborted = TRUE]]
      BY <2>4 DEF Unsubscribe
    <3>2. [k EXCEPT !.aborted = TRUE] = [k EXCEPT !.at = k.at, !.aborted = TRUE]
      <4> HIDE DEF k
      <4> QED
        BY <1>2 DEF Streams, AnyStream
    <3> QED
      BY <2>1, <3>1, <3>2
  <2> QED
    BY <2>2, <2>3, <2>4
<1>4. Streams([k EXCEPT !.at = at, !.aborted = aborted], group)
  BY <1>2, StreamPlace
<1> QED
  BY <1>1, <1>3, <1>4, StreamSet

\* Messages that arrive lie behind every loop.
LEMMA SendKeepsStreams ==
    ASSUME StreamInv, NEW text \in Sessions \cup {NoEnvelope}, Send(text)
    PROVE  StreamInv'
<1>1. group' = Append(group, text) /\ sub' = sub
  BY DEF Send
<1>2. /\ group' \in Seq(Sessions \cup {NoEnvelope})
      /\ Len(group) \in Nat /\ Len(group') = Len(group) + 1
      /\ \A i \in 1 .. Len(group) : group'[i] = group[i]
  BY <1>1 DEF StreamInv, GroupOK
<1>3. ASSUME NEW s \in Subscribers
      PROVE  Streams(sub[s], group')
  <2> DEFINE k == sub[s]
  <2>1. Streams(k, group)
    BY DEF StreamInv
  <2> HIDE DEF k
  <2>2. k.after \in Nat /\ Len(k.batch) \in Nat
    BY <2>1 DEF Streams, AnyStream
  <2>3. BatchFollows(k, Len(group'))
    BY <1>2, <2>1, <2>2 DEF Streams, BatchFollows
  <2>4. \A m \in 1 .. k.after : group'[m] = group[m]
    BY <1>2, <2>1, <2>2 DEF Streams, BatchFollows
  <2>5. GivenSoFar(k.given, k.after, k.session, group')
    BY <2>1, <2>4 DEF Streams, GivenSoFar
  <2>6. Streams(k, group')
    BY <2>1, <2>3, <2>5 DEF Streams
  <2> QED
    BY <2>6 DEF k
<1> QED
  BY <1>1, <1>2, <1>3 DEF StreamInv, GroupOK

LEMMA StreamStep == StreamInv /\ [TransportNext]_transportVars => StreamInv'
<1> SUFFICES ASSUME StreamInv, [TransportNext]_transportVars PROVE StreamInv'
  OBVIOUS
<1>1. CASE group' = group /\ sub' = sub
  BY <1>1 DEF StreamInv, GroupOK
<1>2. ASSUME NEW text \in Sessions \cup {NoEnvelope}, Send(text) PROVE StreamInv'
  BY <1>2, SendKeepsStreams
<1>3. CASE ReaderNext
  BY <1>1, <1>3 DEF ReaderNext, ReaderGoesOn, StartList, FetchPage, Return, FailList
<1>4. CASE SubscriberNext
  BY <1>4, SubscribeKeeps, FetchBatchKeeps, YieldKeeps, PlaceKeeps
     DEF SubscriberNext, StreamGoesOn
<1>5. CASE UNCHANGED transportVars
  BY <1>1, <1>5 DEF transportVars
<1> QED
  BY <1>2, <1>3, <1>4, <1>5 DEF TransportNext

LEMMA StreamStart == TransportInit => StreamInv
<1> SUFFICES ASSUME TransportInit PROVE StreamInv
  OBVIOUS
<1>1. group \in Seq(Sessions \cup {NoEnvelope}) /\ Len(group) = 0
  BY DEF TransportInit
<1>2. BatchFollows(NoStream, Len(group))
  BY <1>1, FreshStream DEF BatchFollows
<1>3. GivenSoFar(NoStream.given, NoStream.after, NoStream.session, group)
  BY FreshStream DEF GivenSoFar
<1>4. Streams(NoStream, group)
  BY <1>2, <1>3, FreshStream DEF Streams
<1> QED
  BY <1>1, <1>4 DEF TransportInit, StreamInv, GroupOK

-----------------------------------------------------------------------------
LEMMA StreamsInOrder == StreamInv => GivenInOrder
<1>1. ASSUME StreamInv, NEW s \in Subscribers
      PROVE  LET k == sub[s]
             IN  /\ \A i, j \in DOMAIN k.given : i < j => k.given[i] < k.given[j]
                 /\ ToSet(k.given) = {i \in 1 .. k.after : group[i] = k.session}
  <2> DEFINE k == sub[s]
  <2>1. Streams(k, group)
    BY <1>1 DEF StreamInv
  <2> HIDE DEF k
  <2>2. DOMAIN k.given = 1 .. Len(k.given)
    BY <2>1 DEF Streams, AnyStream
  <2>3. ToSet(k.given) = {i \in 1 .. k.after : group[i] = k.session}
    BY <2>1, <2>2 DEF ToSet, Streams, GivenSoFar
  <2>4. \A i, j \in DOMAIN k.given : i < j => k.given[i] < k.given[j]
    BY <2>1, <2>2 DEF Streams, GivenSoFar
  <2> QED
    BY <2>3, <2>4 DEF k
<1> QED
  BY <1>1 DEF GivenInOrder

(***************************************************************************)
(* subscribe in packages/sui-stack-adapter: for any batch size of the      *)
(* relayer and any group, a handler is given the envelopes of its session  *)
(* among the messages passed so far, all of them, once and in order,       *)
(* whatever arrives meanwhile and however slow it is.                      *)
(***************************************************************************)
THEOREM SubscribersMissNothing == TransportSpec => []GivenInOrder
<1> QED
  BY StreamsInOrder, StreamStart, StreamStep, PTL DEF TransportSpec

-----------------------------------------------------------------------------
\* What the types of the calls say beyond both invariants.
Limits == /\ Len(group) <= MaxMessages
          /\ \A r \in Readers : listing[r].wanted <= MaxMessages /\ listing[r].pages <= MaxPages

LEMMA SeqWithin ==
    ASSUME NEW s \in Seq(Nat), NEW S, \A i \in 1 .. Len(s) : s[i] \in S
    PROVE  s \in Seq(S)
<1>1. Len(s) \in Nat /\ s = [i \in 1 .. Len(s) |-> s[i]]
  OBVIOUS
<1>2. s \in [1 .. Len(s) -> S]
  BY <1>1
<1> QED
  BY <1>1, <1>2

LEMMA TransportTypesFollow == SessionInv /\ StreamInv /\ Limits => TransportTypeOK
<1> SUFFICES ASSUME SessionInv, StreamInv, Limits PROVE TransportTypeOK
  OBVIOUS
<1>1. /\ GroupOK /\ Len(group) \in Nat /\ Len(group) <= MaxMessages
      /\ MaxMessages \in Nat /\ MaxPages \in Nat
  BY GroupShape, TransportAssumption DEF SessionInv, Limits
<1>2. ASSUME NEW r \in Readers PROVE listing[r] \in Listing
  <2> DEFINE l == listing[r]
  <2>1. Reads(l, Len(group)) /\ l.wanted <= MaxMessages /\ l.pages <= MaxPages
    BY DEF SessionInv, Limits
  <2> HIDE DEF l
  <2>2. /\ l \in AnyListing /\ l.posted \in 0 .. MaxMessages
        /\ l.wanted \in 0 .. MaxMessages /\ l.pages \in 0 .. MaxPages
    BY <1>1, <2>1 DEF Reads, AnyListing
  <2>3. l.got \in Seq(Orders)
    <3>1. Len(l.got) \in Nat /\ Len(l.got) <= MaxMessages /\ l.got = UpTo(Len(l.got))
      BY <1>1, <2>1, <2>2 DEF Reads, AnyListing
    <3>2. UpTo(Len(l.got)) \in [1 .. Len(l.got) -> Orders]
      BY <1>1, <3>1 DEF UpTo, Orders
    <3> QED
      BY <3>1, <3>2
  <2> QED
    BY <2>2, <2>3 DEF AnyListing, Listing, l
<1>3. ASSUME NEW s \in Subscribers PROVE sub[s] \in Stream
  <2> DEFINE k == sub[s]
  <2>1. Streams(k, group)
    BY DEF StreamInv
  <2> HIDE DEF k
  <2>2. k \in AnyStream /\ k.after \in Nat /\ k.batch \in Seq(Nat) /\ k.given \in Seq(Nat)
    BY <2>1 DEF Streams, AnyStream
  <2>3. k.after + Len(k.batch) <= MaxMessages
    BY <1>1, <2>1, <2>2 DEF Streams, BatchFollows
  <2>4. k.after \in 0 .. MaxMessages
    BY <1>1, <2>2, <2>3
  <2>5. k.batch \in Seq(Orders)
    <3>1. \A j \in 1 .. Len(k.batch) : k.batch[j] \in Orders
      BY <1>1, <2>1, <2>2, <2>3 DEF Streams, BatchFollows, Orders
    <3> QED
      BY <2>2, <3>1, SeqWithin
  <2>6. k.given \in Seq(Orders)
    <3>1. \A j \in 1 .. Len(k.given) : k.given[j] \in Orders
      BY <1>1, <2>1, <2>2, <2>4 DEF Streams, GivenSoFar, Orders
    <3> QED
      BY <2>2, <3>1, SeqWithin
  <2> QED
    BY <2>2, <2>4, <2>5, <2>6 DEF AnyStream, Stream, k
<1> QED
  BY <1>1, <1>2, <1>3 DEF TransportTypeOK, SessionInv, StreamInv, GroupOK

\* A step of one reader.
LEMMA LimitsOfReader ==
    ASSUME SessionInv, Limits, NEW r \in Readers, NEW l,
           l.wanted <= MaxMessages /\ l.pages <= MaxPages,
           group' = group, listing' = [listing EXCEPT ![r] = l]
    PROVE  Limits'
<1>1. \A q \in Readers : listing'[q] = IF q = r THEN l ELSE listing[q]
  BY DEF SessionInv
<1> QED
  BY <1>1 DEF Limits

LEMMA LimitsKept == SessionInv /\ Limits /\ [TransportNext]_transportVars => Limits'
<1> SUFFICES ASSUME SessionInv, Limits, [TransportNext]_transportVars PROVE Limits'
  OBVIOUS
<1>1. /\ MaxMessages \in Nat /\ MaxPages \in Nat \ {0} /\ Len(group) \in Nat
      /\ group \in Seq(Sessions \cup {NoEnvelope})
  BY GroupShape, TransportAssumption DEF SessionInv, GroupOK
<1>2. NoListing.wanted = 0 /\ NoListing.pages = 0 /\ NoListing \in AnyListing
  BY IdleListing DEF NoListing
<1>3. CASE group' = group /\ listing' = listing
  BY <1>3 DEF Limits
<1>4. ASSUME NEW text \in Sessions \cup {NoEnvelope}, Send(text) PROVE Limits'
  <2>1. Len(group) < MaxMessages /\ group' = Append(group, text) /\ listing' = listing
    BY <1>4 DEF Send
  <2>2. Len(group') = Len(group) + 1
    BY <1>1, <2>1
  <2> QED
    BY <1>1, <2>1, <2>2 DEF Limits
<1>5. ASSUME NEW r \in Readers, NEW topic \in Sessions, NEW wanted \in {0} \cup Orders,
             StartList(r, topic, wanted)
      PROVE  Limits'
  <2> DEFINE l == [NoListing EXCEPT !.at = "fetching", !.session = topic,
                                    !.wanted = wanted, !.posted = Len(group)]
  <2>1. group' = group /\ listing' = [listing EXCEPT ![r] = l]
    BY <1>5 DEF StartList
  <2>2. l.wanted = wanted /\ l.pages = 0
    BY DEF NoListing
  <2>3. l.wanted <= MaxMessages /\ l.pages <= MaxPages
    BY <1>1, <2>2 DEF Orders
  <2> HIDE DEF l
  <2> QED
    BY <2>1, <2>3, LimitsOfReader
<1>6. ASSUME NEW r \in Readers, FetchPage(r) PROVE Limits'
  <2> DEFINE k    == listing[r]
             page == FirstOf(FetchFrom(After(k)), PageSize)
             more == HasNext(After(k), PageSize) /\ page # << >> /\ k.pages + 1 < MaxPages
             goes == IF more THEN "fetching" ELSE "listed"
             got  == k.got \o page
             read == k.pages + 1
             l    == [k EXCEPT !.got = got, !.pages = read, !.at = goes]
  <2>1. /\ k.at = "fetching" /\ group' = group
        /\ listing' = [listing EXCEPT ![r].got = @ \o page, ![r].pages = @ + 1, ![r].at = goes]
    BY <1>6 DEF FetchPage
  <2>2. /\ k \in AnyListing /\ k.pages < MaxPages /\ k.wanted <= MaxMessages
        /\ listing = [q \in Readers |-> listing[q]]
    BY <2>1 DEF SessionInv, Reads, Limits
  <2>3. k.pages + 1 <= MaxPages
    BY <1>1, <2>2 DEF AnyListing
  <2>4. listing' = [listing EXCEPT ![r] = l]
    BY <2>1, <2>2
  <2> HIDE DEF got, goes, read, k
  <2>5. l.wanted = k.wanted /\ l.pages = read
    BY <2>2 DEF AnyListing
  <2>6. l.wanted <= MaxMessages /\ l.pages <= MaxPages
    BY <2>2, <2>3, <2>5 DEF read
  <2> HIDE DEF l
  <2> QED
    BY <2>1, <2>4, <2>6, LimitsOfReader
<1>7. ASSUME NEW r \in Readers, Return(r) PROVE Limits'
  <2> DEFINE k == listing[r]
             l == IF k.wanted = 0 THEN NoListing
                  ELSE IF Found(k) THEN [NoListing EXCEPT !.at = "found"]
                  ELSE [NoListing EXCEPT !.at = "fetching", !.session = k.session,
                                         !.wanted = k.wanted, !.posted = Len(group)]
  <2>1. group' = group /\ listing' = [listing EXCEPT ![r] = l]
    BY <1>7 DEF Return
  <2>2. k.wanted <= MaxMessages
    BY DEF Limits
  <2> HIDE DEF k
  <2>3. l.wanted \in {0, k.wanted} /\ l.pages = 0
    BY DEF NoListing
  <2>4. l.wanted <= MaxMessages /\ l.pages <= MaxPages
    BY <1>1, <2>2, <2>3
  <2> HIDE DEF l
  <2> QED
    BY <2>1, <2>4, LimitsOfReader
<1>8. ASSUME NEW r \in Readers, FailList(r) PROVE Limits'
  <2> DEFINE l == [NoListing EXCEPT !.at = "failed"]
  <2>1. group' = group /\ listing' = [listing EXCEPT ![r] = l]
    BY <1>8 DEF FailList
  <2>2. l.wanted = 0 /\ l.pages = 0
    BY DEF NoListing
  <2>3. l.wanted <= MaxMessages /\ l.pages <= MaxPages
    BY <1>1, <2>2
  <2> HIDE DEF l
  <2> QED
    BY <2>1, <2>3, LimitsOfReader
<1>9. CASE ReaderNext
  BY <1>5, <1>6, <1>7, <1>8, <1>9 DEF ReaderNext, ReaderGoesOn
<1>10. CASE SubscriberNext
  BY <1>3, <1>10 DEF SubscriberNext, StreamGoesOn, Subscribe, FetchBatch, Yield, Handled,
                     StreamFails, Unsubscribe
<1>11. CASE UNCHANGED transportVars
  BY <1>3, <1>11 DEF transportVars
<1> QED
  BY <1>4, <1>9, <1>10, <1>11 DEF TransportNext

LEMMA LimitsStart == TransportInit => Limits
  BY TransportAssumption DEF TransportInit, Limits, NoListing

(***************************************************************************)
(* list, waitForMessage and subscribe: whatever a call has fetched, passed *)
(* on or waits for are messages of the group, and no call of list reads    *)
(* more than maxPages pages.                                               *)
(***************************************************************************)
THEOREM TransportTypeCorrect == TransportSpec => []TransportTypeOK
<1>1. TransportInit => SessionInv /\ StreamInv /\ Limits
  BY TransportStart, StreamStart, LimitsStart
<1>2. /\ SessionInv /\ StreamInv /\ Limits
      /\ [TransportNext]_transportVars
      => (SessionInv /\ StreamInv /\ Limits)'
  BY TransportStep, StreamStep, LimitsKept
<1> QED
  BY <1>1, <1>2, TransportTypesFollow, PTL DEF TransportSpec

-----------------------------------------------------------------------------
(***************************************************************************)
(* MemoryTransport, for any number of clients, events and handlers.  An    *)
(* event that is being sent has been given once to each handler up to the  *)
(* one awaited, unless that one left or came too late, and to no handler   *)
(* behind it; what happens to other events meanwhile does not matter.      *)
(***************************************************************************)
Occurrences(k, e) == {i \in DOMAIN handlers[k].given : handlers[k].given[i] = e}

\* Handler k was there when e was sent, and has stayed.
Entitled(k, e) == handlers[k].subscribed /\ handlers[k].joined < e

Once(k, e) == \E i : Occurrences(k, e) = {i}

AnyHandler == [given : Seq(Nat), subscribed : BOOLEAN, joined : Nat, missed : SUBSET Nat]
AnySending == [event : Nat, handler : Nat]

StoreOK == /\ stored \in Seq(Senders)
         /\ handlers \in Seq(AnyHandler)
         /\ sending \in [Senders -> AnySending]

\* A send under way is of a stored event, at a handler there is.
SendsAreReal ==
    \A c \in Senders : sending[c] # NotSending =>
        sending[c].event \in DOMAIN stored /\ sending[c].handler \in DOMAIN handlers

\* No two clients send the same event.
EventsOfSenders ==
    \A c, d \in Senders : sending[c] # NotSending /\ sending[c].event = sending[d].event => c = d

\* What is given has been stored, and so has what is missed.
GivenIsStored ==
    \A k \in DOMAIN handlers :
        /\ \A i \in DOMAIN handlers[k].given : handlers[k].given[i] \in DOMAIN stored
        /\ handlers[k].missed \subseteq DOMAIN stored

\* How far a send has got.
Progress ==
    \A c \in Senders : sending[c] # NotSending =>
        \A k \in DOMAIN handlers :
            /\ k > sending[c].handler => Occurrences(k, sending[c].event) = {}
            /\ k <= sending[c].handler /\ Entitled(k, sending[c].event)
                   => Once(k, sending[c].event)

Over(e) == \A c \in Senders : sending[c].event # e

OverIsOnce ==
    \A k \in DOMAIN handlers : \A e \in DOMAIN stored :
        Entitled(k, e) /\ e \notin handlers[k].missed /\ Over(e) => Once(k, e)

MemoryInv == StoreOK /\ SendsAreReal /\ EventsOfSenders /\ GivenIsStored /\ Progress /\ OverIsOnce
             /\ FirstSeesStoredOrder

-----------------------------------------------------------------------------
\* A set of numbers below a bound has a least one.
LEMMA HasLeast ==
    ASSUME NEW S, S \subseteq Nat, S # {}, IsFiniteSet(S)
    PROVE  \E x \in S : \A y \in S : x <= y
<1> DEFINE Below(x) == {y \in S : y < x}
           T == {Below(x) : x \in S}
           F == FiniteSubsetsOf(S)
<1>1. IsWellFoundedOn(StrictSubsetOrdering(S), F)
  BY FS_StrictSubsetOrderingWellFounded
<1>2. T \subseteq F /\ T # {}
  <2>1. F = SUBSET S
    BY FS_FiniteSubsetsOfFinite
  <2> HIDE DEF F
  <2> QED
    BY <2>1
<1>3. PICK U \in T : \A V \in T : ~(<<V, U>> \in StrictSubsetOrdering(S))
  <2> HIDE DEF T, F
  <2> QED
    BY <1>1, <1>2, WFMin
<1>4. PICK x \in S : U = Below(x)
  BY <1>3
<1>5. \A y \in S : ~(y < x)
  <2> SUFFICES ASSUME NEW y \in S, y < x PROVE FALSE
    OBVIOUS
  <2>1. \A z \in S : z < y => z < x
    OBVIOUS
  <2>2. y \in Below(x) /\ y \notin Below(y)
    OBVIOUS
  <2>3. Below(y) \subseteq Below(x) /\ Below(y) # Below(x)
    BY <2>1, <2>2
  <2>4. Below(y) \in T /\ Below(x) \in SUBSET S /\ Below(y) \in SUBSET S
    OBVIOUS
  <2>5. <<Below(y), Below(x)>> \in StrictSubsetOrdering(S)
    BY <2>3, <2>4 DEF StrictSubsetOrdering
  <2> QED
    BY <1>3, <1>4, <2>4, <2>5
<1> QED
  BY <1>5

LEMMA HandlerShape ==
    ASSUME StoreOK, NEW k \in DOMAIN handlers
    PROVE  /\ handlers[k] \in AnyHandler
           /\ handlers[k].given \in Seq(Nat) /\ handlers[k].subscribed \in BOOLEAN
           /\ handlers[k].joined \in Nat /\ handlers[k].missed \subseteq Nat
<1>1. handlers[k] \in AnyHandler
  BY DEF StoreOK
<1> QED
  BY <1>1 DEF AnyHandler

\* The next handler is subscribed, and none between is.
LEMMA NextHandlerFact ==
    ASSUME NEW n \in Nat, StoreOK
    PROVE  /\ NextHandler(n) = 0 => \A k \in DOMAIN handlers : k > n => ~handlers[k].subscribed
           /\ NextHandler(n) # 0 =>
                 /\ NextHandler(n) \in DOMAIN handlers /\ NextHandler(n) > n
                 /\ \A k \in DOMAIN handlers :
                       n < k /\ k < NextHandler(n) => ~handlers[k].subscribed
<1> DEFINE ahead == {k \in DOMAIN handlers : k > n /\ handlers[k].subscribed}
<1>1. CASE ahead = {}
  <2>1. NextHandler(n) = 0
    BY <1>1 DEF NextHandler
  <2> QED
    BY <1>1, <2>1
<1>2. CASE ahead # {}
  <2>1. /\ DOMAIN handlers = 1 .. Len(handlers) /\ Len(handlers) \in Nat
        /\ ahead \subseteq 1 .. Len(handlers)
    BY DEF StoreOK
  <2>2. ahead \subseteq Nat /\ IsFiniteSet(ahead)
    <3>1. IsFiniteSet(1 .. Len(handlers))
      BY <2>1, FS_Interval
    <3> HIDE DEF ahead
    <3>2. IsFiniteSet(ahead)
      BY <2>1, <3>1, FS_Subset
    <3>3. 1 .. Len(handlers) \subseteq Nat
      BY <2>1
    <3> QED
      BY <2>1, <3>2, <3>3
  <2>3. \E k \in ahead : \A j \in ahead : k <= j
    <3> HIDE DEF ahead
    <3> QED
      BY <1>2, <2>2, HasLeast
  <2>4. NextHandler(n) = CHOOSE k \in ahead : \A j \in ahead : k <= j
    BY <1>2 DEF NextHandler
  <2>5. NextHandler(n) \in ahead /\ \A j \in ahead : NextHandler(n) <= j
    <3> HIDE DEF ahead
    <3> QED
      BY <2>3, <2>4
  <2>6. NextHandler(n) # 0
    BY <2>1, <2>5
  <2>7. ASSUME NEW k \in DOMAIN handlers, n < k, k < NextHandler(n)
        PROVE  ~handlers[k].subscribed
    BY <2>1, <2>5, <2>7
  <2> QED
    BY <2>5, <2>6, <2>7
<1> QED
  BY <1>1, <1>2

-----------------------------------------------------------------------------
(***************************************************************************)
(* What a step does to the handlers.                                       *)
(***************************************************************************)
\* Everything about a handler but what it was given, and what it missed.
SameHandler(k) == /\ handlers'[k].subscribed = handlers[k].subscribed
                  /\ handlers'[k].joined = handlers[k].joined

Giving(m, e) ==
    /\ DOMAIN handlers' = DOMAIN handlers
    /\ \A k \in DOMAIN handlers :
          /\ SameHandler(k) /\ handlers'[k].missed = handlers[k].missed
          /\ handlers'[k].given = IF k = m THEN Append(handlers[k].given, e)
                                  ELSE handlers[k].given

LEMMA Appended ==
    ASSUME NEW s \in Seq(Nat), NEW e
    PROVE  /\ DOMAIN s = 1 .. Len(s) /\ Len(s) \in Nat
           /\ DOMAIN Append(s, e) = DOMAIN s \cup {Len(s) + 1}
           /\ Append(s, e)[Len(s) + 1] = e
           /\ \A i \in DOMAIN s : Append(s, e)[i] = s[i]
OBVIOUS

LEMMA GivingOccurs ==
    ASSUME StoreOK, NEW m, NEW e, Giving(m, e), NEW k \in DOMAIN handlers, NEW d
    PROVE  Occurrences(k, d)' = IF k = m /\ d = e
                                THEN Occurrences(k, d) \cup {Len(handlers[k].given) + 1}
                                ELSE Occurrences(k, d)
<1>1. handlers[k].given \in Seq(Nat)
  BY HandlerShape
<1>2. CASE k = m
  <2>1. handlers'[k].given = Append(handlers[k].given, e)
    BY <1>2 DEF Giving
  <2> DEFINE s == handlers[k].given
             t == handlers'[k].given
  <2>2. /\ DOMAIN t = DOMAIN s \cup {Len(s) + 1} /\ Len(s) + 1 \notin DOMAIN s
        /\ t[Len(s) + 1] = e /\ \A i \in DOMAIN s : t[i] = s[i]
    BY <1>1, <2>1
  <2>3. /\ Occurrences(k, d)' = {i \in DOMAIN t : t[i] = d}
        /\ Occurrences(k, d) = {i \in DOMAIN s : s[i] = d}
    BY DEF Occurrences
  <2> HIDE DEF s, t
  <2>4. Occurrences(k, d)' = IF d = e THEN Occurrences(k, d) \cup {Len(s) + 1}
                             ELSE Occurrences(k, d)
    BY <2>2, <2>3
  <2> QED
    BY <1>2, <2>4 DEF s
<1>3. CASE k # m
  <2>1. handlers'[k].given = handlers[k].given
    BY <1>3 DEF Giving
  <2> QED
    BY <1>3, <2>1 DEF Occurrences
<1> QED
  BY <1>2, <1>3

\* The send of c is over: nobody subscribed is left behind position n.
Ends(c, n) == /\ handlers' = handlers
              /\ sending'[c] = NotSending
              /\ \A k \in DOMAIN handlers : k > n => ~handlers[k].subscribed

\* The send of c goes on to handler m, past those who left.
Carries(c, e, n, m) ==
    /\ m \in DOMAIN handlers /\ m > n
    /\ \A k \in DOMAIN handlers : n < k /\ k < m => ~handlers[k].subscribed
    /\ sending'[c] = [event |-> e, handler |-> m]
    /\ Giving(m, e)

LEMMA VisitCases ==
    ASSUME StoreOK, NEW c \in Senders, NEW e \in Nat, NEW n \in Nat, Visit(c, e, n)
    PROVE  /\ \A d \in Senders : d # c => sending'[d] = sending[d]
           /\ Ends(c, n) \/ \E m \in Nat : Carries(c, e, n, m)
<1> DEFINE m == NextHandler(n)
<1>1. \A d \in Senders : d # c => sending'[d] = sending[d]
  BY DEF Visit, StoreOK
<1>2. CASE m = 0
  <2>1. handlers' = handlers /\ sending'[c] = NotSending
    BY <1>2 DEF Visit, StoreOK
  <2>2. \A k \in DOMAIN handlers : k > n => ~handlers[k].subscribed
    BY <1>2, NextHandlerFact
  <2> QED
    BY <1>1, <2>1, <2>2 DEF Ends
<1>3. CASE m # 0
  <2>1. /\ m \in DOMAIN handlers /\ m > n
        /\ \A k \in DOMAIN handlers : n < k /\ k < m => ~handlers[k].subscribed
    BY <1>3, NextHandlerFact
  <2>2. sending'[c] = [event |-> e, handler |-> m]
    BY <1>3 DEF Visit, StoreOK
  <2>3. handlers' = [handlers EXCEPT ![m].given = Append(@, e)]
    BY <1>3 DEF Visit
  <2> HIDE DEF m
  <2>4. DOMAIN handlers' = DOMAIN handlers
    BY <2>3
  <2>5. ASSUME NEW k \in DOMAIN handlers
        PROVE  /\ SameHandler(k) /\ handlers'[k].missed = handlers[k].missed
               /\ handlers'[k].given = IF k = m THEN Append(handlers[k].given, e)
                                       ELSE handlers[k].given
    <3>1. handlers[k] \in AnyHandler
      BY HandlerShape
    <3>2. handlers'[k] = IF k = m THEN [handlers[k] EXCEPT !.given = Append(@, e)]
                         ELSE handlers[k]
      BY <2>3
    <3> QED
      BY <3>1, <3>2 DEF AnyHandler, SameHandler
  <2>6. Giving(m, e)
    BY <2>4, <2>5 DEF Giving
  <2>7. m \in Nat
    BY <2>1 DEF StoreOK
  <2> QED
    BY <1>1, <2>1, <2>2, <2>6, <2>7 DEF Carries
<1> QED
  BY <1>2, <1>3

-----------------------------------------------------------------------------
(***************************************************************************)
(* An iteration of c that is about to pass position n with event e.        *)
(***************************************************************************)
Ready(c, e, n) ==
    /\ e # 0
    /\ \A d \in Senders : d # c => sending[d].event # e
    /\ sending[c] = NotSending \/ sending[c].event = e
    /\ \A k \in DOMAIN handlers : /\ k > n => Occurrences(k, e) = {}
                                  /\ k <= n /\ Entitled(k, e) => Once(k, e)
    /\ n = 0 => \A k \in DOMAIN handlers :
                    \A i \in DOMAIN handlers[k].given : handlers[k].given[i] < e

\* The event is stored, and no other is stored with it.
Storing(e) == /\ e \in (DOMAIN stored)'
              /\ DOMAIN stored \subseteq (DOMAIN stored)'
              /\ (DOMAIN stored)' \subseteq DOMAIN stored \cup {e}

LEMMA Untouched ==
    ASSUME handlers' = handlers, NEW k, NEW b
    PROVE  /\ Occurrences(k, b)' = Occurrences(k, b)
           /\ Once(k, b)' <=> Once(k, b)
           /\ Entitled(k, b)' <=> Entitled(k, b)
BY DEF Occurrences, Once, Entitled

LEMMA ProgressAfterVisit ==
    ASSUME MemoryInv, NEW c \in Senders, NEW e \in Nat, NEW n \in Nat,
           Ready(c, e, n), Visit(c, e, n)
    PROVE  Progress'
<1>1. Ends(c, n) \/ \E m \in Nat : Carries(c, e, n, m)
  BY VisitCases DEF MemoryInv
<1>2. \A d \in Senders : d # c => sending'[d] = sending[d]
  BY VisitCases DEF MemoryInv
<1>3. CASE Ends(c, n)
  <2> USE <1>3 DEF Ends
  <2> SUFFICES ASSUME NEW d \in Senders, sending'[d] # NotSending, NEW k \in DOMAIN handlers
               PROVE  /\ k > sending'[d].handler => Occurrences(k, sending[d].event)' = {}
                      /\ k <= sending'[d].handler /\ Entitled(k, sending[d].event)'
                             => Once(k, sending[d].event)'
    BY <1>3 DEF Progress
  <2>1. sending'[d] = sending[d] /\ sending[d] # NotSending
    BY <1>2, <1>3
  <2>2. /\ k > sending[d].handler => Occurrences(k, sending[d].event) = {}
        /\ k <= sending[d].handler /\ Entitled(k, sending[d].event)
               => Once(k, sending[d].event)
    BY <2>1 DEF MemoryInv, Progress
  <2>3. \A b : /\ Occurrences(k, b)' = Occurrences(k, b)
               /\ Once(k, b)' <=> Once(k, b)
               /\ Entitled(k, b)' <=> Entitled(k, b)
    BY <1>3, Untouched
  <2> QED
    BY <2>1, <2>2, <2>3
<1>4. ASSUME NEW m \in Nat, Carries(c, e, n, m)
      PROVE  Progress'
  <2> USE <1>4 DEF Carries
  <2>1. DOMAIN handlers = 1 .. Len(handlers) /\ Len(handlers) \in Nat
    BY DEF MemoryInv, StoreOK
  <2>2. DOMAIN handlers' = DOMAIN handlers
    BY <1>4 DEF Giving
  <2> SUFFICES ASSUME NEW d \in Senders, sending'[d] # NotSending, NEW k \in DOMAIN handlers
               PROVE  /\ k > sending'[d].handler => Occurrences(k, sending[d].event)' = {}
                      /\ k <= sending'[d].handler /\ Entitled(k, sending[d].event)'
                             => Once(k, sending[d].event)'
    BY <2>2 DEF Progress
  <2>3. \A b : Occurrences(k, b)' = IF k = m /\ b = e
                                   THEN Occurrences(k, b) \cup {Len(handlers[k].given) + 1}
                                   ELSE Occurrences(k, b)
    BY <1>4, GivingOccurs DEF MemoryInv
  <2>4. \A b : Entitled(k, b)' <=> Entitled(k, b)
    BY <1>4 DEF Giving, SameHandler, Entitled
  <2>5. CASE d = c
    <3>1. sending'[d].event = e /\ sending'[d].handler = m
      BY <1>4, <2>5
    <3>2. k > n => Occurrences(k, e) = {}
      BY DEF Ready
    <3>3. ASSUME k > m PROVE Occurrences(k, e)' = {}
      BY <1>4, <2>1, <2>3, <3>2, <3>3
    <3>4. ASSUME k <= m, Entitled(k, e) PROVE Once(k, e)'
      <4>1. CASE k = m
        <5>1. Occurrences(k, e) = {}
          BY <1>4, <3>2, <4>1
        <5>2. Occurrences(k, e)' = {Len(handlers[k].given) + 1}
          BY <2>3, <4>1, <5>1
        <5> QED
          BY <5>2 DEF Once
      <4>2. CASE k < m
        <5>1. ~(n < k)
          BY <1>4, <3>4, <4>2 DEF Entitled
        <5>2. k <= n
          BY <2>1, <5>1
        <5>3. Once(k, e) /\ Occurrences(k, e)' = Occurrences(k, e)
          BY <2>1, <2>3, <3>4, <4>2, <5>2 DEF Ready
        <5> QED
          BY <5>3 DEF Once
      <4> QED
        BY <1>4, <2>1, <3>4, <4>1, <4>2
    <3> QED
      BY <2>4, <3>1, <3>3, <3>4
  <2>6. CASE d # c
    <3>1. sending'[d] = sending[d] /\ sending[d].event # e
      BY <1>2, <2>6 DEF Ready
    <3>2. Occurrences(k, sending[d].event)' = Occurrences(k, sending[d].event)
      BY <2>3, <3>1
    <3>3. Once(k, sending[d].event)' <=> Once(k, sending[d].event)
      BY <3>1, <3>2 DEF Once
    <3>4. sending[d] # NotSending
      BY <3>1
    <3>5. /\ k > sending[d].handler => Occurrences(k, sending[d].event) = {}
          /\ k <= sending[d].handler /\ Entitled(k, sending[d].event)
                 => Once(k, sending[d].event)
      BY <3>4 DEF MemoryInv, Progress
    <3>6. Entitled(k, sending[d].event)' <=> Entitled(k, sending[d].event)
      BY <2>4, <3>1
    <3> QED
      BY <3>1, <3>2, <3>3, <3>5, <3>6
  <2> QED
    BY <2>5, <2>6
<1> QED
  BY <1>1, <1>3, <1>4

LEMMA OverAfterVisit ==
    ASSUME MemoryInv, NEW c \in Senders, NEW e \in Nat, NEW n \in Nat,
           Ready(c, e, n), Visit(c, e, n), Storing(e)
    PROVE  OverIsOnce'
<1>1. \A d \in Senders : d # c => sending'[d] = sending[d]
  BY VisitCases DEF MemoryInv
<1>2. DOMAIN stored = 1 .. Len(stored) /\ Len(stored) \in Nat
  BY DEF MemoryInv, StoreOK
<1>3. DOMAIN handlers' = DOMAIN handlers
  BY VisitCases DEF MemoryInv, Ends, Carries, Giving
<1> SUFFICES ASSUME NEW k \in DOMAIN handlers, NEW b \in DOMAIN stored',
                    Entitled(k, b)', b \notin handlers'[k].missed, Over(b)'
             PROVE  Once(k, b)'
  BY <1>3 DEF OverIsOnce
<1>4. b # e => b \in DOMAIN stored
  BY DEF Storing
<1>5. b # e => Over(b)
  <2> SUFFICES ASSUME b # e, NEW d \in Senders PROVE sending[d].event # b
    BY DEF Over
  <2>1. CASE d = c
    <3>1. sending[c] = NotSending => sending[c].event = 0
      BY DEF NotSending
    <3> QED
      BY <1>2, <1>4, <2>1, <3>1 DEF Ready
  <2>2. CASE d # c
    BY <1>1, <2>2 DEF Over
  <2> QED
    BY <2>1, <2>2
<1>6. Entitled(k, b) /\ b # e /\ b \notin handlers[k].missed => Once(k, b)
  BY <1>4, <1>5 DEF MemoryInv, OverIsOnce
<1>7. CASE Ends(c, n)
  <2>1. handlers' = handlers /\ Entitled(k, b) /\ b \notin handlers[k].missed
    BY <1>7, Untouched DEF Ends
  <2>2. CASE b = e
    <3>1. ~(k > n)
      BY <1>7, <2>1 DEF Ends, Entitled
    <3>2. k <= n
      BY <3>1 DEF MemoryInv, StoreOK
    <3> QED
      BY <2>1, <2>2, <3>2, Untouched DEF Ready
  <2> QED
    BY <1>6, <2>1, <2>2, Untouched
<1>8. ASSUME NEW m \in Nat, Carries(c, e, n, m)
      PROVE  Once(k, b)'
  <2>1. sending'[c].event = e
    BY <1>8 DEF Carries
  <2>2. b # e
    BY <2>1 DEF Over
  <2>3. Occurrences(k, b)' = Occurrences(k, b)
    BY <1>8, <2>2, GivingOccurs DEF Carries, MemoryInv
  <2>4. Entitled(k, b) /\ b \notin handlers[k].missed
    BY <1>8 DEF Carries, Giving, SameHandler, Entitled
  <2> QED
    BY <1>6, <2>2, <2>3, <2>4 DEF Once
<1> QED
  BY <1>7, <1>8, VisitCases DEF MemoryInv

\* Only a new event is given to the first handler.
LEMMA GivenAfterVisit ==
    ASSUME MemoryInv, NEW c \in Senders, NEW e \in Nat, NEW n \in Nat,
           Ready(c, e, n), Visit(c, e, n), Storing(e)
    PROVE  GivenIsStored' /\ FirstSeesStoredOrder'
<1>1. CASE Ends(c, n)
  <2>1. handlers' = handlers
    BY <1>1 DEF Ends
  <2> QED
    BY <2>1 DEF MemoryInv, GivenIsStored, FirstSeesStoredOrder, Storing
<1>2. ASSUME NEW m \in Nat, Carries(c, e, n, m)
      PROVE  GivenIsStored' /\ FirstSeesStoredOrder'
  <2>1. /\ DOMAIN handlers' = DOMAIN handlers
        /\ DOMAIN handlers = 1 .. Len(handlers) /\ Len(handlers) \in Nat
    BY <1>2 DEF Carries, Giving, MemoryInv, StoreOK
  <2>2. ASSUME NEW k \in DOMAIN handlers
        PROVE  /\ handlers[k].given \in Seq(Nat)
               /\ handlers'[k].missed = handlers[k].missed
               /\ handlers'[k].given = IF k = m THEN Append(handlers[k].given, e)
                                       ELSE handlers[k].given
    BY <1>2, <2>2, HandlerShape DEF Carries, Giving, MemoryInv
  <2>3. GivenIsStored'
    <3> SUFFICES ASSUME NEW k \in DOMAIN handlers
                 PROVE  /\ \A i \in DOMAIN handlers'[k].given :
                              handlers'[k].given[i] \in DOMAIN stored'
                        /\ handlers'[k].missed \subseteq DOMAIN stored'
      BY <2>1 DEF GivenIsStored
    <3>1. /\ \A i \in DOMAIN handlers[k].given : handlers[k].given[i] \in DOMAIN stored
          /\ handlers[k].missed \subseteq DOMAIN stored
      BY DEF MemoryInv, GivenIsStored
    <3>2. CASE k = m
      <4>1. handlers'[k].given = Append(handlers[k].given, e)
        BY <2>2, <3>2
      <4>2. \A i \in DOMAIN handlers'[k].given :
               handlers'[k].given[i] = e \/ handlers'[k].given[i] \in DOMAIN stored
        BY <2>2, <3>1, <4>1, Appended
      <4> QED
        BY <2>2, <3>1, <4>2 DEF Storing
    <3>3. CASE k # m
      BY <2>2, <3>1, <3>3 DEF Storing
    <3> QED
      BY <3>2, <3>3
  <2>4. FirstSeesStoredOrder'
    <3> SUFFICES ASSUME handlers' # << >>,
                        NEW i \in DOMAIN handlers'[1].given,
                        NEW j \in DOMAIN handlers'[1].given, i < j
                 PROVE  handlers'[1].given[i] < handlers'[1].given[j]
      BY DEF FirstSeesStoredOrder
    <3>1. handlers # << >> /\ 1 \in DOMAIN handlers
      BY <1>2, <2>1 DEF Carries
    <3>2. \A x, y \in DOMAIN handlers[1].given :
             x < y => handlers[1].given[x] < handlers[1].given[y]
      BY <3>1 DEF MemoryInv, FirstSeesStoredOrder
    <3>3. CASE m # 1
      BY <2>2, <3>1, <3>2, <3>3
    <3>4. CASE m = 1
      <4>1. n = 0
        BY <1>2, <3>4 DEF Carries
      <4>2. \A x \in DOMAIN handlers[1].given : handlers[1].given[x] < e
        BY <3>1, <4>1 DEF Ready
      <4>3. handlers[1].given \in Seq(Nat) /\ handlers'[1].given = Append(handlers[1].given, e)
        BY <2>2, <3>1, <3>4
      <4> DEFINE s == handlers[1].given
      <4>4. s \in Seq(Nat) /\ \A x \in DOMAIN s : s[x] < e
        BY <4>2, <4>3
      <4>5. i \in DOMAIN Append(s, e) /\ j \in DOMAIN Append(s, e)
        BY <4>3
      <4>6. \A x, y \in DOMAIN s : x < y => s[x] < s[y]
        BY <3>2
      <4>7. Append(s, e)[i] < Append(s, e)[j]
        <5> HIDE DEF s
        <5>1. i \in DOMAIN s
          BY <4>4, <4>5, Appended
        <5>2. Append(s, e)[i] = s[i]
          BY <4>4, <5>1, Appended
        <5>3. CASE j \in DOMAIN s
          BY <4>4, <4>6, <5>1, <5>2, <5>3, Appended
        <5>4. CASE j = Len(s) + 1
          BY <4>4, <5>1, <5>2, <5>4, Appended
        <5> QED
          BY <4>4, <4>5, <5>3, <5>4, Appended
      <4> QED
        BY <4>3, <4>7
    <3> QED
      BY <3>3, <3>4
  <2> QED
    BY <2>3, <2>4
<1> QED
  BY <1>1, <1>2, VisitCases DEF MemoryInv

LEMMA ShapeAfterVisit ==
    ASSUME MemoryInv, NEW c \in Senders, NEW e \in Nat, NEW n \in Nat,
           Ready(c, e, n), Visit(c, e, n), Storing(e), stored' \in Seq(Senders)
    PROVE  StoreOK' /\ SendsAreReal' /\ EventsOfSenders'
<1>1. \A d \in Senders : d # c => sending'[d] = sending[d]
  BY VisitCases DEF MemoryInv
<1>2. sending' = [sending EXCEPT ![c] = sending'[c]]
  BY DEF Visit, MemoryInv, StoreOK
<1>3. CASE Ends(c, n)
  <2>1. StoreOK'
    <3>1. sending'[c] \in AnySending
      BY <1>3 DEF Ends, NotSending, AnySending
    <3>2. sending' \in [Senders -> AnySending]
      BY <1>2, <3>1 DEF MemoryInv, StoreOK
    <3> QED
      BY <1>3, <3>2 DEF Ends, MemoryInv, StoreOK
  <2>2. SendsAreReal'
    BY <1>1, <1>3 DEF Ends, MemoryInv, SendsAreReal, Storing
  <2>3. EventsOfSenders'
    <3> SUFFICES ASSUME NEW a \in Senders, NEW d \in Senders,
                        sending'[a] # NotSending, sending'[a].event = sending'[d].event
                 PROVE  a = d
      BY DEF EventsOfSenders
    <3>1. a # c /\ sending'[a] = sending[a]
      BY <1>1, <1>3 DEF Ends
    <3>2. sending[a].event # 0
      BY <3>1 DEF MemoryInv, SendsAreReal, StoreOK
    <3>3. sending'[c].event = 0
      BY <1>3 DEF Ends, NotSending
    <3>4. d # c /\ sending'[d] = sending[d]
      BY <1>1, <3>1, <3>2, <3>3
    <3> QED
      BY <3>1, <3>4 DEF MemoryInv, EventsOfSenders
  <2> QED
    BY <2>1, <2>2, <2>3
<1>4. ASSUME NEW m \in Nat, Carries(c, e, n, m)
      PROVE  StoreOK' /\ SendsAreReal' /\ EventsOfSenders'
  <2>1. sending'[c] = [event |-> e, handler |-> m] /\ m \in DOMAIN handlers
    BY <1>4 DEF Carries
  <2>2. handlers' \in Seq(AnyHandler)
    <3>1. NextHandler(n) # 0
      <4>1. e # 0
        BY DEF Ready
      <4>2. sending'[c] # NotSending
        BY <2>1, <4>1 DEF NotSending
      <4> QED
        BY <4>2 DEF Visit, MemoryInv, StoreOK
    <3>2. NextHandler(n) \in DOMAIN handlers
      BY <3>1, NextHandlerFact DEF MemoryInv
    <3> DEFINE k == NextHandler(n)
    <3>3. handlers' = [handlers EXCEPT ![k] = [handlers[k] EXCEPT !.given = Append(@, e)]]
      BY <3>1 DEF Visit
    <3>4. Append(handlers[k].given, e) \in Seq(Nat)
      BY <3>2, HandlerShape DEF MemoryInv
    <3>5. [handlers[k] EXCEPT !.given = Append(@, e)] \in AnyHandler
      <4>1. handlers[k] \in AnyHandler
        BY <3>2, HandlerShape DEF MemoryInv
      <4> QED
        BY <3>4, <4>1 DEF AnyHandler
    <3> DEFINE given == [handlers[k] EXCEPT !.given = Append(@, e)]
    <3>6. given \in AnyHandler
      BY <3>5
    <3>7. handlers' = [handlers EXCEPT ![k] = given]
      BY <3>3
    <3>8. k \in DOMAIN handlers
      BY <3>2
    <3>9. handlers \in Seq(AnyHandler) /\ DOMAIN handlers = 1 .. Len(handlers)
      BY DEF MemoryInv, StoreOK
    <3> HIDE DEF k, given
    <3> QED
      BY <3>6, <3>7, <3>8, <3>9, ExceptSeq
  <2>3. StoreOK'
    <3>1. m \in Nat /\ sending'[c] \in AnySending
      BY <2>1 DEF AnySending
    <3>2. sending' \in [Senders -> AnySending]
      BY <1>2, <3>1 DEF MemoryInv, StoreOK
    <3> QED
      BY <2>2, <3>2 DEF StoreOK
  <2>4. SendsAreReal'
    <3>1. DOMAIN handlers' = DOMAIN handlers
      BY <1>4 DEF Carries, Giving
    <3> QED
      BY <1>1, <2>1, <3>1 DEF MemoryInv, SendsAreReal, Storing
  <2>5. EventsOfSenders'
    BY <1>1, <2>1 DEF MemoryInv, EventsOfSenders, Ready
  <2> QED
    BY <2>3, <2>4, <2>5
<1> QED
  BY <1>3, <1>4, VisitCases DEF MemoryInv

LEMMA VisitKeeps ==
    ASSUME MemoryInv, NEW c \in Senders, NEW e \in Nat, NEW n \in Nat,
           Ready(c, e, n), Visit(c, e, n), Storing(e), stored' \in Seq(Senders)
    PROVE  MemoryInv'
BY ProgressAfterVisit, OverAfterVisit, GivenAfterVisit, ShapeAfterVisit DEF MemoryInv

LEMMA SendEventKeeps ==
    ASSUME MemoryInv, NEW c \in Senders, SendEvent(c)
    PROVE  MemoryInv'
<1> DEFINE e == Len(stored) + 1
<1>1. /\ DOMAIN stored = 1 .. Len(stored) /\ Len(stored) \in Nat
      /\ DOMAIN handlers = 1 .. Len(handlers) /\ Len(handlers) \in Nat
  BY DEF MemoryInv, StoreOK
<1>2. stored' = Append(stored, c) /\ sending[c] = NotSending /\ Visit(c, e, 0)
  BY DEF SendEvent
<1>3. stored' \in Seq(Senders) /\ DOMAIN stored' = DOMAIN stored \cup {e}
  BY <1>2 DEF MemoryInv, StoreOK
<1>4. Storing(e)
  BY <1>3 DEF Storing
<1>5. \A k \in DOMAIN handlers : \A i \in DOMAIN handlers[k].given : handlers[k].given[i] < e
  BY <1>1 DEF MemoryInv, GivenIsStored
<1>6. Ready(c, e, 0)
  <2>1. e # 0
    BY <1>1
  <2>2. ASSUME NEW d \in Senders, sending[d].event = e PROVE FALSE
    <3>1. sending[d] # NotSending
      BY <1>1, <2>2 DEF NotSending
    <3> QED
      BY <1>1, <2>2, <3>1 DEF MemoryInv, SendsAreReal
  <2>3. ASSUME NEW k \in DOMAIN handlers
        PROVE  ~(k <= 0) /\ Occurrences(k, e) = {}
    <3>1. \A i \in DOMAIN handlers[k].given : handlers[k].given[i] # e
      <4>1. \A i \in DOMAIN handlers[k].given : handlers[k].given[i] \in DOMAIN stored
        BY DEF MemoryInv, GivenIsStored
      <4>2. e \notin DOMAIN stored
        BY <1>1
      <4> HIDE DEF e
      <4> QED
        BY <4>1, <4>2
    <3> QED
      BY <1>1, <3>1 DEF Occurrences
  <2> HIDE DEF e
  <2> QED
    BY <1>2, <1>5, <2>1, <2>2, <2>3 DEF Ready
<1>7. e \in Nat
  BY <1>1
<1> HIDE DEF e
<1> QED
  BY <1>2, <1>3, <1>4, <1>6, <1>7, VisitKeeps

LEMMA HandlerDoneKeeps ==
    ASSUME MemoryInv, NEW c \in Senders, HandlerDone(c)
    PROVE  MemoryInv'
<1>1. sending[c] # NotSending /\ stored' = stored
  BY DEF HandlerDone
<1>2. /\ sending[c].event \in DOMAIN stored /\ sending[c].handler \in DOMAIN handlers
      /\ DOMAIN stored \subseteq Nat \ {0} /\ DOMAIN handlers \subseteq Nat \ {0}
  BY <1>1 DEF MemoryInv, SendsAreReal, StoreOK
<1> DEFINE e == sending[c].event
           n == sending[c].handler
<1>3. Visit(c, e, n)
  BY DEF HandlerDone
<1>4. Storing(e)
  BY <1>1, <1>2 DEF Storing
<1>5. Ready(c, e, n)
  <2>1. \A d \in Senders : d # c => sending[d].event # e
    BY <1>1 DEF MemoryInv, EventsOfSenders
  <2>2. \A k \in DOMAIN handlers : /\ k > n => Occurrences(k, e) = {}
                                   /\ k <= n /\ Entitled(k, e) => Once(k, e)
    BY <1>1 DEF MemoryInv, Progress
  <2>3. e # 0 /\ n # 0 /\ (sending[c] = NotSending \/ sending[c].event = e)
    BY <1>2
  <2> HIDE DEF e, n
  <2> QED
    BY <2>1, <2>2, <2>3 DEF Ready
<1>6. e \in Nat /\ n \in Nat /\ stored' \in Seq(Senders)
  BY <1>1, <1>2 DEF MemoryInv, StoreOK
<1> HIDE DEF e, n
<1> QED
  BY <1>3, <1>4, <1>5, <1>6, VisitKeeps

LEMMA HandlerFailsKeeps ==
    ASSUME MemoryInv, NEW c \in Senders, HandlerFails(c)
    PROVE  MemoryInv'
<1> DEFINE e == sending[c].event
           n == sending[c].handler
           Fails(k) == [handlers[k] EXCEPT !.missed = IF k > n THEN @ \cup {e} ELSE @]
<1>1. /\ sending[c] # NotSending /\ stored' = stored
      /\ sending' = [sending EXCEPT ![c] = NotSending]
      /\ handlers' = [k \in DOMAIN handlers |-> Fails(k)]
  BY DEF HandlerFails
<1>2. e \in DOMAIN stored /\ n \in DOMAIN handlers
  BY <1>1 DEF MemoryInv, SendsAreReal
<1>3. /\ DOMAIN stored = 1 .. Len(stored) /\ Len(stored) \in Nat
      /\ DOMAIN handlers = 1 .. Len(handlers) /\ Len(handlers) \in Nat
  BY DEF MemoryInv, StoreOK
<1>4. ASSUME NEW k \in DOMAIN handlers
      PROVE  /\ handlers'[k] \in AnyHandler
             /\ SameHandler(k) /\ handlers'[k].given = handlers[k].given
             /\ handlers'[k].missed = IF k > n THEN handlers[k].missed \cup {e}
                                      ELSE handlers[k].missed
  <2>1. handlers[k] \in AnyHandler /\ handlers'[k] = Fails(k)
    BY <1>1, HandlerShape DEF MemoryInv
  <2>2. e \in Nat
    BY <1>2, <1>3
  <2> HIDE DEF e, n
  <2> QED
    BY <2>1, <2>2 DEF AnyHandler, SameHandler
<1>5. DOMAIN handlers' = DOMAIN handlers
  BY <1>1
<1>6. \A d \in Senders : d # c => sending'[d] = sending[d]
  BY <1>1 DEF MemoryInv, StoreOK
<1>7. sending'[c] = NotSending
  BY <1>1 DEF MemoryInv, StoreOK
<1>8. ASSUME NEW k \in DOMAIN handlers, NEW b
      PROVE  /\ Occurrences(k, b)' = Occurrences(k, b)
             /\ Once(k, b)' <=> Once(k, b)
             /\ Entitled(k, b)' <=> Entitled(k, b)
  BY <1>4 DEF Occurrences, Once, Entitled, SameHandler
<1>9. StoreOK'
  <2>1. handlers' \in Seq(AnyHandler)
    <3>1. handlers' = [k \in 1 .. Len(handlers) |-> handlers'[k]]
      BY <1>1, <1>3
    <3>2. handlers' \in [1 .. Len(handlers) -> AnyHandler]
      BY <1>3, <1>4, <3>1
    <3> QED
      BY <1>3, <3>2
  <2>2. sending' \in [Senders -> AnySending]
    BY <1>1 DEF MemoryInv, StoreOK, AnySending, NotSending
  <2> QED
    BY <1>1, <2>1, <2>2 DEF MemoryInv, StoreOK
<1>10. SendsAreReal'
  BY <1>1, <1>5, <1>6, <1>7 DEF MemoryInv, SendsAreReal
<1>11. EventsOfSenders'
  <2> SUFFICES ASSUME NEW a \in Senders, NEW d \in Senders,
                      sending'[a] # NotSending, sending'[a].event = sending'[d].event
               PROVE  a = d
    BY DEF EventsOfSenders
  <2>1. a # c /\ sending'[a] = sending[a]
    BY <1>6, <1>7
  <2>2. sending[a].event # 0
    BY <1>3, <2>1 DEF MemoryInv, SendsAreReal
  <2>3. sending'[c].event = 0
    BY <1>7 DEF NotSending
  <2>4. d # c /\ sending'[d] = sending[d]
    BY <1>6, <2>1, <2>2, <2>3
  <2> QED
    BY <2>1, <2>4 DEF MemoryInv, EventsOfSenders
<1> HIDE DEF e, n
<1>12. GivenIsStored'
  <2> SUFFICES ASSUME NEW k \in DOMAIN handlers
               PROVE  /\ \A i \in DOMAIN handlers'[k].given :
                            handlers'[k].given[i] \in DOMAIN stored
                      /\ handlers'[k].missed \subseteq DOMAIN stored
    BY <1>1, <1>5 DEF GivenIsStored
  <2>1. /\ \A i \in DOMAIN handlers[k].given : handlers[k].given[i] \in DOMAIN stored
        /\ handlers[k].missed \subseteq DOMAIN stored
    BY DEF MemoryInv, GivenIsStored
  <2> QED
    BY <1>2, <1>4, <2>1
<1>13. Progress'
  <2> SUFFICES ASSUME NEW d \in Senders, sending'[d] # NotSending, NEW k \in DOMAIN handlers
               PROVE  /\ k > sending'[d].handler => Occurrences(k, sending[d].event)' = {}
                      /\ k <= sending'[d].handler /\ Entitled(k, sending[d].event)'
                             => Once(k, sending[d].event)'
    BY <1>5 DEF Progress
  <2>1. sending'[d] = sending[d] /\ sending[d] # NotSending
    BY <1>6, <1>7
  <2>2. /\ k > sending[d].handler => Occurrences(k, sending[d].event) = {}
        /\ k <= sending[d].handler /\ Entitled(k, sending[d].event)
               => Once(k, sending[d].event)
    BY <2>1 DEF MemoryInv, Progress
  <2> QED
    BY <1>8, <2>1, <2>2
<1>14. OverIsOnce'
  <2> SUFFICES ASSUME NEW k \in DOMAIN handlers, NEW b \in DOMAIN stored,
                      Entitled(k, b)', b \notin handlers'[k].missed, Over(b)'
               PROVE  Once(k, b)'
    BY <1>1, <1>5 DEF OverIsOnce
  <2>1. Entitled(k, b) /\ b \notin handlers[k].missed
    BY <1>4, <1>8
  <2>2. CASE b = e
    <3>1. ~(k > n)
      BY <1>4, <2>2
    <3>2. k <= n
      BY <1>2, <1>3, <3>1
    <3>3. Once(k, b)
      BY <1>1, <2>1, <2>2, <3>2 DEF e, n, MemoryInv, Progress
    <3> QED
      BY <1>8, <3>3
  <2>3. CASE b # e
    <3>1. Over(b)
      <4> SUFFICES ASSUME NEW d \in Senders PROVE sending[d].event # b
        BY DEF Over
      <4> QED
        BY <1>6, <2>3 DEF e, Over
    <3> QED
      BY <1>8, <2>1, <3>1 DEF MemoryInv, OverIsOnce
  <2> QED
    BY <2>2, <2>3
<1>15. FirstSeesStoredOrder'
  <2> SUFFICES ASSUME handlers' # << >>
               PROVE  \A i, j \in DOMAIN handlers'[1].given :
                         i < j => handlers'[1].given[i] < handlers'[1].given[j]
    BY DEF FirstSeesStoredOrder
  <2>1. handlers # << >> /\ 1 \in DOMAIN handlers
    BY <1>2, <1>3
  <2>2. handlers'[1].given = handlers[1].given
    BY <1>4, <2>1
  <2> QED
    BY <2>1, <2>2 DEF MemoryInv, FirstSeesStoredOrder
<1> QED
  BY <1>9, <1>10, <1>11, <1>12, <1>13, <1>14, <1>15 DEF MemoryInv

LEMMA AddHandlerKeeps ==
    ASSUME MemoryInv, AddHandler
    PROVE  MemoryInv'
<1> DEFINE new == [given |-> << >>, subscribed |-> TRUE, joined |-> Len(stored), missed |-> {}]
<1>0. PICK last \in Nat : last = Len(handlers) + 1
  BY DEF MemoryInv, StoreOK
<1>1. handlers' = Append(handlers, new) /\ stored' = stored /\ sending' = sending
  BY DEF AddHandler
<1>2. /\ DOMAIN stored = 1 .. Len(stored) /\ Len(stored) \in Nat
      /\ DOMAIN handlers = 1 .. Len(handlers) /\ Len(handlers) \in Nat
  BY DEF MemoryInv, StoreOK
<1>3. new \in AnyHandler
  BY <1>2 DEF AnyHandler
<1>4. /\ handlers' \in Seq(AnyHandler)
      /\ DOMAIN handlers' = DOMAIN handlers \cup {last}
      /\ handlers'[last] = new /\ \A k \in DOMAIN handlers : handlers'[k] = handlers[k]
  <2> HIDE DEF new
  <2> QED
    BY <1>0, <1>1, <1>3 DEF MemoryInv, StoreOK
<1>5. ASSUME NEW k \in DOMAIN handlers, NEW b
      PROVE  /\ Occurrences(k, b)' = Occurrences(k, b)
             /\ Once(k, b)' <=> Once(k, b)
             /\ Entitled(k, b)' <=> Entitled(k, b)
  BY <1>4 DEF Occurrences, Once, Entitled
<1>6. /\ handlers'[last].given = << >> /\ handlers'[last].joined = Len(stored)
      /\ handlers'[last].missed = {}
  BY <1>4
<1>7. \A b : Occurrences(last, b)' = {}
  BY <1>6 DEF Occurrences
<1>8. StoreOK' /\ SendsAreReal' /\ EventsOfSenders'
  BY <1>1, <1>4 DEF MemoryInv, StoreOK, SendsAreReal, EventsOfSenders
<1>9. GivenIsStored'
  BY <1>1, <1>4, <1>6 DEF MemoryInv, GivenIsStored
<1>10. Progress'
  <2> SUFFICES ASSUME NEW d \in Senders, sending[d] # NotSending, NEW k \in DOMAIN handlers'
               PROVE  /\ k > sending[d].handler => Occurrences(k, sending[d].event)' = {}
                      /\ k <= sending[d].handler /\ Entitled(k, sending[d].event)'
                             => Once(k, sending[d].event)'
    BY <1>1 DEF Progress
  <2>1. /\ sending[d].handler \in DOMAIN handlers
        /\ sending[d].event = sending'[d].event
    BY <1>1 DEF MemoryInv, SendsAreReal
  <2>2. CASE k = last
    <3>1. ~(k <= sending[d].handler)
      BY <1>0, <1>2, <2>1, <2>2
    <3> QED
      BY <1>7, <2>2, <3>1
  <2>3. CASE k \in DOMAIN handlers
    <3>1. /\ k > sending[d].handler => Occurrences(k, sending[d].event) = {}
          /\ k <= sending[d].handler /\ Entitled(k, sending[d].event)
                 => Once(k, sending[d].event)
      BY <2>3 DEF MemoryInv, Progress
    <3> QED
      BY <1>5, <2>1, <2>3, <3>1
  <2> QED
    BY <1>4, <2>2, <2>3
<1>11. OverIsOnce'
  <2> SUFFICES ASSUME NEW k \in DOMAIN handlers', NEW b \in DOMAIN stored,
                      Entitled(k, b)', b \notin handlers'[k].missed, Over(b)'
               PROVE  Once(k, b)'
    BY <1>1 DEF OverIsOnce
  <2>1. k # last
    BY <1>2, <1>6 DEF Entitled
  <2>2. k \in DOMAIN handlers /\ handlers'[k] = handlers[k]
    BY <1>4, <2>1
  <2>3. Over(b)
    BY <1>1 DEF Over
  <2> QED
    BY <1>5, <2>2, <2>3 DEF MemoryInv, OverIsOnce
<1>12. FirstSeesStoredOrder'
  <2>1. CASE handlers = << >>
    <3>1. handlers'[1].given = << >>
      BY <1>0, <1>6, <2>1
    <3> QED
      BY <3>1 DEF FirstSeesStoredOrder
  <2>2. CASE handlers # << >>
    <3>1. handlers'[1] = handlers[1]
      BY <1>2, <1>4, <2>2 DEF MemoryInv, StoreOK
    <3> QED
      BY <2>2, <3>1 DEF MemoryInv, FirstSeesStoredOrder
  <2> QED
    BY <2>1, <2>2
<1> QED
  BY <1>8, <1>9, <1>10, <1>11, <1>12 DEF MemoryInv

LEMMA RemoveHandlerKeeps ==
    ASSUME MemoryInv, NEW h \in DOMAIN handlers, RemoveHandler(h)
    PROVE  MemoryInv'
<1>1. /\ handlers' = [handlers EXCEPT ![h].subscribed = FALSE]
      /\ stored' = stored /\ sending' = sending
  BY DEF RemoveHandler
<1>2. /\ handlers \in Seq(AnyHandler) /\ DOMAIN handlers' = DOMAIN handlers
      /\ DOMAIN handlers = 1 .. Len(handlers) /\ Len(handlers) \in Nat
  BY <1>1 DEF MemoryInv, StoreOK
<1>3. ASSUME NEW k \in DOMAIN handlers
      PROVE  /\ handlers'[k] \in AnyHandler
             /\ handlers'[k].given = handlers[k].given
             /\ handlers'[k].missed = handlers[k].missed
             /\ handlers'[k].joined = handlers[k].joined
             /\ handlers'[k].subscribed => handlers[k].subscribed
  <2>1. handlers[k] \in AnyHandler
    BY HandlerShape DEF MemoryInv
  <2>2. handlers'[k] = IF k = h THEN [handlers[k] EXCEPT !.subscribed = FALSE] ELSE handlers[k]
    BY <1>1
  <2> QED
    BY <2>1, <2>2 DEF AnyHandler
<1>4. ASSUME NEW k \in DOMAIN handlers, NEW b
      PROVE  /\ Occurrences(k, b)' = Occurrences(k, b)
             /\ Once(k, b)' <=> Once(k, b)
             /\ Entitled(k, b)' => Entitled(k, b)
  BY <1>3 DEF Occurrences, Once, Entitled
<1>5. StoreOK'
  <2>1. handlers' \in [1 .. Len(handlers) -> AnyHandler]
    <3>1. handlers' = [k \in 1 .. Len(handlers) |-> handlers'[k]]
      BY <1>1, <1>2
    <3> QED
      BY <1>2, <1>3, <3>1
  <2>2. handlers' \in Seq(AnyHandler)
    BY <1>2, <2>1
  <2> QED
    BY <1>1, <2>2 DEF MemoryInv, StoreOK
<1>6. SendsAreReal' /\ EventsOfSenders'
  BY <1>1, <1>2 DEF MemoryInv, SendsAreReal, EventsOfSenders
<1>7. GivenIsStored'
  BY <1>1, <1>2, <1>3 DEF MemoryInv, GivenIsStored
<1>8. Progress'
  <2> SUFFICES ASSUME NEW d \in Senders, sending[d] # NotSending, NEW k \in DOMAIN handlers
               PROVE  /\ k > sending[d].handler => Occurrences(k, sending[d].event)' = {}
                      /\ k <= sending[d].handler /\ Entitled(k, sending[d].event)'
                             => Once(k, sending[d].event)'
    BY <1>1, <1>2 DEF Progress
  <2>1. /\ k > sending[d].handler => Occurrences(k, sending[d].event) = {}
        /\ k <= sending[d].handler /\ Entitled(k, sending[d].event)
               => Once(k, sending[d].event)
    BY DEF MemoryInv, Progress
  <2>2. sending'[d].event = sending[d].event
    BY <1>1
  <2> QED
    BY <1>4, <2>1, <2>2
<1>9. OverIsOnce'
  <2> SUFFICES ASSUME NEW k \in DOMAIN handlers, NEW b \in DOMAIN stored,
                      Entitled(k, b)', b \notin handlers'[k].missed, Over(b)'
               PROVE  Once(k, b)'
    BY <1>1, <1>2 DEF OverIsOnce
  <2>1. Over(b) /\ b \notin handlers[k].missed
    BY <1>1, <1>3 DEF Over
  <2> QED
    BY <1>4, <2>1 DEF MemoryInv, OverIsOnce
<1>10. FirstSeesStoredOrder'
  <2>1. 1 \in DOMAIN handlers /\ handlers # << >>
    BY <1>2
  <2>2. handlers'[1].given = handlers[1].given
    BY <1>3, <2>1
  <2> QED
    BY <2>1, <2>2 DEF MemoryInv, FirstSeesStoredOrder
<1> QED
  BY <1>5, <1>6, <1>7, <1>8, <1>9, <1>10 DEF MemoryInv

LEMMA MemoryStep == MemoryInv /\ [MemoryNext]_memoryVars => MemoryInv'
<1> SUFFICES ASSUME MemoryInv, [MemoryNext]_memoryVars PROVE MemoryInv'
  OBVIOUS
<1>1. CASE UNCHANGED memoryVars
  <2>1. stored' = stored /\ handlers' = handlers /\ sending' = sending
    BY <1>1 DEF memoryVars
  <2>2. StoreOK' /\ SendsAreReal' /\ EventsOfSenders' /\ GivenIsStored' /\ FirstSeesStoredOrder'
    BY <2>1 DEF MemoryInv, StoreOK, SendsAreReal, EventsOfSenders, GivenIsStored, FirstSeesStoredOrder
  <2>3. Progress'
    BY <2>1 DEF MemoryInv, Progress, Occurrences, Once, Entitled
  <2>4. OverIsOnce'
    <3> SUFFICES ASSUME NEW k \in DOMAIN handlers, NEW e \in DOMAIN stored,
                        Entitled(k, e)', e \notin handlers[k].missed, Over(e)'
                 PROVE  Once(k, e)'
      BY <2>1 DEF OverIsOnce
    <3>1. Over(e)
      BY <2>1 DEF Over
    <3> QED
      BY <2>1, <3>1, Untouched DEF MemoryInv, OverIsOnce
  <2> QED
    BY <2>2, <2>3, <2>4 DEF MemoryInv
<1> QED
  BY <1>1, SendEventKeeps, HandlerDoneKeeps, HandlerFailsKeeps, AddHandlerKeeps,
     RemoveHandlerKeeps DEF MemoryNext

LEMMA MemoryStart == MemoryInit => MemoryInv
<1> SUFFICES ASSUME MemoryInit PROVE MemoryInv
  OBVIOUS
<1>1. DOMAIN stored = {} /\ DOMAIN handlers = {} /\ \A c \in Senders : sending[c] = NotSending
  BY DEF MemoryInit
<1>2. StoreOK
  <2>1. NotSending \in AnySending
    BY DEF NotSending, AnySending
  <2> QED
    BY <2>1 DEF MemoryInit, StoreOK
<1> QED
  BY <1>1, <1>2 DEF MemoryInit, MemoryInv, SendsAreReal, EventsOfSenders, GivenIsStored, Progress,
                    OverIsOnce, FirstSeesStoredOrder

-----------------------------------------------------------------------------
(***************************************************************************)
(* send in packages/transport: for any number of clients, events and       *)
(* handlers, sends that overlap do not change the order in which the       *)
(* handler that registered first is given the events.                      *)
(***************************************************************************)
THEOREM FirstIsInOrder == MemorySpec => []FirstSeesStoredOrder
<1>1. MemoryInv => FirstSeesStoredOrder
  BY DEF MemoryInv
<1> QED
  BY <1>1, MemoryStart, MemoryStep, PTL DEF MemorySpec

LEMMA OnceIsGiven == MemoryInv => OverMeansGiven
<1> SUFFICES ASSUME MemoryInv, NEW k \in DOMAIN handlers, NEW e \in DOMAIN stored,
                    Entitled(k, e), e \notin handlers[k].missed, Over(e)
             PROVE  Cardinality(Occurrences(k, e)) = 1
  BY DEF OverMeansGiven, Entitled, Over, Occurrences
<1>1. PICK i : Occurrences(k, e) = {i}
  BY DEF MemoryInv, OverIsOnce, Once
<1> QED
  BY <1>1, FS_Singleton

(***************************************************************************)
(* send in packages/transport: for any number of clients, events and       *)
(* handlers, when a send is over its event was given exactly once to each  *)
(* handler that was there and has stayed, however sends overlap and        *)
(* handlers come and go, unless an earlier handler threw.                  *)
(***************************************************************************)
THEOREM OverIsGiven == MemorySpec => []OverMeansGiven
<1> QED
  BY OnceIsGiven, MemoryStart, MemoryStep, PTL DEF MemorySpec

-----------------------------------------------------------------------------
\* What the types of the store say beyond MemoryInv.
Bounded == /\ Len(stored) <= MaxSent /\ Len(handlers) <= MaxSubscribers
           /\ \A k \in DOMAIN handlers : handlers[k].joined <= MaxSent

LEMMA StoreShape ==
    ASSUME StoreOK
    PROVE  /\ Len(stored) \in Nat /\ DOMAIN stored = 1 .. Len(stored)
           /\ Len(handlers) \in Nat /\ DOMAIN handlers = 1 .. Len(handlers)
BY DEF StoreOK

LEMMA MemoryTypesFollow == MemoryInv /\ Bounded => MemoryTypeOK
<1> SUFFICES ASSUME MemoryInv, Bounded PROVE MemoryTypeOK
  OBVIOUS
<1>1. /\ StoreOK /\ MaxSent \in Nat /\ MaxSubscribers \in Nat
      /\ DOMAIN stored \subseteq 1 .. MaxSent /\ DOMAIN handlers \subseteq 1 .. MaxSubscribers
  BY StoreShape, MemoryAssumption DEF MemoryInv, Bounded
<1>2. ASSUME NEW k \in DOMAIN handlers PROVE handlers[k] \in Handler
  <2>1. handlers[k] \in AnyHandler /\ handlers[k].joined <= MaxSent
    BY <1>1, HandlerShape DEF Bounded
  <2>2. \A i \in DOMAIN handlers[k].given : handlers[k].given[i] \in 1 .. MaxSent
    BY <1>1 DEF MemoryInv, GivenIsStored
  <2>3. handlers[k].given \in Seq(Nat)
    BY <2>1 DEF AnyHandler
  <2>4. handlers[k].given \in Seq(1 .. MaxSent)
    <3>1. \A i \in 1 .. Len(handlers[k].given) : handlers[k].given[i] \in 1 .. MaxSent
      BY <2>2, <2>3
    <3> QED
      BY <2>3, <3>1, SeqWithin
  <2>5. handlers[k].missed \subseteq 1 .. MaxSent
    BY <1>1 DEF MemoryInv, GivenIsStored
  <2>6. handlers[k].joined \in 0 .. MaxSent
    BY <1>1, <2>1 DEF AnyHandler
  <2> QED
    BY <2>1, <2>4, <2>5, <2>6 DEF AnyHandler, Handler
<1>3. handlers \in Seq(Handler)
  BY <1>1, <1>2 DEF StoreOK
<1>4. ASSUME NEW c \in Senders PROVE sending[c] \in Sending
  <2>1. CASE sending[c] = NotSending
    BY <1>1, <2>1 DEF NotSending, Sending
  <2>2. CASE sending[c] # NotSending
    <3>1. sending[c].event \in 1 .. MaxSent /\ sending[c].handler \in 1 .. MaxSubscribers
      BY <1>1, <2>2 DEF MemoryInv, SendsAreReal
    <3>2. sending[c] \in AnySending
      BY <1>1 DEF StoreOK
    <3> QED
      BY <1>1, <3>1, <3>2 DEF AnySending, Sending
  <2> QED
    BY <2>1, <2>2
<1> QED
  BY <1>1, <1>3, <1>4 DEF MemoryTypeOK, StoreOK

\* A step that adds no handler.
LEMMA BoundedKept ==
    ASSUME MemoryInv, MemoryInv', Bounded, Len(stored') <= MaxSent,
           DOMAIN handlers' = DOMAIN handlers,
           \A k \in DOMAIN handlers : handlers'[k].joined = handlers[k].joined
    PROVE  Bounded'
<1>1. /\ StoreOK /\ StoreOK'
      /\ Len(handlers) \in Nat /\ DOMAIN handlers = 1 .. Len(handlers)
  BY StoreShape DEF MemoryInv
<1>2. Len(handlers') \in Nat /\ DOMAIN handlers' = 1 .. Len(handlers')
  BY <1>1 DEF StoreOK
<1>3. Len(handlers') = Len(handlers)
  BY <1>1, <1>2
<1> QED
  BY <1>3 DEF Bounded

LEMMA BoundedVisit ==
    ASSUME MemoryInv, MemoryInv', Bounded, Len(stored') <= MaxSent,
           NEW c \in Senders, NEW e \in Nat, NEW n \in Nat, Visit(c, e, n)
    PROVE  Bounded'
<1>1. CASE Ends(c, n)
  BY <1>1, BoundedKept DEF Ends
<1>2. ASSUME NEW m \in Nat, Carries(c, e, n, m) PROVE Bounded'
  BY <1>2, BoundedKept DEF Carries, Giving, SameHandler
<1> QED
  BY <1>1, <1>2, VisitCases DEF MemoryInv

LEMMA BoundedStep == MemoryInv /\ Bounded /\ [MemoryNext]_memoryVars => Bounded'
<1> SUFFICES ASSUME MemoryInv, Bounded, [MemoryNext]_memoryVars PROVE Bounded'
  OBVIOUS
<1>1. MemoryInv' /\ StoreOK /\ MaxSent \in Nat
  BY MemoryStep, MemoryAssumption DEF MemoryInv
<1>2. /\ Len(stored) \in Nat /\ DOMAIN stored = 1 .. Len(stored) /\ Len(stored) <= MaxSent
      /\ Len(handlers) \in Nat /\ DOMAIN handlers = 1 .. Len(handlers)
      /\ stored \in Seq(Senders) /\ handlers \in Seq(AnyHandler)
  BY <1>1, StoreShape DEF StoreOK, Bounded
<1>3. ASSUME NEW c \in Senders, SendEvent(c) PROVE Bounded'
  <2> DEFINE e == Len(stored) + 1
  <2>1. stored' = Append(stored, c) /\ Len(stored) < MaxSent /\ Visit(c, e, 0)
    BY <1>3 DEF SendEvent
  <2>2. Len(stored') = e /\ e \in Nat /\ 0 \in Nat
    BY <1>2, <2>1
  <2>3. Len(stored') <= MaxSent
    BY <1>1, <1>2, <2>1, <2>2
  <2> HIDE DEF e
  <2> QED
    BY <1>1, <2>1, <2>2, <2>3, BoundedVisit
<1>4. ASSUME NEW c \in Senders, HandlerDone(c) PROVE Bounded'
  <2> DEFINE e == sending[c].event
             n == sending[c].handler
  <2>1. stored' = stored /\ sending[c] # NotSending /\ Visit(c, e, n)
    BY <1>4 DEF HandlerDone
  <2>2. e \in Nat /\ n \in Nat
    BY <1>1 DEF StoreOK, AnySending
  <2> HIDE DEF e, n
  <2> QED
    BY <1>1, <1>2, <2>1, <2>2, BoundedVisit
<1>5. ASSUME NEW c \in Senders, HandlerFails(c) PROVE Bounded'
  <2>1. /\ stored' = stored /\ DOMAIN handlers' = DOMAIN handlers
        /\ \A k \in DOMAIN handlers : \E missed :
              handlers'[k] = [handlers[k] EXCEPT !.missed = missed]
    BY <1>5 DEF HandlerFails
  <2>2. \A k \in DOMAIN handlers : handlers'[k].joined = handlers[k].joined
    BY <1>1, <2>1, HandlerShape DEF AnyHandler
  <2> QED
    BY <1>1, <1>2, <2>1, <2>2, BoundedKept
<1>6. CASE AddHandler
  <2> DEFINE new == [given |-> << >>, subscribed |-> TRUE, joined |-> Len(stored), missed |-> {}]
  <2>1. handlers' = Append(handlers, new) /\ stored' = stored /\ Len(handlers) < MaxSubscribers
    BY <1>6 DEF AddHandler
  <2>2. new \in AnyHandler /\ new.joined = Len(stored)
    BY <1>2 DEF AnyHandler
  <2> HIDE DEF new
  <2>3. /\ Len(handlers') = Len(handlers) + 1
        /\ DOMAIN handlers' = 1 .. Len(handlers) + 1
        /\ handlers'[Len(handlers) + 1] = new
        /\ \A k \in DOMAIN handlers : handlers'[k] = handlers[k]
    BY <1>2, <2>1, <2>2
  <2>4. ASSUME NEW k \in DOMAIN handlers' PROVE handlers'[k].joined <= MaxSent
    <3>1. k \in DOMAIN handlers \/ k = Len(handlers) + 1
      BY <1>2, <2>3
    <3> QED
      BY <1>2, <2>2, <2>3, <3>1 DEF Bounded
  <2>5. Len(handlers') <= MaxSubscribers
    BY <1>2, <2>1, <2>3, MemoryAssumption
  <2> QED
    BY <1>2, <2>1, <2>4, <2>5 DEF Bounded
<1>7. ASSUME NEW h \in DOMAIN handlers, RemoveHandler(h) PROVE Bounded'
  <2>1. /\ stored' = stored /\ DOMAIN handlers' = DOMAIN handlers
        /\ \A k \in DOMAIN handlers :
              handlers'[k] = IF k = h THEN [handlers[k] EXCEPT !.subscribed = FALSE]
                             ELSE handlers[k]
    BY <1>2, <1>7 DEF RemoveHandler
  <2>2. \A k \in DOMAIN handlers : handlers'[k].joined = handlers[k].joined
    BY <1>1, <2>1, HandlerShape DEF AnyHandler
  <2> QED
    BY <1>1, <1>2, <2>1, <2>2, BoundedKept
<1>8. CASE UNCHANGED memoryVars
  BY <1>8 DEF memoryVars, Bounded
<1> QED
  BY <1>3, <1>4, <1>5, <1>6, <1>7, <1>8 DEF MemoryNext

LEMMA BoundedStart == MemoryInit => Bounded
  BY MemoryAssumption DEF MemoryInit, Bounded

(***************************************************************************)
(* send and subscribe: whatever a handler was given or has missed, and     *)
(* whatever a send is about, is an event that was stored, and a send       *)
(* awaits a handler that there is.                                         *)
(***************************************************************************)
THEOREM MemoryTypeCorrect == MemorySpec => []MemoryTypeOK
<1>1. MemoryInit => MemoryInv /\ Bounded
  BY MemoryStart, BoundedStart
<1>2. MemoryInv /\ Bounded /\ [MemoryNext]_memoryVars => (MemoryInv /\ Bounded)'
  BY MemoryStep, BoundedStep
<1> QED
  BY <1>1, <1>2, MemoryTypesFollow, PTL DEF MemorySpec

-----------------------------------------------------------------------------
(***************************************************************************)
(* AuditArchive, for any number of events of the run, of polls, of         *)
(* attempts and of events of others.  While nobody else writes, the        *)
(* message at position i is the run's event i; what has been sent, the     *)
(* size of the archive and what was restored follow from where the run is. *)
(***************************************************************************)
\* The receipt is counted and the archive taken in the places behind "waiting".
Sealed == {"sealing", "reading", "auditing", "confirming", "reconnecting", "rereading", "done"}
\* What was read back last was accepted.
Restored == {"auditing", "confirming", "reconnecting", "rereading", "done"}
Acted == {"waiting", "sealing", "reading", "auditing"}
Audited == {"confirming", "reconnecting", "rereading", "done"}

\* Without others the session holds the events of the run in their order.
OwnInOrder ==
    \A i \in DOMAIN session : (\A j \in 1 .. i : session[j] # 0) => session[i] = i

\* What the run has sent by the time it is there.
SentByPlace == /\ run \in Acted \cup Audited => \A n \in 1 .. OwnEvents : Sent(n)
               /\ run \in Audited => Sent(Audit)
               /\ run \in {"acting"} \cup Acted => ~Sent(Audit)

\* An archive that was taken, and one an audit event names, is large enough.
ArchiveLarge == run \in Sealed \/ Sent(Audit) => archive >= OwnEvents

ArchiveInv == /\ session \in Seq(0 .. Audit) /\ run \in Places /\ archive \in Nat
              /\ OwnInOrder
              /\ SentByPlace
              /\ ArchiveLarge
              /\ run \in Restored => restored = archive

-----------------------------------------------------------------------------
LEMMA Numbers == OwnEvents \in Nat /\ OwnEvents >= 1 /\ Audit \in Nat /\ Audit = OwnEvents + 1
BY ArchiveAssumption DEF Audit

\* What was sent before, after one more message.
LEMMA SentAppends ==
    ASSUME session \in Seq(0 .. Audit), NEW m \in 0 .. Audit, session' = Append(session, m)
    PROVE  /\ session' \in Seq(0 .. Audit)
           /\ \A n : Sent(n)' <=> Sent(n) \/ n = m
<1>1. /\ session' \in Seq(0 .. Audit) /\ Len(session) \in Nat
      /\ Len(session') = Len(session) + 1 /\ session'[Len(session) + 1] = m
      /\ \A i \in 1 .. Len(session) : session'[i] = session[i]
      /\ DOMAIN session = 1 .. Len(session) /\ DOMAIN session' = 1 .. Len(session')
  OBVIOUS
<1>2. \A i \in DOMAIN session : i \in DOMAIN session'
  BY <1>1
<1>3. \A i \in DOMAIN session' : i \in DOMAIN session \/ i = Len(session) + 1
  BY <1>1
<1>4. Len(session) + 1 \in DOMAIN session'
  BY <1>1
<1> QED
  BY <1>1, <1>2, <1>3, <1>4 DEF Sent

\* An event of somebody else, or the next one of the run, keeps the order.
LEMMA OrderAppends ==
    ASSUME session \in Seq(0 .. Audit), OwnInOrder, NEW m \in 0 .. Audit,
           session' = Append(session, m),
           (\A j \in DOMAIN session : session[j] # 0) => m \in {0, Len(session) + 1}
    PROVE  OwnInOrder'
<1>1. /\ Len(session) \in Nat
      /\ Len(session') = Len(session) + 1 /\ session'[Len(session) + 1] = m
      /\ \A i \in 1 .. Len(session) : session'[i] = session[i]
      /\ DOMAIN session = 1 .. Len(session) /\ DOMAIN session' = 1 .. Len(session')
  OBVIOUS
<1> SUFFICES ASSUME NEW i \in DOMAIN session', \A j \in 1 .. i : session'[j] # 0
             PROVE  session'[i] = i
  BY DEF OwnInOrder
<1>2. CASE i \in DOMAIN session
  <2>1. \A j \in 1 .. i : j \in 1 .. Len(session)
    BY <1>1, <1>2
  <2>2. \A j \in 1 .. i : session[j] # 0
    BY <1>1, <2>1
  <2> QED
    BY <1>1, <1>2, <2>2 DEF OwnInOrder
<1>3. CASE i = Len(session) + 1
  <2>1. \A j \in DOMAIN session : j \in 1 .. i
    BY <1>1, <1>3
  <2>2. \A j \in DOMAIN session : session[j] # 0
    BY <1>1, <2>1
  <2>3. i \in 1 .. i
    BY <1>1, <1>3
  <2>4. m # 0
    BY <1>1, <1>3, <2>3
  <2> QED
    BY <1>1, <1>3, <2>2, <2>4
<1>4. i \in DOMAIN session \/ i = Len(session) + 1
  BY <1>1
<1> QED
  BY <1>2, <1>3, <1>4

\* A session of the run alone in which the events before n were sent has n - 1 of them.
LEMMA AloneLength ==
    ASSUME session \in Seq(0 .. Audit), OwnInOrder, \A j \in DOMAIN session : session[j] # 0,
           NEW n \in 1 .. Audit, \A k \in 1 .. n - 1 : Sent(k), ~Sent(n)
    PROVE  n = Len(session) + 1
<1>1. Len(session) \in Nat /\ DOMAIN session = 1 .. Len(session) /\ n \in Nat /\ n >= 1
  BY Numbers
<1>2. \A i \in DOMAIN session : session[i] = i
  <2> SUFFICES ASSUME NEW i \in DOMAIN session PROVE session[i] = i
    OBVIOUS
  <2>1. \A j \in 1 .. i : j \in DOMAIN session
    BY <1>1
  <2> QED
    BY <2>1 DEF OwnInOrder
<1>3. \A k : Sent(k) => k \in 1 .. Len(session)
  BY <1>1, <1>2 DEF Sent
<1>4. \A k \in 1 .. Len(session) : Sent(k)
  BY <1>1, <1>2 DEF Sent
<1>5. ~(n \in 1 .. Len(session))
  BY <1>4
<1>6. CASE n = 1
  <2>1. Len(session) < 1
    BY <1>1, <1>5, <1>6
  <2> QED
    BY <1>1, <1>6, <2>1
<1>7. CASE n > 1
  <2>1. n - 1 \in 1 .. n - 1
    BY <1>1, <1>7
  <2>2. n - 1 \in 1 .. Len(session)
    BY <1>3, <2>1
  <2> QED
    BY <1>1, <1>5, <2>2
<1> QED
  BY <1>1, <1>6, <1>7

\* The session stays, and with it what was sent.
LEMMA SameSession ==
    ASSUME session' = session
    PROVE  /\ \A n : Sent(n)' <=> Sent(n)
           /\ OwnInOrder' <=> OwnInOrder
BY DEF Sent, OwnInOrder

-----------------------------------------------------------------------------
LEMMA OthersKeeps ==
    ASSUME ArchiveInv, Others
    PROVE  ArchiveInv'
<1>1. /\ session \in Seq(0 .. Audit) /\ session' = Append(session, 0) /\ 0 \in 0 .. Audit
      /\ run' = run /\ archive' = archive /\ restored' = restored
  BY Numbers DEF ArchiveInv, Others
<1>2. session' \in Seq(0 .. Audit) /\ \A n : Sent(n)' <=> Sent(n) \/ n = 0
  BY <1>1, SentAppends
<1>3. OwnInOrder'
  BY <1>1, OrderAppends DEF ArchiveInv
<1>4. (Sent(Audit)' <=> Sent(Audit)) /\ \A n \in 1 .. OwnEvents : Sent(n) => Sent(n)'
  BY <1>2, Numbers
<1>5. SentByPlace'
  BY <1>1, <1>4 DEF ArchiveInv, SentByPlace, Audit
<1>6. ArchiveLarge'
  BY <1>1, <1>4 DEF ArchiveInv, ArchiveLarge, Audit
<1> QED
  BY <1>1, <1>2, <1>3, <1>5, <1>6 DEF ArchiveInv, Audit

LEMMA ActKeeps ==
    ASSUME ArchiveInv, Act
    PROVE  ArchiveInv'
<1>1. PICK n \in 1 .. OwnEvents :
          /\ OwnSent = 1 .. n - 1
          /\ session' = Append(session, n)
          /\ run' = IF n = OwnEvents THEN "waiting" ELSE "acting"
  BY DEF Act
<1>2. /\ session \in Seq(0 .. Audit) /\ run = "acting" /\ archive' = archive
      /\ n \in 0 .. Audit /\ n \in 1 .. Audit /\ n # Audit /\ n \in Nat
  BY Numbers DEF ArchiveInv, Act
<1>3. session' \in Seq(0 .. Audit) /\ \A k : Sent(k)' <=> Sent(k) \/ k = n
  BY <1>1, <1>2, SentAppends
<1>4. \A k \in 1 .. n - 1 : Sent(k)
  BY <1>1 DEF OwnSent
<1>5. ~Sent(n)
  <2>1. ~(n \in 1 .. n - 1)
    BY <1>2
  <2> QED
    BY <1>1, <1>2, <2>1 DEF OwnSent
<1>6. OwnInOrder'
  <2>1. ASSUME \A j \in DOMAIN session : session[j] # 0 PROVE n = Len(session) + 1
    BY <1>2, <1>4, <1>5, <2>1, AloneLength DEF ArchiveInv
  <2> QED
    BY <1>1, <1>2, <2>1, OrderAppends DEF ArchiveInv
<1>7. ~Sent(Audit)
  BY <1>2 DEF ArchiveInv, SentByPlace
<1>8. ~Sent(Audit)'
  BY <1>2, <1>3, <1>7 DEF Audit
<1>9. run' = "waiting" => \A k \in 1 .. OwnEvents : Sent(k)'
  <2> SUFFICES ASSUME n = OwnEvents, NEW k \in 1 .. OwnEvents PROVE Sent(k)'
    BY <1>1
  <2>1. k \in 1 .. n - 1 \/ k = n
    BY <1>2
  <2> QED
    BY <1>3, <1>4, <2>1
<1>10. run' \in {"waiting", "acting"}
  BY <1>1
<1>11. SentByPlace'
  BY <1>8, <1>9, <1>10 DEF SentByPlace, Acted, Audited, Audit
<1>12. ArchiveLarge'
  BY <1>8, <1>10 DEF ArchiveLarge, Sealed
<1> QED
  BY <1>2, <1>3, <1>6, <1>10, <1>11, <1>12 DEF ArchiveInv, Places, Restored, Audit

LEMMA WaitKeeps ==
    ASSUME ArchiveInv,
           \/ Wait("waiting", OwnEvents, "sealing")
           \/ Wait("confirming", Audit, "reconnecting")
           \/ Wait("reconnecting", Audit, "rereading")
    PROVE  ArchiveInv'
<1>1. session' = session /\ restored' = restored /\ session \in Seq(0 .. Audit)
  BY DEF ArchiveInv, Wait
<1>2. OwnInOrder' /\ (\A n : Sent(n)' <=> Sent(n))
  BY <1>1, SameSession DEF ArchiveInv
<1>3. run' # "sealing" => archive' = archive
  <2>1. CASE Wait("waiting", OwnEvents, "sealing")
    BY <2>1 DEF Wait
  <2>2. CASE Wait("confirming", Audit, "reconnecting")
    BY <2>2 DEF Wait
  <2>3. CASE Wait("reconnecting", Audit, "rereading")
    BY <2>3 DEF Wait
  <2> QED
    BY <2>1, <2>2, <2>3
<1>4. run' = "sealing" => run = "waiting" /\ archive' \in Nat /\ archive' >= OwnEvents
  <2>1. CASE Wait("waiting", OwnEvents, "sealing")
    <3>1. PICK listed \in 0 .. Len(session) :
              \/ Enough(listed, OwnEvents) /\ archive' = listed
              \/ run' # "sealing"
      BY <2>1 DEF Wait
    <3>2. Len(session) \in Nat
      BY <1>1
    <3> QED
      BY <2>1, <3>1, <3>2 DEF Enough, Wait
  <2>2. CASE Wait("confirming", Audit, "reconnecting")
    BY <2>2 DEF Wait
  <2>3. CASE Wait("reconnecting", Audit, "rereading")
    BY <2>3 DEF Wait
  <2> QED
    BY <2>1, <2>2, <2>3
<1>5. \/ run = "waiting" /\ run' \in {"waiting", "sealing", "failed"}
      \/ run = "confirming" /\ run' \in {"confirming", "reconnecting", "failed"}
      \/ run = "reconnecting" /\ run' \in {"reconnecting", "rereading", "failed"}
  BY DEF Wait
<1>6. SentByPlace'
  BY <1>2, <1>5 DEF ArchiveInv, SentByPlace, Acted, Audited, Audit
<1>7. ArchiveLarge'
  BY <1>2, <1>3, <1>4, <1>5 DEF ArchiveInv, ArchiveLarge, SentByPlace, Acted, Sealed, Audit
<1>8. run' \in Places /\ (run' \in Restored => restored' = archive')
  BY <1>1, <1>3, <1>5 DEF ArchiveInv, Places, Restored
<1>9. archive' \in Nat
  BY <1>3, <1>4 DEF ArchiveInv
<1> QED
  BY <1>1, <1>2, <1>6, <1>7, <1>8, <1>9 DEF ArchiveInv, Audit

\* Steps that send nothing and take no archive: where the run goes, and what it has
\* read back when it goes on from a read.
LEMMA MovesKeep ==
    ASSUME ArchiveInv, session' = session, archive' = archive,
           \/ run' \in {run, "failed"} /\ (run' = run => restored' = restored)
           \/ run = "sealing" /\ run' = "reading"
           \/ run = "reading" /\ run' = "auditing" /\ restored' = archive
           \/ run = "rereading" /\ run' = "done" /\ restored' = archive
    PROVE  ArchiveInv'
<1>1. OwnInOrder' /\ (\A n : Sent(n)' <=> Sent(n))
  BY SameSession DEF ArchiveInv
<1>2. SentByPlace'
  BY <1>1 DEF ArchiveInv, SentByPlace, Acted, Audited, Audit
<1>3. ArchiveLarge'
  BY <1>1 DEF ArchiveInv, ArchiveLarge, Sealed, Audit
<1>4. run' \in Places /\ (run' \in Restored => restored' = archive')
  BY DEF ArchiveInv, Places, Restored
<1> QED
  BY <1>1, <1>2, <1>3, <1>4 DEF ArchiveInv, Audit

LEMMA ReadKeeps ==
    ASSUME ArchiveInv, Read("reading", "auditing") \/ Read("rereading", "done")
    PROVE  ArchiveInv'
<1>1. session' = session /\ archive' = archive
  BY DEF Read, GetBytes, RetryRead
<1>2. ASSUME NEW here, NEW next, GetBytes(here, next)
      PROVE  run = here /\ (run' = "failed" \/ (run' = next /\ restored' = archive))
  BY <1>2 DEF GetBytes, Accept
<1>3. ASSUME NEW here, RetryRead(here)
      PROVE  run' \in {run, "failed"} /\ restored' = restored
  BY <1>3 DEF RetryRead
<1> QED
  BY <1>1, <1>2, <1>3, MovesKeep DEF Read

LEMMA SendAuditKeeps ==
    ASSUME ArchiveInv, SendAudit
    PROVE  ArchiveInv'
<1>1. /\ session \in Seq(0 .. Audit) /\ session' = Append(session, Audit) /\ Audit \in 0 .. Audit
      /\ Audit \in 1 .. Audit /\ run = "auditing" /\ run' = "confirming"
      /\ archive' = archive /\ restored' = restored
  BY Numbers DEF ArchiveInv, SendAudit
<1>2. session' \in Seq(0 .. Audit) /\ \A n : Sent(n)' <=> Sent(n) \/ n = Audit
  BY <1>1, SentAppends
<1>3. /\ \A n \in 1 .. OwnEvents : Sent(n)
      /\ ~Sent(Audit) /\ archive >= OwnEvents /\ restored = archive
  BY <1>1 DEF ArchiveInv, SentByPlace, ArchiveLarge, Acted, Sealed, Restored
<1>4. OwnInOrder'
  <2>1. ASSUME \A j \in DOMAIN session : session[j] # 0 PROVE Audit = Len(session) + 1
    <3>1. \A k \in 1 .. Audit - 1 : Sent(k)
      BY <1>3, Numbers
    <3> QED
      BY <1>1, <1>3, <2>1, <3>1, AloneLength DEF ArchiveInv
  <2> QED
    BY <1>1, <2>1, OrderAppends DEF ArchiveInv
<1>5. SentByPlace'
  BY <1>1, <1>2, <1>3 DEF SentByPlace, Acted, Audited, Audit
<1>6. ArchiveLarge'
  BY <1>1, <1>3 DEF ArchiveLarge
<1> QED
  BY <1>1, <1>2, <1>3, <1>4, <1>5, <1>6 DEF ArchiveInv, Places, Audit

LEMMA ArchiveStart == ArchiveInit => ArchiveInv
<1> SUFFICES ASSUME ArchiveInit PROVE ArchiveInv
  OBVIOUS
<1>1. session = << >> /\ run = "acting" /\ archive = 0
  BY DEF ArchiveInit
<1>2. session \in Seq(0 .. Audit) /\ OwnInOrder /\ \A n : ~Sent(n)
  BY <1>1 DEF OwnInOrder, Sent
<1> QED
  BY <1>1, <1>2
     DEF ArchiveInv, SentByPlace, ArchiveLarge, Places, Acted, Audited, Sealed, Restored

LEMMA ArchiveStep == ArchiveInv /\ [ArchiveNext]_archiveVars => ArchiveInv'
<1> SUFFICES ASSUME ArchiveInv, [ArchiveNext]_archiveVars PROVE ArchiveInv'
  OBVIOUS
<1>1. CASE Throw
  BY <1>1, MovesKeep DEF Throw
<1>2. CASE Seal
  BY <1>2, MovesKeep DEF Seal
<1>3. CASE Certified
  BY <1>3, MovesKeep DEF Certified
<1>4. CASE Spoil
  BY <1>4, MovesKeep DEF Spoil
<1>5. CASE UNCHANGED archiveVars
  BY <1>5, MovesKeep DEF archiveVars
<1> QED
  BY <1>1, <1>2, <1>3, <1>4, <1>5, OthersKeeps, ActKeeps, WaitKeeps, ReadKeeps, SendAuditKeeps
     DEF ArchiveNext, RunStep

-----------------------------------------------------------------------------
LEMMA ArchiveIsThere == ArchiveInv => AuditHasArchive
<1> SUFFICES ASSUME ArchiveInv PROVE AuditHasArchive
  OBVIOUS
<1>1. session \in Seq(0 .. Audit) /\ archive \in Nat
  BY DEF ArchiveInv
<1>2. ASSUME NEW i \in DOMAIN session, session[i] = Audit
      PROVE  /\ archive # Garbage
             /\ run \in {"confirming", "reconnecting"} => restored = archive
             /\ \A r \in 1 .. i :
                   session[r] = OwnEvents /\ 0 \notin Before(r) => r <= archive
  <2>1. archive >= OwnEvents
    BY <1>2 DEF ArchiveInv, ArchiveLarge, Sent
  <2>2. archive # Garbage
    BY <1>1, <2>1, Numbers DEF Garbage
  <2>3. run \in {"confirming", "reconnecting"} => restored = archive
    BY DEF ArchiveInv, Restored
  <2>4. ASSUME NEW r \in 1 .. i, session[r] = OwnEvents, 0 \notin Before(r)
        PROVE  r <= archive
    <3>1. r \in DOMAIN session
      BY <1>1
    <3>2. \A j \in 1 .. r : session[j] # 0
      BY <2>4 DEF Before
    <3>3. r = OwnEvents
      BY <2>4, <3>1, <3>2 DEF ArchiveInv, OwnInOrder
    <3> QED
      BY <2>1, <3>3
  <2> QED
    BY <2>2, <2>3, <2>4
<1>3. run = "done" => restored = archive
  BY DEF ArchiveInv, Restored
<1>4. run = "done" => 1 .. Audit \subseteq OwnSent
  <2>1. \A n \in 1 .. Audit : n \in 1 .. OwnEvents \/ n = Audit
    BY Numbers
  <2> QED
    BY <2>1 DEF ArchiveInv, SentByPlace, Audited, OwnSent
<1> QED
  BY <1>2, <1>3, <1>4 DEF AuditHasArchive

(***************************************************************************)
(* sealManagedWalrusArchive and the audit of full-business-live.ts: for    *)
(* any length of the action and any numbers of retries, an audit event     *)
(* refers to an archive that was read back as it was stored and holds the  *)
(* receipt, unless others wrote before the receipt; and the run that is    *)
(* done has read the archive again and sent all its events.                *)
(***************************************************************************)
THEOREM AuditsHaveArchives == ArchiveSpec => []AuditHasArchive
<1> QED
  BY ArchiveIsThere, ArchiveStart, ArchiveStep, PTL DEF ArchiveSpec

-----------------------------------------------------------------------------
\* What the types of the run say beyond ArchiveInv.  Attempts are counted from 0 at
\* each wait and each read, and the run fails at the last one.
Unattempted == {"acting", "sealing", "auditing"}
Waiting == {"waiting", "confirming", "reconnecting"}
Reading == {"reading", "rereading"}

Counts == /\ tried \in 0 .. MaxPolls + ReadAttempts
          /\ run \in Unattempted => tried = 0
          /\ run \in Waiting => tried < MaxPolls
          /\ run \in Reading => tried < ReadAttempts

Messages == 0 .. Len(session)
Kept == /\ archive \in Messages /\ restored \in Messages
        /\ blob \in [there : BOOLEAN, holds : Messages]

Tidy == provider \in Providers /\ Counts /\ Kept

LEMMA ArchiveTypesFollow == ArchiveInv /\ Tidy => ArchiveTypeOK
  BY DEF ArchiveInv, Tidy, Counts, Kept, Messages, ArchiveTypeOK

\* What was stored and read is still of the session when the session has grown.
LEMMA MessagesGrow ==
    ASSUME session \in Seq(0 .. Audit), NEW m \in 0 .. Audit, session' = Append(session, m)
    PROVE  Messages \subseteq Messages'
<1>1. Len(session) \in Nat /\ Len(session') = Len(session) + 1
  OBVIOUS
<1> QED
  BY <1>1 DEF Messages

LEMMA KeptGrows ==
    ASSUME Kept, Messages \subseteq Messages',
           archive' = archive, restored' = restored, blob' = blob
    PROVE  Kept'
<1>1. /\ blob \in [there : BOOLEAN, holds : Messages]
      /\ archive \in Messages' /\ restored \in Messages'
  BY DEF Kept
<1>2. blob \in [there : BOOLEAN, holds : Messages']
  BY <1>1
<1> QED
  BY <1>1, <1>2 DEF Kept

LEMMA TidyStep == ArchiveInv /\ Tidy /\ [ArchiveNext]_archiveVars => Tidy'
<1> SUFFICES ASSUME ArchiveInv, Tidy, [ArchiveNext]_archiveVars PROVE Tidy'
  OBVIOUS
<1>1. /\ session \in Seq(0 .. Audit) /\ Len(session) \in Nat
      /\ MaxPolls \in Nat \ {0} /\ ReadAttempts \in Nat \ {0}
      /\ 0 \in 0 .. Audit /\ Audit \in 0 .. Audit
      /\ \A n \in 1 .. OwnEvents : n \in 0 .. Audit
  BY Numbers, ArchiveAssumption DEF ArchiveInv
<1>2. /\ provider \in Providers /\ Counts /\ Kept /\ tried \in Nat
      /\ archive \in Messages /\ restored \in Messages
      /\ blob \in [there : BOOLEAN, holds : Messages]
      /\ 0 \in Messages
  BY <1>1 DEF Tidy, Counts, Kept, Messages
<1>3. session' = session => Messages' = Messages
  BY DEF Messages
<1>4. CASE UNCHANGED archiveVars
  BY <1>2, <1>3, <1>4 DEF archiveVars, Tidy, Counts, Kept
<1>5. CASE Others
  <2>1. /\ session' = Append(session, 0) /\ provider' = provider /\ run' = run /\ tried' = tried
        /\ archive' = archive /\ blob' = blob /\ restored' = restored
    BY <1>5 DEF Others
  <2>2. Kept'
    BY <1>1, <1>2, <2>1, MessagesGrow, KeptGrows
  <2> QED
    BY <1>2, <2>1, <2>2 DEF Tidy, Counts
<1>6. CASE Act
  <2>1. PICK n \in 1 .. OwnEvents :
           session' = Append(session, n) /\ run' = IF n = OwnEvents THEN "waiting" ELSE "acting"
    BY <1>6 DEF Act
  <2>2. /\ run = "acting" /\ provider' = provider /\ tried' = tried
        /\ archive' = archive /\ blob' = blob /\ restored' = restored
    BY <1>6 DEF Act
  <2>3. Kept'
    BY <1>1, <1>2, <2>1, <2>2, MessagesGrow, KeptGrows
  <2>4. tried' = 0 /\ run' \in {"waiting", "acting"}
    BY <1>2, <2>1, <2>2 DEF Counts, Unattempted
  <2>5. Counts'
    BY <1>1, <2>4 DEF Counts, Unattempted, Waiting, Reading
  <2> QED
    BY <1>2, <2>2, <2>3, <2>5 DEF Tidy
<1>7. CASE SendAudit
  <2>1. /\ session' = Append(session, Audit) /\ run = "auditing" /\ run' = "confirming"
        /\ provider' = provider /\ tried' = tried
        /\ archive' = archive /\ blob' = blob /\ restored' = restored
    BY <1>7 DEF SendAudit
  <2>2. Kept'
    BY <1>1, <1>2, <2>1, MessagesGrow, KeptGrows
  <2>3. tried' = 0
    BY <1>2, <2>1 DEF Counts, Unattempted
  <2>4. Counts'
    BY <1>1, <2>1, <2>3 DEF Counts, Unattempted, Waiting, Reading
  <2> QED
    BY <1>2, <2>1, <2>2, <2>4 DEF Tidy
<1>8. CASE Throw
  <2>1. run' = "failed" /\ UNCHANGED <<provider, session, tried, archive, blob, restored>>
    BY <1>8 DEF Throw
  <2>2. Counts' /\ Kept'
    BY <1>2, <1>3, <2>1 DEF Counts, Unattempted, Waiting, Reading, Kept
  <2> QED
    BY <1>2, <2>1, <2>2 DEF Tidy
<1>9. CASE Seal
  <2>1. /\ run = "sealing" /\ run' = "reading" /\ tried' = tried
        /\ UNCHANGED <<provider, session, archive, restored>>
    BY <1>9 DEF Seal
  <2>2. \E there \in BOOLEAN : blob' = [there |-> there, holds |-> archive]
    BY <1>9 DEF Seal, Published, KeptLocally
  <2>3. Kept'
    BY <1>2, <1>3, <2>1, <2>2 DEF Kept
  <2>4. tried' = 0
    BY <1>2, <2>1 DEF Counts, Unattempted
  <2>5. Counts'
    BY <1>1, <2>1, <2>4 DEF Counts, Unattempted, Waiting, Reading
  <2> QED
    BY <1>2, <2>1, <2>3, <2>5 DEF Tidy
<1>10. CASE Certified \/ Spoil
  <2>1. UNCHANGED <<provider, session, run, tried, archive, restored>>
    BY <1>10 DEF Certified, Spoil
  <2>2. blob' \in {[blob EXCEPT !.there = TRUE], [blob EXCEPT !.holds = Garbage]}
    BY <1>10 DEF Certified, Spoil
  <2>3. blob' \in [there : BOOLEAN, holds : Messages]
    BY <1>2, <2>2 DEF Garbage
  <2>4. Counts' /\ Kept'
    BY <1>2, <1>3, <2>1, <2>3 DEF Counts, Kept
  <2> QED
    BY <1>2, <2>1, <2>4 DEF Tidy
<1>11. ASSUME NEW here \in Waiting, NEW count, NEW next \in {"sealing", "reconnecting", "rereading"},
              Wait(here, count, next)
       PROVE  Tidy'
  <2>1. /\ run = here /\ UNCHANGED <<provider, session, blob, restored>>
    BY <1>11 DEF Wait
  <2>2. PICK listed \in 0 .. Len(session) :
           \/ /\ run' = next /\ tried' = 0
              /\ archive' = IF here = "waiting" THEN listed ELSE archive
           \/ /\ tried' = tried + 1
              /\ run' = IF tried' = MaxPolls THEN "failed" ELSE here
              /\ archive' = archive
    BY <1>11 DEF Wait, Attempts
  <2>3. archive' \in Messages
    BY <1>2, <2>2 DEF Messages
  <2>4. Kept'
    BY <1>2, <1>3, <2>1, <2>3 DEF Kept
  <2>5. tried < MaxPolls
    BY <1>2, <1>11, <2>1 DEF Counts
  <2>6. Counts'
    <3>1. CASE run' = next /\ tried' = 0
      BY <1>1, <3>1 DEF Counts, Unattempted, Waiting, Reading
    <3>2. CASE tried' = tried + 1 /\ run' = IF tried' = MaxPolls THEN "failed" ELSE here
      BY <1>1, <1>2, <2>5, <3>2 DEF Counts, Unattempted, Waiting, Reading
    <3> QED
      BY <2>2, <3>1, <3>2
  <2> QED
    BY <1>2, <2>1, <2>4, <2>6 DEF Tidy
<1>12. ASSUME NEW here \in Reading, NEW next \in {"auditing", "done"}, Read(here, next)
       PROVE  Tidy'
  <2>1. CASE GetBytes(here, next)
    <3>1. /\ tried' = 0 /\ UNCHANGED <<provider, session, archive, blob>>
          /\ \E bytes \in {blob.holds, Garbage} :
                restored' = bytes /\ run' \in {next, "failed"}
      BY <2>1 DEF GetBytes
    <3>2. blob.holds \in Messages /\ Garbage \in Messages
      BY <1>2 DEF Garbage
    <3>3. Kept'
      BY <1>2, <1>3, <3>1, <3>2 DEF Kept
    <3>4. Counts'
      BY <1>1, <3>1 DEF Counts, Unattempted, Waiting, Reading
    <3> QED
      BY <1>2, <3>1, <3>3, <3>4 DEF Tidy
  <2>2. CASE RetryRead(here)
    <3>1. /\ run = here /\ tried' = tried + 1
          /\ run' = IF tried' = ReadAttempts THEN "failed" ELSE here
          /\ UNCHANGED <<provider, session, archive, blob, restored>>
      BY <2>2 DEF RetryRead, Attempts
    <3>2. tried < ReadAttempts
      BY <1>2, <1>12, <3>1 DEF Counts
    <3>3. Counts'
      BY <1>1, <1>2, <3>1, <3>2 DEF Counts, Unattempted, Waiting, Reading
    <3>4. Kept'
      BY <1>2, <1>3, <3>1 DEF Kept
    <3> QED
      BY <1>2, <3>1, <3>3, <3>4 DEF Tidy
  <2> QED
    BY <1>12, <2>1, <2>2 DEF Read
<1>13. CASE RunStep
  BY <1>6, <1>7, <1>9, <1>11, <1>12, <1>13 DEF RunStep, Waiting, Reading
<1> QED
  BY <1>4, <1>5, <1>8, <1>10, <1>13 DEF ArchiveNext

LEMMA TidyStart == ArchiveInit => Tidy
<1> SUFFICES ASSUME ArchiveInit PROVE Tidy
  OBVIOUS
<1>1. /\ provider \in Providers /\ session = << >> /\ run = "acting" /\ tried = 0
      /\ archive = 0 /\ blob = NoBlob /\ restored = Garbage
  BY DEF ArchiveInit
<1>2. 0 \in Messages
  BY <1>1 DEF Messages
<1>3. Kept
  BY <1>1, <1>2 DEF Kept, NoBlob, Garbage
<1>4. Counts
  BY <1>1, ArchiveAssumption DEF Counts, Unattempted, Waiting, Reading
<1> QED
  BY <1>1, <1>3, <1>4 DEF Tidy

(***************************************************************************)
(* full-business-live.ts: no wait and no read is tried more often than the *)
(* deadline and the number of attempts allow, and what is archived, kept   *)
(* and read back never has more messages than the session.                 *)
(***************************************************************************)
THEOREM ArchiveTypeCorrect == ArchiveSpec => []ArchiveTypeOK
<1>1. ArchiveInit => ArchiveInv /\ Tidy
  BY ArchiveStart, TidyStart
<1>2. ArchiveInv /\ Tidy /\ [ArchiveNext]_archiveVars => (ArchiveInv /\ Tidy)'
  BY ArchiveStep, TidyStep
<1> QED
  BY <1>1, <1>2, ArchiveTypesFollow, PTL DEF ArchiveSpec
=============================================================================
