----------------------------- MODULE Ingest_proofs -----------------------------
(***************************************************************************)
(* Proofs about Ingest, for any feed, any nodes and prefixes, and any size *)
(* of the pages: a credit is earned, no packet on a page is passed over,   *)
(* and the rows count every packet once.                                   *)
(***************************************************************************)
EXTENDS Ingest, FiniteSetTheorems, WellFoundedInduction, TLAPS

-------------------------------------------------------------------------------
(***************************************************************************)
(* The least and the greatest of some ids.                                 *)
(***************************************************************************)
LEMMA LeastExists ==
    ASSUME NEW S, S \subseteq Nat, S # {}
    PROVE  Min(S) \in S /\ \A y \in S : Min(S) <= y
<1> DEFINE R == OpToRel(<, Nat)
<1>1. IsWellFoundedOn(R, Nat)
  BY NatLessThanWellFounded
<1>2. \A x, y \in Nat : x < y => <<x, y>> \in R
  BY DEF OpToRel
<1> HIDE DEF R
<1>3. PICK x \in S : \A y \in S : ~ (<<y, x>> \in R)
  BY <1>1, WFMin
<1>4. ASSUME NEW y \in S PROVE x <= y
  <2>1. x \in Nat /\ y \in Nat
    OBVIOUS
  <2>2. ~(y < x)
    BY <1>2, <1>3, <2>1
  <2> QED
    BY <2>1, <2>2
<1> QED
  BY <1>4 DEF Min

LEMMA GreatestExists ==
    ASSUME NEW n \in Nat, NEW S, S \subseteq 0..n, S # {}
    PROVE  Max(S) \in S /\ \A y \in S : Max(S) >= y
<1> DEFINE T == {n - x : x \in S}
<1>1. \A x \in S : n - x \in Nat
  OBVIOUS
<1>2. T \subseteq Nat /\ T # {}
  BY <1>1
<1>3. \A x \in S : n - x \in T
  OBVIOUS
<1>4. \A y \in T : \E x \in S : y = n - x
  OBVIOUS
<1> HIDE DEF T
<1>5. Min(T) \in T /\ \A y \in T : Min(T) <= y
  BY <1>2, LeastExists
<1>6. PICK m \in S : Min(T) = n - m
  BY <1>4, <1>5
<1>7. \A y \in S : m >= y
  BY <1>1, <1>3, <1>5, <1>6
<1> QED
  BY <1>7 DEF Max

-------------------------------------------------------------------------------
(***************************************************************************)
(* Attribution.                                                            *)
(***************************************************************************)
\* If whoever wrote the hop is listed, nobody else is found for it.
LEMMA LookupFindsTheWriter ==
    ASSUME NEW hop \in Hop, NEW listed \in SUBSET Nodes, hop.by \in listed,
           NEW n \in Lookup(hop, listed)
    PROVE  n = hop.by /\ hop.wide
<1> DEFINE owners == {m \in listed : Prefix[m] = Prefix[hop.by]}
<1>1. hop.wide /\ Cardinality(owners) = 1 /\ n \in owners
  BY DEF Lookup
<1>2. hop.by \in owners
  OBVIOUS
<1>3. IsFiniteSet(owners)
  BY Feed, FS_Subset
<1> HIDE DEF owners
<1>4. \E x : owners = {x}
  BY <1>1, <1>3, FS_Singleton
<1> QED
  BY <1>1, <1>2, <1>4

LEMMA HitsAreEarned ==
    ASSUME NEW p \in Packet, NEW listed \in SUBSET Nodes, AllListed(p, listed),
           NEW s \in Hits(p, listed)
    PROVE  Did(p, s)
<1>1. CASE s.dir = "sent"
  <2>1. PICK n \in (IF p.kind = "advert" THEN p.from ELSE {}) :
           s = [key |-> n, kind |-> p.kind, dir |-> "sent"]
    BY <1>1 DEF Hits
  <2> QED
    BY <2>1 DEF Did
<1>2. CASE s.dir # "sent"
  <2>1. PICK n : /\ n \in (IF PathIsHistory(p) THEN UNION {Lookup(h, listed) : h \in p.hops} ELSE {})
                 /\ s = [key |-> n, kind |-> p.kind, dir |-> "carried"]
    BY <1>2 DEF Hits
  <2>2. PathIsHistory(p)
    BY <2>1
  <2>3. PICK h \in p.hops : n \in Lookup(h, listed)
    BY <2>1
  <2>4. h \in Hop /\ h.by \in listed
    BY <2>3 DEF Packet, AllListed
  <2>5. n = h.by /\ h.wide
    BY <2>3, <2>4, LookupFindsTheWriter
  <2>6. h = [by |-> n, wide |-> TRUE]
    BY <2>4, <2>5 DEF Hop
  <2> QED
    BY <1>2, <2>1, <2>2, <2>3, <2>6 DEF Did
<1> QED
  BY <1>1, <1>2

LEMMA CreditsAreEarned ==
    ASSUME NEW ids, ids \subseteq Ids, NEW listed \in SUBSET Nodes, NEW c \in CreditsOf(ids, listed),
           c.listed
    PROVE  Did(Packets[c.id], c.slot)
<1>1. PICK id \in ids : \E s \in Hits(Packets[id], listed) :
         c = [id |-> id, slot |-> s, listed |-> AllListed(Packets[id], listed)]
  BY DEF CreditsOf
<1>2. PICK s \in Hits(Packets[id], listed) :
         c = [id |-> id, slot |-> s, listed |-> AllListed(Packets[id], listed)]
  BY <1>1
<1>3. Packets[id] \in Packet
  BY Feed DEF Ids
<1> QED
  BY <1>2, <1>3, HitsAreEarned

-------------------------------------------------------------------------------
(***************************************************************************)
(* The inductive invariant.  The range that the cursor claims has holes;   *)
(* what counts is that what the next page can hold is not in one: anything *)
(* at all before the backfill, and then the newest PageLimit packets.  A   *)
(* page in hand is older than the newest packet may be by now, and holds   *)
(* everything that was newest at its time.  After a backfill that held     *)
(* fewer packets than a page (shallow) none of this is claimed.            *)
(***************************************************************************)
NothingHidden(ids) == \A id \in ids : Packets[id].at > 0 /\ SeenBefore(id) => id \in counted

Ending(m, n) == {id \in 1..m : id > m - n}

Reach == IF Backfilling THEN 1..newest ELSE Ending(newest, PageLimit)

Claims == /\ newest \in Nat /\ cursor.high <= newest
          /\ ~shallow => NothingHidden(Reach)

PageIs(m, n) ==
    /\ page = {Ending(m, n)} /\ cursor.high <= m
    /\ ~Backfilling => n = PageLimit
    /\ ~shallow => NothingHidden(Ending(m, n))

PageIsLatest == page # {} => \E m \in 0..newest, n \in Nat : PageIs(m, n)

IInv == TypeOK /\ Claims /\ PageIsLatest /\ NothingIsPassedOver /\ CreditIsEarned

LEMMA IdsAre == Ids = 1..Len(Packets) /\ Len(Packets) \in Nat
  BY Feed DEF Ids

\* What is said of the cursor and the page is said of these variables only.
LEMMA SameClaims ==
    ASSUME UNCHANGED <<cursor, counted>>
    PROVE  /\ Backfilling' = Backfilling
           /\ \A ids : NothingHidden(ids)' = NothingHidden(ids)
<1>1. Backfilling' = Backfilling /\ \A id : SeenBefore(id)' = SeenBefore(id)
  BY DEF Backfilling, SeenBefore, LowKnown
<1> QED
  BY <1>1 DEF NothingHidden

\* A page of n packets is no more than n packets.
LEMMA EndingSize ==
    ASSUME NEW m \in Nat, NEW n \in Nat
    PROVE  Cardinality(Ending(m, n)) \in Nat /\ Cardinality(Ending(m, n)) <= n
<1>1. CASE n <= m
  <2>1. Ending(m, n) = (m - n + 1)..m
    BY <1>1 DEF Ending
  <2>2. m - n + 1 \in Int /\ m \in Int
    OBVIOUS
  <2>3. Cardinality((m - n + 1)..m) = IF m - n + 1 > m THEN 0 ELSE m - (m - n + 1) + 1
    BY <2>2, FS_Interval
  <2> QED
    BY <1>1, <2>1, <2>3
<1>2. CASE n > m
  <2>1. Ending(m, n) = 1..m
    BY <1>2 DEF Ending
  <2>2. 1 \in Int /\ m \in Int
    OBVIOUS
  <2>3. Cardinality(1..m) = IF 1 > m THEN 0 ELSE m - 1 + 1
    BY <2>2, FS_Interval
  <2> QED
    BY <1>2, <2>1, <2>3
<1> QED
  BY <1>1, <1>2

LEMMA InitIInv == Init => IInv
<1> SUFFICES ASSUME Init PROVE IInv
  OBVIOUS
<1>1. /\ newest \in {0} \union Ids /\ newest \in Nat /\ Ids \subseteq Nat
      /\ cursor.low \in {0, newest} /\ cursor.high \in {0, newest}
      /\ cursor.low \in Nat /\ cursor.high \in Nat /\ cursor.low <= cursor.high
      /\ cursor \in [low : {0} \union Ids, high : {0} \union Ids, backfilled : BOOLEAN]
  <2>1. newest \in {0} \union Ids /\ cursor.low <= cursor.high
    BY DEF Init
  <2>2. cursor \in [low : {0, newest}, high : {0, newest}, backfilled : {FALSE}]
    BY DEF Init
  <2>3. cursor.low \in {0, newest} /\ cursor.high \in {0, newest} /\ cursor.backfilled \in BOOLEAN
    BY <2>2
  <2>4. Ids \subseteq Nat
    BY IdsAre
  <2>5. {0, newest} \subseteq {0} \union Ids /\ {0, newest} \subseteq Nat
    BY <2>1, <2>4
  <2>6. cursor \in [low : {0} \union Ids, high : {0} \union Ids, backfilled : BOOLEAN]
    BY <2>2, <2>5
  <2> QED
    BY <2>1, <2>3, <2>4, <2>5, <2>6
<1>2. /\ old \subseteq 1..newest /\ 1..newest \subseteq Ids /\ counted = old
      /\ page = {} /\ view = {} /\ skipped = {} /\ shallow = FALSE
      /\ credits = CreditsOf(old, Nodes) /\ activity = Rows(credits)
  BY <1>1, IdsAre DEF Init
<1>3. TypeOK
  <2>1. DOMAIN activity = {c.slot : c \in credits}
    BY <1>2 DEF Rows
  <2> QED
    BY <1>1, <1>2, <2>1 DEF TypeOK
<1>4. ASSUME NEW id \in 1..newest, SeenBefore(id) PROVE id \in counted
  <2>1. cursor.high = newest /\ newest > 0
    BY <1>1, <1>4 DEF SeenBefore
  <2>2. LowKnown = newest
    BY <1>1, <2>1 DEF LowKnown
  <2>3. id = newest
    BY <1>1, <1>4, <2>2 DEF SeenBefore
  <2>4. PICK first \in 1..newest : old = {x \in first..newest : Packets[x].at > 0}
    BY <2>1 DEF Init
  <2>5. Packets[newest].at > 0
    BY <2>1 DEF Init
  <2> QED
    BY <1>1, <1>2, <2>1, <2>3, <2>4, <2>5
<1>5. Claims /\ PageIsLatest /\ NothingIsPassedOver
  <2>1. Reach \subseteq 1..newest
    BY DEF Reach, Ending
  <2> QED
    BY <1>1, <1>2, <1>4, <2>1 DEF Claims, PageIsLatest, NothingIsPassedOver, NothingHidden
<1>6. CreditIsEarned
  <2>1. old \subseteq Ids /\ Nodes \in SUBSET Nodes
    BY <1>2
  <2>2. ASSUME NEW c \in CreditsOf(old, Nodes), c.listed PROVE Did(Packets[c.id], c.slot)
    BY <2>1, <2>2, CreditsAreEarned
  <2> QED
    BY <1>2, <2>2 DEF CreditIsEarned
<1> QED
  BY <1>3, <1>5, <1>6 DEF IInv

LEMMA ArrivesStep == ASSUME IInv, Arrives PROVE IInv'
<1>1. newest + 1 \in Ids /\ newest' = newest + 1 /\ newest \in Nat
      /\ UNCHANGED <<cursor, activity, page, view, old, counted, skipped, credits, shallow>>
  BY DEF Arrives, held, history, IInv, Claims
<1>2. cursor.high <= newest /\ cursor.high \in Nat
  BY IdsAre DEF IInv, Claims, TypeOK
<1>3. TypeOK'
  BY <1>1 DEF IInv, TypeOK
<1>4. Backfilling' = Backfilling /\ \A ids : NothingHidden(ids)' = NothingHidden(ids)
  BY <1>1, SameClaims
<1>5. Claims'
  <2>1. ASSUME ~shallow, NEW id \in Reach', Packets[id].at > 0, SeenBefore(id)
        PROVE  id \in counted
    <3>1. id <= newest /\ id \in 1..newest'
      BY <1>1, <1>2, <2>1 DEF SeenBefore, Reach, Ending
    <3>2. id \in Reach
      BY <1>1, <1>4, <2>1, <3>1, Feed DEF Reach, Ending
    <3> QED
      BY <2>1, <3>2 DEF IInv, Claims, NothingHidden
  <2>2. newest' \in Nat /\ cursor'.high <= newest'
    BY <1>1, <1>2
  <2>3. ~shallow => NothingHidden(Reach')
    BY <2>1 DEF NothingHidden
  <2>4. ~shallow' => NothingHidden(Reach)'
    BY <1>1, <2>3, SameClaims DEF NothingHidden, SeenBefore, LowKnown
  <2> QED
    BY <2>2, <2>4 DEF Claims
<1>6. PageIsLatest'
  <2> SUFFICES ASSUME page # {}
               PROVE  \E m \in 0..newest', n \in Nat : PageIs(m, n)'
    BY <1>1 DEF PageIsLatest
  <2>1. PICK m \in 0..newest, n \in Nat : PageIs(m, n)
    BY DEF IInv, PageIsLatest
  <2>2. m \in 0..newest'
    BY <1>1
  <2>3. PageIs(m, n)'
    BY <1>1, <1>4, <2>1 DEF PageIs, NothingHidden, SeenBefore, LowKnown
  <2> QED
    BY <2>2, <2>3
<1>7. NothingIsPassedOver' /\ CreditIsEarned'
  BY <1>1 DEF IInv, NothingIsPassedOver, CreditIsEarned
<1> QED
  BY <1>3, <1>5, <1>6, <1>7 DEF IInv

LEMMA FetchStep == ASSUME IInv, NEW listed \in Views, FetchPackets(listed) PROVE IInv'
<1>1. PICK n \in PageSizes :
        /\ page' = {Latest(n)} /\ view' = listed
        /\ UNCHANGED <<newest, cursor, activity, old, counted, skipped, credits, shallow>>
  BY DEF FetchPackets, history
<1>2. 1..newest \subseteq Ids /\ listed \subseteq Nodes /\ newest \in Nat /\ cursor.high <= newest
  BY IdsAre, Feed DEF IInv, TypeOK, Claims
<1>3. n \in Nat /\ (~Backfilling => n = PageLimit)
  BY Feed DEF PageSizes
<1>4. Latest(n) = Ending(newest, n) /\ Latest(n) \subseteq 1..newest
  BY DEF Latest, Ending
<1>5. TypeOK'
  BY <1>1, <1>2, <1>4 DEF IInv, TypeOK
<1>6. Claims'
  BY <1>1 DEF IInv, Claims, NothingHidden, Reach, Backfilling, SeenBefore, LowKnown
<1>7. PageIsLatest'
  <2>1. ~shallow => NothingHidden(Ending(newest, n))
    <3>1. Ending(newest, n) \subseteq Reach
      BY <1>3 DEF Reach, Ending
    <3> QED
      BY <3>1 DEF IInv, Claims, NothingHidden
  <2>2. PICK m \in 0..newest : m = newest
    BY <1>2
  <2>3. PageIs(m, n)'
    BY <1>1, <1>2, <1>3, <1>4, <2>1, <2>2
       DEF PageIs, NothingHidden, Backfilling, SeenBefore, LowKnown, Ending
  <2>4. m \in 0..newest' /\ n \in Nat
    BY <1>1, <1>2, <1>3
  <2>5. \E k \in 0..newest', j \in Nat : PageIs(k, j)'
    BY <2>3, <2>4
  <2> QED
    BY <2>5 DEF PageIsLatest
<1>8. NothingIsPassedOver' /\ CreditIsEarned'
  BY <1>1 DEF IInv, NothingIsPassedOver, CreditIsEarned
<1> QED
  BY <1>5, <1>6, <1>7, <1>8 DEF IInv

LEMMA FailsStep == ASSUME IInv, Fails PROVE IInv'
<1>1. page' = {} /\ view' = {}
      /\ UNCHANGED <<newest, cursor, activity, old, counted, skipped, credits, shallow>>
  BY DEF Fails, Ended, history
<1>2. TypeOK' /\ PageIsLatest'
  BY <1>1 DEF IInv, TypeOK, PageIsLatest
<1>3. Claims'
  BY <1>1 DEF IInv, Claims, NothingHidden, Reach, Backfilling, SeenBefore, LowKnown
<1>4. NothingIsPassedOver' /\ CreditIsEarned'
  BY <1>1 DEF IInv, NothingIsPassedOver, CreditIsEarned
<1> QED
  BY <1>2, <1>3, <1>4 DEF IInv

\* What was on the page when an ingest ends.
LEMMA PageInHand ==
    ASSUME IInv, page # {}
    PROVE  \E m \in 0..newest, n \in Nat :
              /\ UNION page = Ending(m, n) /\ Ending(m, n) \subseteq Ids
              /\ Timed = {id \in Ending(m, n) : Packets[id].at > 0}
              /\ cursor.high <= m /\ (~Backfilling => n = PageLimit)
              /\ ~shallow => \A id \in Timed : id \in Fresh \/ id \in counted
<1>1. PICK m \in 0..newest, n \in Nat : PageIs(m, n)
  BY DEF IInv, PageIsLatest
<1>2. UNION page = Ending(m, n)
  BY <1>1 DEF PageIs
<1>3. Ending(m, n) \subseteq Ids
  BY <1>1 DEF IInv, TypeOK, PageIs
<1>4. Timed = {id \in Ending(m, n) : Packets[id].at > 0}
  BY <1>2 DEF Timed
<1>5. ~shallow => \A id \in Timed : id \in Fresh \/ id \in counted
  BY <1>1, <1>4 DEF Fresh, NothingHidden, PageIs
<1> QED
  BY <1>1, <1>2, <1>3, <1>4, <1>5 DEF PageIs

LEMMA NothingNewStep == ASSUME IInv, NothingNew PROVE IInv'
<1>1. /\ page # {} /\ page' = {} /\ view' = {} /\ counted' = counted \union Fresh
      /\ skipped' = skipped \union (Timed \ counted')
      /\ UNCHANGED <<newest, cursor, activity, old, credits, shallow>>
  BY DEF NothingNew, Ended
<1>2. PICK m \in 0..newest, n \in Nat :
          /\ UNION page = Ending(m, n) /\ Ending(m, n) \subseteq Ids
          /\ Timed = {id \in Ending(m, n) : Packets[id].at > 0}
          /\ cursor.high <= m /\ (~Backfilling => n = PageLimit)
          /\ ~shallow => \A id \in Timed : id \in Fresh \/ id \in counted
  BY <1>1, PageInHand
<1>3. counted' \subseteq Ids /\ counted \subseteq counted' /\ (~shallow => Timed \subseteq counted')
  BY <1>1, <1>2 DEF Fresh, IInv, TypeOK
<1>4. TypeOK'
  BY <1>1, <1>3 DEF IInv, TypeOK
<1>5. Claims' /\ PageIsLatest'
  BY <1>1, <1>3
     DEF IInv, Claims, NothingHidden, PageIsLatest, Reach, Backfilling, SeenBefore, LowKnown
<1>6. NothingIsPassedOver' /\ CreditIsEarned'
  BY <1>1, <1>3 DEF IInv, NothingIsPassedOver, CreditIsEarned
<1> QED
  BY <1>4, <1>5, <1>6 DEF IInv

\* The range the cursor claims next has ids of packets for its ends, each of
\* the page or the one it had.
LEMMA WidenedType ==
    ASSUME IInv, NEW m \in 0..newest, Timed \subseteq 1..m, Timed \subseteq Ids, cursor.high <= m
    PROVE  /\ Widened \in [low : {0} \union Ids, high : {0} \union Ids, backfilled : BOOLEAN]
           /\ Widened.low <= Widened.high /\ Widened.high <= m
           /\ Widened.low = 0 => cursor.low = 0 /\ Timed = {}
           /\ Widened.low # 0 => Widened.low \in Timed \union {cursor.low}
           /\ Widened.high \in Timed \union {cursor.high}
<1> DEFINE highs == {cursor.high} \union Timed
           lows  == Timed \union ({cursor.low} \ {0})
<1>1. /\ cursor.high \in {0} \union Ids /\ cursor.low \in {0} \union Ids /\ Ids \subseteq Nat
      /\ cursor.low <= cursor.high /\ m \in Nat /\ newest \in Nat
      /\ cursor.high \in Nat /\ cursor.low \in Nat
  <2>1. /\ cursor.high \in {0} \union Ids /\ cursor.low \in {0} \union Ids
        /\ cursor.low <= cursor.high /\ newest \in Nat
    BY DEF IInv, TypeOK, Claims
  <2>2. Ids \subseteq Nat /\ {0} \union Ids \subseteq Nat
    BY IdsAre
  <2>3. cursor.high \in Nat /\ cursor.low \in Nat
    BY <2>1, <2>2
  <2>4. m \in Nat
    BY <2>1
  <2> QED
    BY <2>1, <2>2, <2>3, <2>4
<1>2. highs \subseteq 0..m /\ highs # {} /\ highs \subseteq {0} \union Ids
  <2>1. cursor.high \in 0..m
    BY <1>1
  <2>2. Timed \subseteq 0..m
    BY <1>1
  <2> QED
    BY <1>1, <2>1, <2>2
<1>3. lows \subseteq Nat /\ lows \subseteq Ids
  BY <1>1
<1>4. cursor.high \in highs /\ Timed \subseteq highs /\ highs \subseteq Timed \union {cursor.high}
  OBVIOUS
<1>5. lows \subseteq Timed \union {cursor.low} /\ (cursor.low # 0 \/ Timed # {} => lows # {})
  OBVIOUS
<1>6. High = Max(highs) /\ Low = IF cursor.low = 0 /\ Timed = {} THEN 0 ELSE Min(lows)
  BY DEF High, Low
<1> HIDE DEF highs, lows
<1>7. High \in highs /\ \A y \in highs : High >= y
  BY <1>1, <1>2, <1>6, GreatestExists
<1>8. CASE cursor.low = 0 /\ Timed = {}
  <2>1. Low = 0
    BY <1>6, <1>8
  <2> QED
    BY <1>1, <1>2, <1>4, <1>7, <1>8, <2>1 DEF Widened, Backfilling, IInv, TypeOK
<1>9. CASE ~(cursor.low = 0 /\ Timed = {})
  <2>1. Low \in lows
    BY <1>3, <1>5, <1>6, <1>9, LeastExists
  <2>2. Low <= High
    <3>1. High \in Nat /\ Low \in Nat
      BY <1>1, <1>2, <1>3, <1>7, <2>1
    <3>2. CASE Low \in Timed
      BY <1>4, <1>7, <3>1, <3>2
    <3>3. CASE Low = cursor.low
      <4>1. High >= cursor.high /\ cursor.high \in Nat /\ cursor.low \in Nat
        BY <1>1, <1>4, <1>7
      <4> QED
        BY <1>1, <3>1, <3>3, <4>1
    <3> QED
      BY <1>5, <2>1, <3>2, <3>3
  <2>3. Low \in Ids /\ High \in {0} \union Ids /\ High <= m
    BY <1>1, <1>2, <1>3, <1>7, <2>1
  <2>4. (cursor.backfilled \/ Backfilling) \in BOOLEAN
    BY DEF IInv, TypeOK, Backfilling
  <2>5. Low # 0 /\ Low \in Timed \union {cursor.low} /\ High \in Timed \union {cursor.high}
    BY <1>4, <1>5, <1>7, <2>1, <2>3, IdsAre
  <2> QED
    BY <2>2, <2>3, <2>4, <2>5 DEF Widened
<1> QED
  BY <1>8, <1>9

LEMMA CommitStep == ASSUME IInv, Commit PROVE IInv'
<1> DEFINE given == CreditsOf(Fresh, view)
<1>1. /\ page # {} /\ page' = {} /\ view' = {} /\ newest' = newest
      /\ activity' = UpsertedActivity(Rows(given)) /\ credits' = credits \union given
      /\ counted' = counted \union Fresh /\ old' = old
      /\ cursor' = Widened /\ skipped' = skipped \union (Timed \ counted')
      /\ shallow' = (shallow \/ (/\ Backfilling /\ LeavesHole
                                 /\ Cardinality(UNION page) < PageLimit))
  BY DEF Commit, Ended, Recorded
<1>2. PICK m \in 0..newest, n \in Nat :
          /\ UNION page = Ending(m, n) /\ Ending(m, n) \subseteq Ids
          /\ Timed = {id \in Ending(m, n) : Packets[id].at > 0}
          /\ cursor.high <= m /\ (~Backfilling => n = PageLimit)
          /\ ~shallow => \A id \in Timed : id \in Fresh \/ id \in counted
  BY <1>1, PageInHand
<1>3. counted' \subseteq Ids /\ counted \subseteq counted' /\ (~shallow => Timed \subseteq counted')
  BY <1>1, <1>2 DEF Fresh, IInv, TypeOK
<1>4. newest \in Nat /\ m \in Nat /\ m <= newest /\ PageLimit \in Nat
  BY Feed DEF IInv, Claims
<1>5. Timed \subseteq 1..m /\ Timed \subseteq Ids
  BY <1>2 DEF Ending
<1>6. /\ cursor' \in [low : {0} \union Ids, high : {0} \union Ids, backfilled : BOOLEAN]
      /\ cursor'.low <= cursor'.high /\ cursor'.high <= m
      /\ cursor'.low = 0 => cursor.low = 0 /\ Timed = {}
      /\ cursor'.low # 0 => cursor'.low \in Timed \union {cursor.low}
      /\ cursor'.high \in Timed \union {cursor.high}
  BY <1>1, <1>2, <1>5, WidenedType
<1>7. DOMAIN activity' = {c.slot : c \in credits'}
  <2>1. DOMAIN Rows(given) = {c.slot : c \in given}
    BY DEF Rows
  <2>2. \A rows : DOMAIN UpsertedActivity(rows) = DOMAIN rows \union DOMAIN activity
    BY DEF UpsertedActivity, Upserted
  <2>3. DOMAIN activity' = DOMAIN Rows(given) \union DOMAIN activity
    BY <1>1, <2>2
  <2> QED
    BY <1>1, <2>1, <2>3 DEF IInv, TypeOK
<1> HIDE DEF given
<1>8. TypeOK'
  BY <1>1, <1>3, <1>6, <1>7 DEF IInv, TypeOK
<1>9. Claims'
  <2>1. /\ cursor'.high \in Nat /\ cursor'.low \in Nat /\ cursor.high \in Nat /\ cursor.low \in Nat
        /\ cursor.low <= cursor.high
    BY <1>6, IdsAre DEF IInv, TypeOK
  <2>2. ~Backfilling'
    BY <1>1 DEF Widened, Backfilling
  <2>3. ASSUME ~shallow', NEW id \in Ending(newest, PageLimit), Packets[id].at > 0, SeenBefore(id)'
        PROVE  id \in counted'
    <3>1. /\ ~shallow /\ id \in 1..newest /\ id > newest - PageLimit
          /\ Backfilling /\ LeavesHole => ~(Cardinality(UNION page) < PageLimit)
      BY <1>1, <2>3 DEF Ending
    <3>2. /\ cursor'.high > 0 /\ id <= cursor'.high /\ id <= m
          /\ id >= IF cursor'.low = 0 THEN cursor'.high ELSE cursor'.low
      <4>1. /\ cursor'.high > 0 /\ id <= cursor'.high
            /\ id >= IF cursor'.low = 0 THEN cursor'.high ELSE cursor'.low
        BY <2>3 DEF SeenBefore, LowKnown
      <4>2. id <= m
        BY <1>4, <1>6, <2>1, <3>1, <4>1
      <4> QED
        BY <4>1, <4>2
    <3>3. CASE id \in Ending(m, n)
      BY <1>2, <1>3, <2>3, <3>1, <3>3
    <3>4. CASE id \notin Ending(m, n)
      <4>1. id <= m - n
        BY <1>4, <3>1, <3>2, <3>4 DEF Ending
      <4>2. n < PageLimit
        BY <1>4, <3>1, <4>1
      <4>3. Cardinality(UNION page) < PageLimit
        <5>1. Cardinality(Ending(m, n)) \in Nat /\ Cardinality(Ending(m, n)) <= n
          BY <1>4, EndingSize
        <5>2. Cardinality(UNION page) = Cardinality(Ending(m, n))
          BY <1>2
        <5> QED
          BY <1>4, <4>2, <5>1, <5>2
      <4>4. Backfilling /\ ~LeavesHole
        BY <1>2, <1>4, <3>1, <4>2, <4>3
      <4>5. SeenBefore(id)
        <5>1. \A t \in Timed : t > id
          BY <1>2, <1>4, <4>1 DEF Ending
        <5>2. CASE cursor'.low = 0
          BY <1>6, <2>1, <3>2, <5>2 DEF SeenBefore, LowKnown
        <5>3. CASE cursor'.low # 0
          <6>1. cursor'.low = cursor.low /\ cursor.low # 0 /\ id >= cursor.low /\ cursor.high > 0
            BY <1>6, <2>1, <3>1, <3>2, <5>1, <5>3
          <6>2. cursor'.high = High
            BY <1>1 DEF Widened
          <6>3. ~(id \in (cursor.high + 1)..cursor'.high)
            BY <1>2, <3>4, <4>4, <6>1, <6>2 DEF LeavesHole
          <6>4. id <= cursor.high
            BY <2>1, <3>1, <3>2, <6>3
          <6> QED
            BY <6>1, <6>4 DEF SeenBefore, LowKnown
        <5> QED
          BY <5>2, <5>3
      <4>6. id \in Reach
        BY <3>1, <4>4 DEF Reach
      <4>7. NothingHidden(Reach)
        BY <3>1 DEF IInv, Claims
      <4> QED
        BY <1>3, <2>3, <4>5, <4>6, <4>7 DEF NothingHidden
    <3> QED
      BY <3>3, <3>4
  <2>4. newest' \in Nat /\ cursor'.high <= newest'
    BY <1>1, <1>4, <1>6, <2>1
  <2> QED
    BY <1>1, <2>2, <2>3, <2>4 DEF Claims, NothingHidden, Reach, Ending
<1>10. PageIsLatest' /\ NothingIsPassedOver'
  BY <1>1, <1>3 DEF IInv, PageIsLatest, NothingIsPassedOver
<1>11. CreditIsEarned'
  <2>1. Fresh \subseteq Ids /\ view \in SUBSET Nodes
    BY <1>5 DEF Fresh, IInv, TypeOK
  <2>2. ASSUME NEW c \in given, c.listed PROVE Did(Packets[c.id], c.slot)
    BY <2>1, <2>2, CreditsAreEarned DEF given
  <2> QED
    BY <1>1, <2>2 DEF IInv, CreditIsEarned
<1> QED
  BY <1>8, <1>9, <1>10, <1>11 DEF IInv

LEMMA NextIInv == IInv /\ [Next]_vars => IInv'
<1> SUFFICES ASSUME IInv, [Next]_vars PROVE IInv'
  OBVIOUS
<1>1. CASE UNCHANGED vars
  <2>1. UNCHANGED <<newest, cursor, activity, page, view, old, counted, skipped, credits, shallow>>
    BY <1>1 DEF vars, held, history
  <2>2. TypeOK' /\ NothingIsPassedOver' /\ CreditIsEarned'
    BY <2>1 DEF IInv, TypeOK, NothingIsPassedOver, CreditIsEarned
  <2>3. Claims' /\ PageIsLatest'
    BY <2>1 DEF IInv, Claims, NothingHidden, PageIsLatest, PageIs, Reach, Backfilling,
                SeenBefore, LowKnown
  <2> QED
    BY <2>2, <2>3 DEF IInv
<1> QED
  BY <1>1, ArrivesStep, FetchStep, NothingNewStep, CommitStep, FailsStep DEF Next, Poll

(***************************************************************************)
(* The inductive invariant holds of every state of the feed.               *)
(***************************************************************************)
THEOREM Inductive == Spec => []IInv
  BY InitIInv, NextIInv, PTL DEF Spec

-------------------------------------------------------------------------------
(***************************************************************************)
(* No packet on a page counts as seen before unless it was counted (the    *)
(* range check of ingest), for every feed, page limit, backfill and outage *)
(* between: until a backfill over an earlier cursor has left a hole and    *)
(* did not fill a page.                                                    *)
(***************************************************************************)
THEOREM NothingIsPassedOverHolds == Spec => []NothingIsPassedOver
<1>1. IInv => NothingIsPassedOver
  BY DEF IInv
<1> QED
  BY <1>1, Inductive, PTL

(***************************************************************************)
(* The cursor, the page and the rows are of packets that there are.        *)
(***************************************************************************)
THEOREM TypeCorrect == Spec => []TypeOK
<1>1. IInv => TypeOK
  BY DEF IInv
<1> QED
  BY <1>1, Inductive, PTL

(***************************************************************************)
(* A node is credited with a packet it sent or carried (attribute.go), if  *)
(* everyone who wrote a hop was listed.                                    *)
(***************************************************************************)
THEOREM CreditIsEarnedHolds == Spec => []CreditIsEarned
<1>1. IInv => CreditIsEarned
  BY DEF IInv
<1> QED
  BY <1>1, Inductive, PTL

-------------------------------------------------------------------------------
(***************************************************************************)
(* Counting: why the rows add up.  The range that the cursor claims, once  *)
(* its low end is known, only grows, and everything that was credited from *)
(* a page is in it.  What is not in it and was credited nevertheless was   *)
(* counted before there was a low end: such a packet can come round again, *)
(* and is then in the range as well.                                       *)
(***************************************************************************)
Told == IF cursor.low = 0 THEN {} ELSE {id \in Ids : cursor.low <= id /\ id <= cursor.high}

Times(ids) == {Packets[id].at : id \in ids}

CreditsAreTold == \A e \in credits : e.id \in Ids /\ e.id \in old \union Told

RowAddsUp(row, ids) ==
    /\ row.n \in Nat
    /\ row.last = Max(Times(ids))
    /\ row.n - Cardinality(ids) \in 0..Cardinality(ids \intersect old \intersect Told)

RowsAddUp == \A s \in DOMAIN activity : RowAddsUp(activity[s], IdsOf(s, credits))

Evidence == CreditsAreTold /\ RowsAddUp

LEMMA TimesAreNumbers == \A id \in Ids : Packets[id].at \in Nat
<1>1. \A id \in Ids : Packets[id] \in Packet
  BY Feed DEF Ids
<1>2. \A p \in Packet : p.at \in Nat
  BY DEF Packet
<1> QED
  BY <1>1, <1>2

\* The feed has an end, and so its times have a greatest: otherwise there is
\* a least place up to which they have none, and they have up to that before.
LEMMA TimesAreBounded == \E b \in Nat : \A id \in Ids : Packets[id].at <= b
<1> DEFINE L == Len(Packets)
           Bounded(k) == \E b \in Nat : \A id \in 1..k : Packets[id].at <= b
           T == {k \in 0..L : ~Bounded(k)}
<1>1. L \in Nat /\ Ids = 1..L /\ \A id \in 1..L : Packets[id].at \in Nat
  BY IdsAre, TimesAreNumbers
<1>2. Bounded(0)
  <2>1. \A id \in 1..0 : Packets[id].at <= 0
    OBVIOUS
  <2> QED
    BY <2>1
<1>3. ASSUME NEW k \in 1..L, Bounded(k - 1) PROVE Bounded(k)
  <2>1. PICK b \in Nat : \A id \in 1..(k - 1) : Packets[id].at <= b
    BY <1>3
  <2>2. Packets[k].at \in Nat
    BY <1>1
  <2> DEFINE c == IF b <= Packets[k].at THEN Packets[k].at ELSE b
  <2>3. c \in Nat /\ b <= c /\ Packets[k].at <= c
    BY <2>2
  <2>4. \A id \in 1..k : Packets[id].at <= c
    <3>1. ASSUME NEW id \in 1..k PROVE Packets[id].at <= c
      <4>1. CASE id = k
        BY <2>3, <4>1
      <4>2. CASE id # k
        <5>1. id \in 1..(k - 1) /\ id \in 1..L
          BY <1>1, <4>2
        <5>2. Packets[id].at <= b /\ Packets[id].at \in Nat
          BY <1>1, <2>1, <5>1
        <5> HIDE DEF c
        <5> QED
          BY <2>3, <5>2
      <4> QED
        BY <4>1, <4>2
    <3> QED
      BY <3>1
  <2> QED
    BY <2>3, <2>4
<1>4. T = {}
  <2> SUFFICES ASSUME T # {} PROVE FALSE
    OBVIOUS
  <2>1. T \subseteq Nat
    BY <1>1
  <2>2. Min(T) \in T /\ \A y \in T : Min(T) <= y
    BY <2>1, LeastExists
  <2> DEFINE k == Min(T)
  <2>3. k \in 0..L /\ ~Bounded(k) /\ \A y \in T : k <= y
    BY <2>2
  <2> HIDE DEF k
  <2>4. k # 0
    BY <1>2, <2>3
  <2>5. k \in 1..L /\ k - 1 \in 0..L /\ ~(k <= k - 1)
    BY <1>1, <2>3, <2>4
  <2>6. k - 1 \notin T
    BY <2>3, <2>5
  <2> QED
    BY <1>3, <2>3, <2>5, <2>6
<1>5. L \in 0..L
  BY <1>1
<1>6. Bounded(L)
  BY <1>4, <1>5
<1> QED
  BY <1>1, <1>6

LEMMA LatestOf ==
    ASSUME NEW ids, ids \subseteq Ids, ids # {}
    PROVE  Max(Times(ids)) \in Times(ids) /\ \A t \in Times(ids) : Max(Times(ids)) >= t
<1>1. PICK b \in Nat : \A id \in Ids : Packets[id].at <= b
  BY TimesAreBounded
<1>2. \A id \in Ids : Packets[id].at \in Nat
  BY TimesAreNumbers
<1>3. Times(ids) \subseteq 0..b /\ Times(ids) # {}
  BY <1>1, <1>2 DEF Times
<1> QED
  BY <1>3, GreatestExists

\* The later of the latest of two sets is the latest of both: folding a batch
\* first, and the row with it then, is the same as looking at everything.
LEMMA LatestOfBoth ==
    ASSUME NEW A, A \subseteq Ids, A # {}, NEW B, B \subseteq Ids, B # {}
    PROVE  Max({Max(Times(A)), Max(Times(B))}) = Max(Times(A \union B))
<1> DEFINE a == Max(Times(A))
           b == Max(Times(B))
           c == Max(Times(A \union B))
<1>1. Times(A \union B) = Times(A) \union Times(B)
  BY DEF Times
<1>2. Times(A) \subseteq Nat /\ Times(B) \subseteq Nat
  BY TimesAreNumbers DEF Times
<1>3. a \in Times(A) /\ \A t \in Times(A) : a >= t
  BY LatestOf
<1>4. b \in Times(B) /\ \A t \in Times(B) : b >= t
  BY LatestOf
<1>5. c \in Times(A \union B) /\ \A t \in Times(A \union B) : c >= t
  BY LatestOf
<1> HIDE DEF a, b, c
<1>6. a \in Nat /\ b \in Nat /\ c \in Nat /\ c >= a /\ c >= b /\ (a >= c \/ b >= c)
  BY <1>1, <1>2, <1>3, <1>4, <1>5
<1>7. c = IF a >= b THEN a ELSE b
  BY <1>6
<1>8. \E x \in {a, b} : \A y \in {a, b} : x >= y
  BY <1>6
<1>9. Max({a, b}) \in {a, b} /\ \A y \in {a, b} : Max({a, b}) >= y
  BY <1>8 DEF Max
<1>10. Max({a, b}) = IF a >= b THEN a ELSE b
  BY <1>6, <1>9
<1> QED
  BY <1>7, <1>10 DEF a, b, c

LEMMA IdsAreFinite ==
    ASSUME NEW S, S \subseteq Ids
    PROVE  IsFiniteSet(S) /\ Cardinality(S) \in Nat
<1>1. 1 \in Int /\ Len(Packets) \in Int
  BY IdsAre
<1>2. IsFiniteSet(Ids)
  BY <1>1, IdsAre, FS_Interval
<1>3. IsFiniteSet(S)
  BY <1>2, FS_Subset
<1> QED
  BY <1>3, FS_CardinalityType

-------------------------------------------------------------------------------
LEMMA IdsOfBoth ==
    ASSUME NEW X, NEW Y, NEW s
    PROVE  IdsOf(s, X \union Y) = IdsOf(s, X) \union IdsOf(s, Y)
  BY DEF IdsOf

\* One batch, folded.
LEMMA RowsAre ==
    ASSUME NEW given
    PROVE  /\ DOMAIN Rows(given) = {e.slot : e \in given}
           /\ \A s \in DOMAIN Rows(given) :
                 /\ IdsOf(s, given) # {}
                 /\ Rows(given)[s].last = Max(Times(IdsOf(s, given)))
                 /\ Rows(given)[s].n = Cardinality(IdsOf(s, given))
           /\ \A s : s \notin DOMAIN Rows(given) => IdsOf(s, given) = {}
<1>1. DOMAIN Rows(given) = {e.slot : e \in given}
  BY DEF Rows
<1>2. \A s \in DOMAIN Rows(given) : IdsOf(s, given) # {}
  BY <1>1 DEF IdsOf
<1>3. \A s \in DOMAIN Rows(given) :
         Rows(given)[s] = [last |-> Max(Times(IdsOf(s, given))), n |-> Cardinality(IdsOf(s, given))]
  BY <1>1 DEF Rows, Times
<1>4. \A s : s \notin DOMAIN Rows(given) => IdsOf(s, given) = {}
  BY <1>1 DEF IdsOf
<1>5. ASSUME NEW s \in DOMAIN Rows(given)
      PROVE  /\ Rows(given)[s].last = Max(Times(IdsOf(s, given)))
             /\ Rows(given)[s].n = Cardinality(IdsOf(s, given))
  BY <1>3
<1> QED
  BY <1>1, <1>2, <1>4, <1>5

LEMMA CreditedIds ==
    ASSUME NEW ids, ids \subseteq Ids, NEW listed
    PROVE  /\ \A e \in CreditsOf(ids, listed) : e.id \in ids
           /\ \A s : IdsOf(s, CreditsOf(ids, listed)) \subseteq ids
<1>1. \A e \in CreditsOf(ids, listed) : e.id \in ids
  BY DEF CreditsOf
<1> QED
  BY <1>1 DEF IdsOf

LEMMA InitEvidence == Init => Evidence
<1> SUFFICES ASSUME Init PROVE Evidence
  OBVIOUS
<1>1. old \subseteq Ids
  BY InitIInv DEF IInv, TypeOK
<1>2. credits = CreditsOf(old, Nodes) /\ activity = Rows(credits)
  BY DEF Init
<1>3. CreditsAreTold
  BY <1>1, <1>2, CreditedIds DEF CreditsAreTold
<1>4. ASSUME NEW s \in DOMAIN activity PROVE RowAddsUp(activity[s], IdsOf(s, credits))
  <2> DEFINE ids == IdsOf(s, credits)
  <2>1. ids \subseteq Ids
    BY <1>1, <1>2, CreditedIds
  <2>2. Cardinality(ids) \in Nat
    BY <2>1, IdsAreFinite
  <2>3. ids \intersect old \intersect Told \subseteq Ids
    BY <1>1
  <2>4. Cardinality(ids \intersect old \intersect Told) \in Nat
    BY <2>3, IdsAreFinite
  <2>5. activity[s].last = Max(Times(ids)) /\ activity[s].n = Cardinality(ids)
    BY <1>2, <1>4, RowsAre
  <2> HIDE DEF ids
  <2> QED
    BY <2>2, <2>4, <2>5 DEF RowAddsUp, ids
<1> QED
  BY <1>3, <1>4 DEF Evidence, RowsAddUp

\* A page widens the range by what it held, and none of that was in it.
LEMMA RangeGrows ==
    ASSUME IInv, page # {}, cursor' = Widened
    PROVE  Told \subseteq Told' /\ Fresh \subseteq Told' /\ Fresh \intersect Told = {}
           /\ Fresh \subseteq Ids
<1> DEFINE lows == Timed \union ({cursor.low} \ {0})
           highs == {cursor.high} \union Timed
<1>1. PICK m \in 0..newest, n \in Nat :
          /\ Timed = {id \in Ending(m, n) : Packets[id].at > 0}
          /\ cursor.high <= m /\ Ending(m, n) \subseteq Ids
  BY PageInHand
<1>2. newest \in Nat /\ m \in Nat /\ cursor.low \in Nat /\ cursor.high \in Nat
      /\ cursor.low <= cursor.high
  <2>1. newest \in Nat /\ cursor.low \in {0} \union Ids /\ cursor.high \in {0} \union Ids
        /\ cursor.low <= cursor.high
    BY DEF IInv, TypeOK, Claims
  <2>2. {0} \union Ids \subseteq Nat
    BY IdsAre
  <2> QED
    BY <2>1, <2>2
<1>3. Timed \subseteq Ids /\ Timed \subseteq 1..m /\ Ids \subseteq Nat \ {0} /\ Fresh \subseteq Timed
  BY <1>1, IdsAre DEF Ending, Fresh
<1>4. Fresh \intersect Told = {}
  BY <1>2 DEF Fresh, Told, SeenBefore, LowKnown
<1>5. CASE Timed = {}
  <2>1. highs = {cursor.high} /\ lows = {cursor.low} \ {0}
    BY <1>5
  <2>2. highs \subseteq 0..cursor.high /\ highs # {} /\ lows \subseteq Nat
    BY <1>2, <2>1
  <2>3. High = Max(highs) /\ Low = IF cursor.low = 0 THEN 0 ELSE Min(lows)
    BY <1>5 DEF High, Low
  <2>4. High = cursor.high
    BY <1>2, <2>1, <2>2, <2>3, GreatestExists
  <2>5. Low = cursor.low
    <3>1. CASE cursor.low = 0
      BY <2>3, <3>1
    <3>2. CASE cursor.low # 0
      <4>1. lows # {}
        BY <2>1, <3>2
      <4>2. Min(lows) \in lows
        BY <2>2, <4>1, LeastExists
      <4> QED
        BY <2>1, <2>3, <3>2, <4>2
    <3> QED
      BY <3>1, <3>2
  <2>6. cursor'.low = cursor.low /\ cursor'.high = cursor.high
    BY <2>4, <2>5 DEF Widened
  <2>7. Told' = Told
    BY <2>6 DEF Told
  <2> QED
    BY <1>3, <1>4, <1>5, <2>7
<1>6. CASE Timed # {}
  <2>1. lows \subseteq Nat \ {0} /\ lows # {} /\ Timed \subseteq lows
        /\ (cursor.low # 0 => cursor.low \in lows)
    BY <1>2, <1>3, <1>6
  <2>2. highs \subseteq 0..m /\ highs # {} /\ Timed \subseteq highs /\ cursor.high \in highs
    BY <1>1, <1>2, <1>3
  <2>3. High = Max(highs) /\ Low = Min(lows)
    BY <1>6 DEF High, Low
  <2> HIDE DEF lows, highs
  <2>4. High \in 0..m /\ \A y \in highs : High >= y
    BY <1>2, <2>2, <2>3, GreatestExists
  <2>5. lows \subseteq Nat
    BY <2>1
  <2>6. Low \in lows /\ \A y \in lows : Low <= y
    BY <2>1, <2>3, <2>5, LeastExists
  <2>7. cursor'.low = Low /\ cursor'.high = High /\ Low # 0 /\ Low \in Nat /\ High \in Nat
    BY <1>2, <2>1, <2>4, <2>6 DEF Widened
  <2>8. Told' = {id \in Ids : Low <= id /\ id <= High}
    BY <2>7 DEF Told
  <2>9. Timed \subseteq Told'
    <3>1. ASSUME NEW id \in Timed PROVE id \in Ids /\ Low <= id /\ id <= High
      <4>1. id \in Nat /\ Low <= id /\ High >= id
        BY <1>3, <2>1, <2>2, <2>4, <2>6
      <4> QED
        BY <1>3, <2>7, <4>1
    <3> QED
      BY <2>8, <3>1
  <2>10. Told \subseteq Told'
    <3>1. ASSUME NEW id \in Told PROVE id \in Ids /\ Low <= id /\ id <= High
      <4>1. cursor.low # 0 /\ id \in Ids /\ cursor.low <= id /\ id <= cursor.high /\ id \in Nat
        BY <1>3 DEF Told
      <4>2. Low <= cursor.low /\ High >= cursor.high
        BY <2>1, <2>2, <2>4, <2>6, <4>1
      <4> QED
        BY <1>2, <2>7, <4>1, <4>2
    <3> QED
      BY <2>8, <3>1
  <2> QED
    BY <1>3, <1>4, <2>9, <2>10
<1> QED
  BY <1>5, <1>6

-------------------------------------------------------------------------------
\* What a batch adds to a row that is there already.  A packet that both
\* count is an old one that the range did not hold before, and does now.
LEMMA FoldedIn ==
    ASSUME NEW A, A \subseteq Ids, A # {}, NEW B, B \subseteq Ids, B # {},
           NEW T, NEW U, T \subseteq U, B \subseteq U, B \intersect T = {},
           NEW o, o \subseteq Ids, A \subseteq o \union T,
           NEW n \in Nat, n - Cardinality(A) \in 0..Cardinality(A \intersect o \intersect T)
    PROVE  (n + Cardinality(B)) - Cardinality(A \union B)
               \in 0..Cardinality((A \union B) \intersect o \intersect U)
<1> DEFINE ab  == A \intersect B
           was == A \intersect o \intersect T
           is  == (A \union B) \intersect o \intersect U
           a == Cardinality(A)
           b == Cardinality(B)
           u == Cardinality(A \union B)
           m == Cardinality(ab)
           w == Cardinality(was)
           k == Cardinality(is)
<1>1. IsFiniteSet(A) /\ IsFiniteSet(B) /\ a \in Nat /\ b \in Nat
  BY IdsAreFinite
<1>2. u \in Nat /\ u = a + b - m
  <2>1. A \union B \subseteq Ids
    OBVIOUS
  <2> QED
    BY <1>1, <2>1, FS_Union, IdsAreFinite
<1>3. ab \subseteq Ids /\ was \subseteq Ids /\ is \subseteq Ids
  OBVIOUS
<1>4. /\ IsFiniteSet(ab) /\ IsFiniteSet(was) /\ IsFiniteSet(is)
      /\ m \in Nat /\ w \in Nat /\ k \in Nat
  BY <1>3, IdsAreFinite
<1>5. ab \intersect was = {} /\ ab \union was \subseteq is
  OBVIOUS
<1>6. Cardinality(ab \union was) = m + w
  BY <1>4, <1>5, FS_Union, FS_EmptySet
<1>7. m + w <= k
  BY <1>4, <1>5, <1>6, FS_Subset
<1>8. n - a \in 0..w
  OBVIOUS
<1> HIDE DEF a, b, u, m, w, k
<1>9. (n + b) - u \in 0..k
  BY <1>1, <1>2, <1>4, <1>7, <1>8
<1> QED
  BY <1>9 DEF b, u, k

\* What the counts leave alone.
LEMMA EvidenceKept ==
    ASSUME Evidence, UNCHANGED <<cursor, activity, old, credits>>
    PROVE  Evidence'
<1>1. Told' = Told
  BY DEF Told
<1> QED
  BY <1>1 DEF Evidence, CreditsAreTold, RowsAddUp, RowAddsUp

LEMMA CommitEvidence == ASSUME IInv, Evidence, Commit PROVE Evidence'
<1> DEFINE given == CreditsOf(Fresh, view)
           rows  == Rows(given)
           Was(s) == IdsOf(s, credits)
           New(s) == IdsOf(s, given)
<1>1. /\ page # {} /\ cursor' = Widened /\ old' = old
      /\ activity' = UpsertedActivity(rows) /\ credits' = credits \union given
  BY DEF Commit, Recorded
<1>2. Told \subseteq Told' /\ Fresh \subseteq Told' /\ Fresh \intersect Told = {}
      /\ Fresh \subseteq Ids /\ old \subseteq Ids
  BY <1>1, RangeGrows DEF IInv, TypeOK
<1>3. (\A e \in given : e.id \in Fresh) /\ \A s : New(s) \subseteq Fresh
  BY <1>2, CreditedIds
<1>4. \A s : IdsOf(s, credits') = Was(s) \union New(s)
  BY <1>1, IdsOfBoth
<1>5. /\ DOMAIN rows = {e.slot : e \in given}
      /\ \A s \in DOMAIN rows :
            /\ New(s) # {}
            /\ rows[s].last = Max(Times(New(s)))
            /\ rows[s].n = Cardinality(New(s))
      /\ \A s : s \notin DOMAIN rows => New(s) = {}
  BY RowsAre
<1>6. \A s : Was(s) \subseteq Ids /\ Was(s) \subseteq old \union Told
  BY DEF Evidence, CreditsAreTold, IdsOf
<1>7. DOMAIN activity = {e.slot : e \in credits}
  BY DEF IInv, TypeOK
<1>8. /\ \A s \in DOMAIN activity : Was(s) # {}
      /\ \A s : s \notin DOMAIN activity => Was(s) = {}
  BY <1>7 DEF IdsOf
<1>9. CreditsAreTold'
  BY <1>1, <1>2, <1>3 DEF Evidence, CreditsAreTold
<1>10. /\ DOMAIN activity' = DOMAIN rows \union DOMAIN activity
       /\ \A s \in DOMAIN rows :
             activity'[s] = IF s \in DOMAIN activity
                            THEN [last |-> Max({activity[s].last, rows[s].last}),
                                  n |-> activity[s].n + rows[s].n]
                            ELSE rows[s]
       /\ \A s \in DOMAIN activity : s \notin DOMAIN rows => activity'[s] = activity[s]
  BY <1>1 DEF UpsertedActivity, Upserted
<1>11. \A s \in DOMAIN activity : RowAddsUp(activity[s], Was(s))
  BY DEF Evidence, RowsAddUp
<1> HIDE DEF given, rows, Was, New
<1>12. ASSUME NEW s \in DOMAIN activity'
       PROVE  /\ activity'[s].n \in Nat
              /\ activity'[s].last = Max(Times(Was(s) \union New(s)))
              /\ activity'[s].n - Cardinality(Was(s) \union New(s))
                    \in 0..Cardinality((Was(s) \union New(s)) \intersect old \intersect Told')
  <2> DEFINE A == Was(s)
             B == New(s)
  <2>1. A \subseteq Ids /\ B \subseteq Ids /\ Cardinality(A) \in Nat /\ Cardinality(B) \in Nat
    BY <1>2, <1>3, <1>6, IdsAreFinite
  <2>2. CASE s \in DOMAIN rows /\ s \in DOMAIN activity
    <3>1. /\ activity'[s].last = Max({activity[s].last, rows[s].last})
          /\ activity'[s].n = activity[s].n + rows[s].n
      BY <1>10, <2>2
    <3>2. /\ A # {} /\ B # {} /\ rows[s].last = Max(Times(B)) /\ rows[s].n = Cardinality(B)
      BY <1>5, <1>8, <2>2
    <3>3. /\ activity[s].n \in Nat /\ activity[s].last = Max(Times(A))
          /\ activity[s].n - Cardinality(A) \in 0..Cardinality(A \intersect old \intersect Told)
      BY <1>11, <2>2 DEF RowAddsUp
    <3>4. activity'[s].last = Max(Times(A \union B))
      BY <2>1, <3>1, <3>2, <3>3, LatestOfBoth
    <3>5. B \subseteq Told' /\ B \intersect Told = {} /\ A \subseteq old \union Told
      BY <1>2, <1>3, <1>6
    <3> DEFINE n == activity[s].n
    <3>6. n \in Nat /\ n - Cardinality(A) \in 0..Cardinality(A \intersect old \intersect Told)
      BY <3>3
    <3> HIDE DEF n, A, B
    <3>7. (n + Cardinality(B)) - Cardinality(A \union B)
             \in 0..Cardinality((A \union B) \intersect old \intersect Told')
      BY <1>2, <2>1, <3>2, <3>5, <3>6, FoldedIn
    <3>8. activity'[s].n = n + Cardinality(B)
      BY <3>1, <3>2 DEF n
    <3>9. n + Cardinality(B) \in Nat
      BY <2>1, <3>6
    <3> QED
      BY <3>4, <3>7, <3>8, <3>9 DEF A, B
  <2>3. CASE s \in DOMAIN rows /\ s \notin DOMAIN activity
    <3>1. A \union B = B
      BY <1>8, <2>3
    <3>2. activity'[s].last = Max(Times(B)) /\ activity'[s].n = Cardinality(B)
      BY <1>5, <1>10, <2>3
    <3>3. B \intersect old \intersect Told' \subseteq Ids
      BY <2>1
    <3>4. Cardinality(B \intersect old \intersect Told') \in Nat
      BY <3>3, IdsAreFinite
    <3>5. activity'[s].n - Cardinality(B) = 0
      BY <2>1, <3>2
    <3>6. 0 \in 0..Cardinality(B \intersect old \intersect Told')
      BY <3>4
    <3> HIDE DEF A, B
    <3> QED
      BY <2>1, <3>1, <3>2, <3>5, <3>6 DEF A, B
  <2>4. CASE s \notin DOMAIN rows
    <3>1. s \in DOMAIN activity /\ activity'[s] = activity[s] /\ A \union B = A
      BY <1>5, <1>10, <2>4
    <3>2. /\ activity[s].n \in Nat /\ activity[s].last = Max(Times(A))
          /\ activity[s].n - Cardinality(A) \in 0..Cardinality(A \intersect old \intersect Told)
      BY <1>11, <3>1 DEF RowAddsUp
    <3> DEFINE was == A \intersect old \intersect Told
               is  == A \intersect old \intersect Told'
    <3>3. was \subseteq is /\ is \subseteq Ids /\ was \subseteq Ids
      BY <1>2, <2>1
    <3>4. IsFiniteSet(is) /\ Cardinality(is) \in Nat /\ Cardinality(was) \in Nat
      BY <3>3, IdsAreFinite
    <3>5. Cardinality(was) <= Cardinality(is)
      BY <3>3, <3>4, FS_Subset
    <3>6. 0..Cardinality(was) \subseteq 0..Cardinality(is)
      BY <3>4, <3>5
    <3>7. activity[s].n - Cardinality(A) \in 0..Cardinality(is)
      BY <3>2, <3>6
    <3> QED
      BY <3>1, <3>2, <3>7
  <2> QED
    BY <2>2, <2>3, <2>4
<1>13. ASSUME NEW s \in DOMAIN activity'
       PROVE  RowAddsUp(activity[s], IdsOf(s, credits))'
  BY <1>1, <1>4, <1>12 DEF RowAddsUp, Times
<1> QED
  BY <1>9, <1>13 DEF Evidence, RowsAddUp

LEMMA NextEvidence == ASSUME IInv, Evidence, [Next]_vars PROVE Evidence'
<1>1. CASE Commit
  BY <1>1, CommitEvidence
<1>2. CASE Arrives \/ (\E listed \in Views : FetchPackets(listed)) \/ NothingNew \/ Fails
  <2>1. UNCHANGED <<cursor, activity, old, credits>>
    BY <1>2 DEF Arrives, FetchPackets, NothingNew, Fails, history
  <2> QED
    BY <2>1, EvidenceKept
<1>3. CASE UNCHANGED vars
  <2>1. UNCHANGED <<cursor, activity, old, credits>>
    BY <1>3 DEF vars, history
  <2> QED
    BY <2>1, EvidenceKept
<1> QED
  BY <1>1, <1>2, <1>3 DEF Next, Poll

\* UpsertActivity and the cursor's range check: every row of target_activity
\* has the latest time of what proves it, and counts each packet once - one
\* from before there was a low-water mark at most twice - for any feed, pages,
\* outages, failures and backfill.
THEOREM EvidenceAddsUpHolds == Spec => []EvidenceAddsUp
<1>1. IInv /\ Evidence => EvidenceAddsUp
  <2> SUFFICES ASSUME IInv, Evidence, NEW s \in DOMAIN activity
               PROVE  LET ids == IdsOf(s, credits)
                      IN  /\ activity[s].last = Max({Packets[id].at : id \in ids})
                          /\ activity[s].n - Cardinality(ids) \in 0..Cardinality(ids \intersect old)
    BY DEF EvidenceAddsUp
  <2> DEFINE ids == IdsOf(s, credits)
             was == ids \intersect old \intersect Told
             is  == ids \intersect old
  <2>1. RowAddsUp(activity[s], ids) /\ ids \subseteq Ids
    BY DEF Evidence, RowsAddUp, CreditsAreTold, IdsOf
  <2> HIDE DEF ids
  <2>2. was \subseteq is /\ is \subseteq Ids /\ was \subseteq Ids
    BY <2>1
  <2>3. IsFiniteSet(is) /\ Cardinality(is) \in Nat /\ Cardinality(was) \in Nat
    BY <2>2, IdsAreFinite
  <2>4. Cardinality(was) <= Cardinality(is)
    BY <2>2, <2>3, FS_Subset
  <2>5. 0..Cardinality(was) \subseteq 0..Cardinality(is)
    BY <2>3, <2>4
  <2>6. activity[s].n - Cardinality(ids) \in 0..Cardinality(is)
    BY <2>1, <2>5 DEF RowAddsUp
  <2> QED
    BY <2>1, <2>6 DEF RowAddsUp, Times, ids
<1>2. IInv /\ Evidence /\ [Next]_vars => IInv' /\ Evidence'
  BY NextIInv, NextEvidence
<1> QED
  BY <1>1, <1>2, InitIInv, InitEvidence, PTL DEF Spec

===============================================================================
