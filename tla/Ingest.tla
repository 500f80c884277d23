------------------------------- MODULE Ingest -------------------------------
(***************************************************************************)
(* Evidence from the packet feed (internal/poller/poller.go ingest,        *)
(* internal/attribute/attribute.go, the packet pages of                    *)
(* internal/corescope/corescope.go, and feed_cursor and target_activity in *)
(* internal/store/queries.go).  A packet is what its fields say happened;  *)
(* which nodes it is held to prove is for the code to work out, from       *)
(* prefixes of their keys and the nodes listed in this poll.               *)
(***************************************************************************)
EXTENDS Integers, Sequences, FiniteSets, FiniteSetsExt, Tables

CONSTANTS Nodes, Prefix,  \* the first three bytes of each node's key
          Packets,        \* what CoreScope records, in the order of its ids
          Views,          \* the node lists it may serve with them
          PageLimit,      \* packets on a page
          BackfillWindows, \* how many packets the hours that are read back may hold
          BackfillOn      \* backfill_hours > 0

Ids == DOMAIN Packets

\* A hop is written with a prefix of the key of a node; narrow ones identify
\* nobody.  at = 0 is a packet without a time.
Hop    == [by : Nodes, wide : BOOLEAN]
Packet == [at : Nat, kind : {"advert", "text", "trace"}, from : SUBSET Nodes,
           flood : BOOLEAN, hops : SUBSET Hop]

ASSUME Feed ==
    /\ Packets \in Seq(Packet)
    /\ IsFiniteSet(Nodes) /\ Views \subseteq SUBSET Nodes
    /\ PageLimit \in Nat /\ BackfillWindows \subseteq Nat /\ BackfillOn \in BOOLEAN

VARIABLES
    newest,       \* the last id CoreScope has assigned
    cursor,       \* feed_cursor
    activity,     \* target_activity
    page, view,   \* the page and the node list of an ingest under way
    \* History.
    old,          \* ids that were counted before there was a low-water mark
    counted,      \* ids whose evidence is stored
    skipped,      \* ids on a page that was ingested, not counted by then
    credits,      \* what was concluded from which packet
    shallow       \* the backfill left a hole and did not fill a page

held    == <<page, view>>
history == <<old, counted, skipped, credits, shallow>>
vars    == <<newest, cursor, activity, held, history>>

-------------------------------------------------------------------------------
(***************************************************************************)
(* attribute.go.                                                           *)
(***************************************************************************)
LookupFirst(hop, listed) ==
    LET owners == {n \in listed : Prefix[n] = Prefix[hop.by]}
    IN  IF hop.wide /\ owners # {} THEN {CHOOSE n \in owners : TRUE} ELSE {}

\* A prefix that two listed nodes share is nobody's.
Lookup(hop, listed) ==
    LET owners == {n \in listed : Prefix[n] = Prefix[hop.by]}
    IN  IF hop.wide /\ Cardinality(owners) = 1 THEN owners ELSE {}

\* Only on a flood route is the path a record of where the packet has been,
\* and the path of a TRACE holds no keys.
PathIsHistory(p) == p.flood /\ p.kind # "trace"

Hits(p, listed) ==
    LET sent    == IF p.kind = "advert" THEN p.from ELSE {}
        carried == IF PathIsHistory(p) THEN UNION {Lookup(h, listed) : h \in p.hops} ELSE {}
    IN  {[key |-> n, kind |-> p.kind, dir |-> "sent"] : n \in sent} \union
        {[key |-> n, kind |-> p.kind, dir |-> "carried"] : n \in carried}

\* Whether every node that wrote a hop was in the list used.
AllListed(p, listed) == \A h \in p.hops : h.by \in listed

CreditsOf(ids, listed) ==
    UNION {{[id |-> id, slot |-> s, listed |-> AllListed(Packets[id], listed)] :
              s \in Hits(Packets[id], listed)} : id \in ids}

IdsOf(s, given) == {c.id : c \in {d \in given : d.slot = s}}

\* One row per node, type and direction, folded before anything is written.
Rows(given) ==
    [s \in {c.slot : c \in given} |->
        [last |-> Max({Packets[id].at : id \in IdsOf(s, given)}),
         n |-> Cardinality(IdsOf(s, given))]]

-------------------------------------------------------------------------------
(***************************************************************************)
(* A fresh install, or one of before the low-water mark (0003 adds it as   *)
(* zero), or of after it was repaired (0005 makes it the high one).        *)
(***************************************************************************)
Init ==
    /\ newest \in {0} \union Ids
    /\ cursor \in [low : {0, newest}, high : {0, newest}, backfilled : {FALSE}]
    /\ cursor.low <= cursor.high
    /\ IF cursor.high = 0 THEN old = {}
       ELSE /\ Packets[newest].at > 0
            /\ \E first \in 1..newest : old = {id \in first..newest : Packets[id].at > 0}
    /\ counted = old /\ skipped = {} /\ shallow = FALSE
    /\ credits = CreditsOf(old, Nodes) /\ activity = Rows(credits)
    /\ page = {} /\ view = {}

Arrives ==
    /\ newest + 1 \in Ids
    /\ newest' = newest + 1
    /\ UNCHANGED <<cursor, activity, held, history>>

-------------------------------------------------------------------------------
(***************************************************************************)
(* ingest.  At most one page, a set of ids, is in hand.                    *)
(***************************************************************************)
Backfilling == BackfillOn /\ ~cursor.backfilled

Latest(n) == {id \in 1..newest : id > newest - n}

\* The newest page, or everything since some hours ago.
PageSizes == IF Backfilling THEN BackfillWindows ELSE {PageLimit}

FetchPackets(listed) ==
    /\ page = {}
    /\ \E n \in PageSizes : page' = {Latest(n)}
    /\ view' = listed
    /\ UNCHANGED <<newest, cursor, activity, history>>

Timed == {id \in UNION page : Packets[id].at > 0}

\* [low, high] is the inclusive range counted already.  A low of zero is not
\* known, and only high itself is vouched for.
LowKnownLiterally == cursor.low

LowKnown == IF cursor.low = 0 THEN cursor.high ELSE cursor.low

SeenBefore(id) == cursor.high > 0 /\ id <= cursor.high /\ id >= LowKnown

Fresh == {id \in Timed : ~SeenBefore(id)}

High == Max({cursor.high} \union Timed)
Low  == IF cursor.low = 0 /\ Timed = {} THEN 0
        ELSE Min(Timed \union ({cursor.low} \ {0}))

\* UpsertActivity: last_at never goes back.
UpsertedActivity(rows) ==
    Upserted([s \in DOMAIN rows |->
        IF s \in DOMAIN activity
        THEN [last |-> Max({activity[s].last, rows[s].last}), n |-> activity[s].n + rows[s].n]
        ELSE rows[s]], activity)

\* SetFeedCursor: the range grows at either end and never shrinks.
Widened == [low |-> Low, high |-> High, backfilled |-> cursor.backfilled \/ Backfilling]

\* Ids are claimed that lie between what was counted before and this page.
LeavesHole == cursor.high > 0 /\ \E id \in (cursor.high + 1)..High : id \notin UNION page

Recorded(given) ==
    /\ activity' = UpsertedActivity(Rows(given))
    /\ credits' = credits \union given
    /\ counted' = counted \union Fresh
    /\ skipped' = skipped \union (Timed \ counted')
    /\ shallow' = (shallow \/ (/\ Backfilling /\ LeavesHole
                               /\ Cardinality(UNION page) < PageLimit))
    /\ UNCHANGED old

Ended == page' = {} /\ view' = {} /\ UNCHANGED newest

\* Nothing learnt and nothing new: no transaction.
NothingNew ==
    /\ page # {}
    /\ CreditsOf(Fresh, view) = {} /\ ~Backfilling /\ High <= cursor.high
    /\ Ended
    /\ counted' = counted \union Fresh
    /\ skipped' = skipped \union (Timed \ counted')
    /\ UNCHANGED <<cursor, activity, old, credits, shallow>>

CommitTorn ==
    /\ page # {}
    /\ CreditsOf(Fresh, view) # {} \/ Backfilling \/ High > cursor.high
    /\ Ended
    /\ Recorded(CreditsOf(Fresh, view))
    /\ cursor' \in {cursor, Widened}

\* Evidence and cursor in one transaction.
Commit ==
    /\ page # {}
    /\ CreditsOf(Fresh, view) # {} \/ Backfilling \/ High > cursor.high
    /\ Ended
    /\ Recorded(CreditsOf(Fresh, view))
    /\ cursor' = Widened

\* No answer, a refused write, or the process dies: the next poll reads the
\* cursor again.
Fails ==
    /\ page # {}
    /\ Ended
    /\ UNCHANGED <<cursor, activity, history>>

-------------------------------------------------------------------------------
Poll == (\E listed \in Views : FetchPackets(listed)) \/ NothingNew \/ Commit

Next == Arrives \/ Poll \/ Fails

Spec == Init /\ [][Next]_vars

-------------------------------------------------------------------------------
TypeOK ==
    /\ newest \in {0} \union Ids
    /\ cursor \in [low : {0} \union Ids, high : {0} \union Ids, backfilled : BOOLEAN]
    /\ cursor.low <= cursor.high
    /\ page \subseteq SUBSET Ids /\ view \subseteq Nodes
    /\ \A P, Q \in page : P = Q
    /\ old \subseteq counted /\ counted \subseteq Ids /\ shallow \in BOOLEAN
    /\ DOMAIN activity = {c.slot : c \in credits}

(***************************************************************************)
(* Every packet counts once, and for what is newest: whatever pages        *)
(* overlap, are read again after a failure or a crash, or come with the    *)
(* backfill, each row has the latest time of a packet that proves it and   *)
(* as many packets as there were - but that those counted before there was *)
(* a low-water mark may be counted a second time, once.                    *)
(***************************************************************************)
EvidenceAddsUp ==
    \A s \in DOMAIN activity :
        LET ids == IdsOf(s, credits)
        IN  /\ activity[s].last = Max({Packets[id].at : id \in ids})
            /\ activity[s].n - Cardinality(ids) \in 0..Cardinality(ids \intersect old)

(***************************************************************************)
(* "A packet is never marked consumed without its evidence"                *)
(* (poller.go:320): none that was on a page is passed over as seen before  *)
(* unless it had been counted, although the range the cursor claims has    *)
(* holes where an outage was longer than a page.  One kind of hole the     *)
(* code does not keep out of reach: that of a backfill, over a cursor that *)
(* is there already, which holds fewer packets than a page                 *)
(* (backfill_hours small beside packet_limit).  The page after it reaches  *)
(* into the hole, and what it finds there is taken for seen.               *)
(***************************************************************************)
NothingIsPassedOver == ~shallow => skipped = {}

(***************************************************************************)
(* Nobody is credited for another's work: a node that is said to have      *)
(* carried or sent a packet did - or shares its prefix with one that did   *)
(* and that CoreScope did not list in that poll.                           *)
(***************************************************************************)
Did(p, s) ==
    IF s.dir = "sent" THEN s.key \in p.from
    ELSE PathIsHistory(p) /\ [by |-> s.key, wide |-> TRUE] \in p.hops

CreditIsEarned == \A c \in credits : c.listed => Did(Packets[c.id], c.slot)

===============================================================================
