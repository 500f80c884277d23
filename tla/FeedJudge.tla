------------------------------ MODULE FeedJudge ------------------------------
(***************************************************************************)
(* Whether a poll is believed: Poller.PollOnce up to the verdict, the      *)
(* poll_runs table the verdict is drawn from, and the monotonic target     *)
(* timestamps written before it.                                           *)
(*                                                                         *)
(* A timestamp is its age in ticks, kept up to MaxAge: a stored or a       *)
(* served time of that age or more is not told apart from an older one.    *)
(* Of a poll run's own age only one thing is ever asked: whether it        *)
(* started within the week MaxRecentNodeCount looks back.                  *)
(***************************************************************************)
EXTENDS Integers, Sequences, FiniteSets, FiniteSetsExt, Tables

CONSTANTS
    Nodes, Observers,           \* the targets CoreScope indexes
    MinNodes,                   \* poll.min_nodes
    FloorNum, FloorDen,         \* poll.min_node_fraction
    MaxPollsWithoutAdvance,     \* poll.max_polls_without_advance
    HistoryLimit,               \* 20 in ConsecutiveNonAdvancingPolls
    MaxAge,                     \* bound: the oldest age told apart
    MaxRuns                     \* bound: rows of poll_runs when a poll starts

ASSUME FeedJudgeAssumption ==
    /\ IsFiniteSet(Nodes) /\ IsFiniteSet(Observers) /\ Nodes \intersect Observers = {}
    /\ MinNodes \in Nat
    /\ FloorNum \in Nat /\ FloorDen \in Nat \ {0} /\ FloorNum <= FloorDen
    /\ MaxPollsWithoutAdvance \in Nat \ {0} /\ HistoryLimit \in Nat
    /\ MaxAge \in Nat
    /\ MaxRuns \in Nat \ {0}

VARIABLES
    stored,     \* targets.last_seen_at, as an age, or Never
    runs,       \* poll_runs, newest first
    phase,      \* how far PollOnce has got
    snap,       \* the targets in the last snapshot served
    advanced,   \* whether it moved any forward
    verdict,    \* the status the last poll was given
    \* History.
    frozen      \* the believed polls on record since a target last advanced, or
                \* since the week behind last held none

poll == <<phase, snap, advanced, verdict>>
vars == <<stored, runs, poll, frozen>>

Targets  == Nodes \union Observers
Never    == MaxAge + 1
Phases   == {"idle", "fetching", "fetched", "failed", "judged"}
Statuses == {"failed", "suspect", "ok"}
Run      == [status : Statuses, nodes : Nat, advanced : BOOLEAN, recent : BOOLEAN]

Init ==
    /\ stored = [t \in Targets |-> Never]
    /\ runs = <<>>
    /\ phase = "idle" /\ snap = {} /\ advanced = FALSE /\ verdict = "failed"
    /\ frozen = 0

-------------------------------------------------------------------------------
(***************************************************************************)
(* What the store answers.                                                 *)
(***************************************************************************)
\* The yardstick for an implausibly small poll; 0 when there is none.
MaxRecentNodeCount ==
    Max({0} \union {runs[i].nodes : i \in {j \in DOMAIN runs : runs[j].status = "ok"
                                                               /\ runs[j].recent}})

\* The polls that were judged, newest first.  The run in progress is still
\* marked failed, so it is not one of them.
Counted == {i \in DOMAIN runs : runs[i].status \in {"ok", "suspect"}}

\* How many of the newest have moved nothing.
Standing(judged) ==
    LET still == {i \in judged : \A j \in judged : j <= i => ~runs[j].advanced}
    IN  Min({HistoryLimit, Cardinality(still)})

NonAdvancingPollsOffByOne ==
    IF Counted = {} THEN 0 ELSE Standing(Counted \ {Min(Counted)})

ConsecutiveNonAdvancingPolls == Standing(Counted)

JudgeFeedByHistory(fetched, nodes, moved) ==
    IF ~fetched THEN "failed"
    ELSE IF \/ nodes < MinNodes
            \/ nodes < (MaxRecentNodeCount * FloorNum) \div FloorDen
            \/ /\ MaxRecentNodeCount > 0
               /\ ConsecutiveNonAdvancingPolls >= MaxPollsWithoutAdvance
         THEN "suspect"
    ELSE "ok"

\* A small poll, or a full one in which nothing moves any more.
JudgeFeed(fetched, nodes, moved) ==
    IF ~fetched THEN "failed"
    ELSE IF \/ nodes < MinNodes
            \/ nodes < (MaxRecentNodeCount * FloorNum) \div FloorDen
            \/ /\ MaxRecentNodeCount > 0
               /\ ~moved
               /\ ConsecutiveNonAdvancingPolls >= MaxPollsWithoutAdvance
         THEN "suspect"
    ELSE "ok"

-------------------------------------------------------------------------------
(***************************************************************************)
(* PollOnce.                                                               *)
(***************************************************************************)
StartPollRun ==
    /\ phase = "idle"
    /\ Len(runs) < MaxRuns
    /\ runs' = <<[status |-> "failed", nodes |-> 0, advanced |-> FALSE, recent |-> TRUE]>> \o runs
    /\ phase' = "fetching"
    /\ UNCHANGED <<stored, snap, advanced, verdict, frozen>>

\* Either of the two lists, or any page of the first.
FetchFails ==
    /\ phase = "fetching"
    /\ phase' = "failed"
    /\ snap' = {} /\ advanced' = FALSE
    /\ UNCHANGED <<stored, runs, verdict, frozen>>

UpsertOverwriting(view) ==
    [t \in Targets |-> IF t \in DOMAIN view THEN view[t] ELSE stored[t]]

\* Timestamps only ever move forward.
Upsert(view) ==
    [t \in Targets |-> IF t \in DOMAIN view THEN Min({view[t], stored[t]}) ELSE stored[t]]

NodeCount == Cardinality(snap \intersect Nodes)

\* A first sighting is not an advance.  An observer counts like a node.
Moved(view) == {t \in DOMAIN view : stored[t] # Never /\ view[t] < stored[t]}

\* The fetch returns, and what it returned is written before it is judged.
UpsertTargets(view) ==
    /\ phase = "fetching"
    /\ phase' = "fetched"
    /\ snap' = DOMAIN view
    /\ stored' = Upsert(view)
    /\ advanced' = (Moved(view) # {})
    /\ frozen' = IF advanced' THEN 0 ELSE frozen
    /\ UNCHANGED <<runs, verdict>>

\* The verdict; a believed poll is evaluated, against the snapshot, at once.
Judge ==
    /\ phase \in {"fetched", "failed"}
    /\ phase' = "judged"
    /\ verdict' = JudgeFeed(phase = "fetched", NodeCount, advanced)
    /\ UNCHANGED <<stored, runs, snap, advanced, frozen>>

Idle ==
    /\ phase' = "idle"
    /\ snap' = {} /\ advanced' = FALSE /\ verdict' = "failed"

\* frozen is kept up to one more than may be believed.
FinishPollRun ==
    /\ phase = "judged"
    /\ Idle
    /\ runs' = [runs EXCEPT ![1] = [@ EXCEPT !.status = verdict,
                                             !.nodes = NodeCount,
                                             !.advanced = advanced]]
    /\ frozen' = IF verdict = "ok" /\ ~advanced /\ frozen <= MaxPollsWithoutAdvance
                 THEN frozen + 1 ELSE frozen
    /\ UNCHANGED stored

\* The run the process was in stays the failed run it was started as.
Crash ==
    /\ phase # "idle"
    /\ Idle
    /\ UNCHANGED <<stored, runs, frozen>>

-------------------------------------------------------------------------------
\* Every last-seen time is one tick older.
Tick ==
    /\ stored' = [t \in Targets |-> IF stored[t] \in 0..(MaxAge - 1) THEN stored[t] + 1
                                    ELSE stored[t]]
    /\ stored' # stored
    /\ UNCHANGED <<runs, poll, frozen>>

\* Runs from the n-th back leave the week: the poll loop has been busy, or
\* the process down, for that long.
Expire(n) ==
    /\ phase = "idle"
    /\ runs[n].recent
    /\ runs' = [i \in DOMAIN runs |-> [runs[i] EXCEPT !.recent = @ /\ i < n]]
    /\ frozen' = IF MaxRecentNodeCount' = 0 THEN 0 ELSE frozen
    /\ UNCHANGED <<stored, poll>>

\* Housekeeping, once an hour: a run is kept for a month.  (Here it may go as
\* soon as it has left the week.)
Prune(n) ==
    /\ ~runs[n].recent
    /\ runs' = SubSeq(runs, 1, n - 1)
    /\ frozen' = Min({frozen, Cardinality({i \in 1..(n - 1) : runs[i].status = "ok"})})
    /\ UNCHANGED <<stored, poll>>

\* Any nodes, as their list is read page by page and ends with an empty page.
\* A time that is missing or cannot be parsed fails nothing.  (A list that
\* changes between two pages may also name a node twice: left out.)
FetchNodes     == UNION {[listed -> 0..Never] : listed \in SUBSET Nodes}
FetchObservers == UNION {[listed -> 0..Never] : listed \in SUBSET Observers}

\* Both lists, or none.
Fetch == {Upserted(nodes, observers) : nodes \in FetchNodes, observers \in FetchObservers}

PollOnce ==
    \/ StartPollRun \/ FetchFails \/ Judge \/ FinishPollRun
    \/ \E view \in Fetch : UpsertTargets(view)

Next ==
    \/ PollOnce \/ Crash \/ Tick
    \/ \E n \in DOMAIN runs : Expire(n) \/ Prune(n)

\* The poll loop runs for as long as the process does, and it is restarted.
Spec == Init /\ [][Next]_vars /\ WF_vars(PollOnce)

-------------------------------------------------------------------------------
TypeOK ==
    /\ stored \in [Targets -> 0..Never]
    /\ runs \in Seq(Run) /\ Len(runs) <= MaxRuns
    /\ phase \in Phases
    /\ snap \subseteq Targets
    /\ advanced \in BOOLEAN
    /\ verdict \in Statuses
    /\ frozen \in 0..(MaxPollsWithoutAdvance + 1)

(***************************************************************************)
(* The verdict's cautious side: a feed in which nothing moves is believed  *)
(* MaxPollsWithoutAdvance times and then no longer, whatever mixture of    *)
(* failed, small and healthy polls it comes in, and however many polls     *)
(* housekeeping and crashes make the store forget.  The count starts again *)
(* when a target advances, and when the week behind holds no believed poll *)
(* to compare with.  (With poll.min_nodes zero, a believed poll may be     *)
(* empty and nothing to compare with; of more polls than the history       *)
(* holds, none are told: two settings the code does not refuse.)           *)
(*                                                                         *)
(* It is one poll more than documented.  FeedInputs counts "prior polls,   *)
(* including this one" (alert.go:269) and the setting is "for this many    *)
(* consecutive polls, treat the data as stale" (config.go:212), which      *)
(* would disbelieve the MaxPollsWithoutAdvance-th; the run in progress is  *)
(* still marked failed when the runs are counted, so it is the next one.   *)
(***************************************************************************)
FrozenBeliefIsBounded ==
    MinNodes > 0 /\ MaxPollsWithoutAdvance <= HistoryLimit => frozen <= MaxPollsWithoutAdvance

(***************************************************************************)
(* A poll can only move a target's last-seen time forward, however stale   *)
(* or partial the view it served and however often it crashed half way.    *)
(***************************************************************************)
StoredNeverRegresses ==
    [][phase' # phase => \A t \in Targets : stored'[t] <= stored[t]]_vars

(***************************************************************************)
(* And its other side: no history of frozen, small or failed polls is held *)
(* against a poll that returns every target and moves at least one, unless *)
(* the mesh itself has fewer nodes than poll.min_nodes.                    *)
(***************************************************************************)
HealthyPollIsBelieved ==
    phase = "judged" /\ snap = Targets /\ advanced
        => verdict = "ok" \/ Cardinality(Nodes) < MinNodes

===============================================================================
