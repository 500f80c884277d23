--------------------------- MODULE FeedJudge_proofs ---------------------------
(***************************************************************************)
(* Proofs about FeedJudge, for any nodes, limits and histories: stored     *)
(* times only move forward, a healthy poll is believed whatever came       *)
(* before it, and a feed that stands still is not believed for long.       *)
(***************************************************************************)
EXTENDS FeedJudge, FiniteSetTheorems, TLAPS

-------------------------------------------------------------------------------
(***************************************************************************)
(* Least and greatest, and counting.                                       *)
(***************************************************************************)
LEMMA MinOfTwo ==
    ASSUME NEW a \in Int, NEW b \in Int
    PROVE  Min({a, b}) = IF a <= b THEN a ELSE b
<1>1. \E x \in {a, b} : \A y \in {a, b} : x <= y
  OBVIOUS
<1>2. Min({a, b}) \in {a, b} /\ \A y \in {a, b} : Min({a, b}) <= y
  BY <1>1 DEF Min
<1> QED
  BY <1>2

\* A set of numbers with a bound has a greatest: the distances to the bound
\* have a least.
LEMMA GreatestOf ==
    ASSUME NEW n \in Nat, NEW S, S \subseteq 0..n, S # {}
    PROVE  Max(S) \in S /\ \A y \in S : y <= Max(S)
<1> DEFINE T == {n - x : x \in S}
           R == OpToRel(<, Nat)
<1>1. \A x \in S : n - x \in Nat
  OBVIOUS
<1>2. T \subseteq Nat /\ T # {}
  BY <1>1
<1>3. IsWellFoundedOn(R, Nat)
  BY NatLessThanWellFounded
<1>4. \A x, y \in Nat : x < y => <<x, y>> \in R
  BY DEF OpToRel
<1> HIDE DEF R, T
<1>5. PICK x \in T : \A y \in T : ~ (<<y, x>> \in R)
  BY <1>2, <1>3, WFMin
<1>6. PICK m \in S : x = n - m
  BY <1>5 DEF T
<1>7. ASSUME NEW k \in S PROVE m >= k
  <2>1. n - k \in T /\ n - k \in Nat /\ n - m \in Nat
    BY <1>7 DEF T
  <2>2. ~(n - k < n - m)
    BY <2>1, <1>4, <1>5, <1>6
  <2> QED
    BY <2>2
<1>8. \E y \in S : \A z \in S : y >= z
  BY <1>7
<1>9. Max(S) \in S /\ \A z \in S : Max(S) >= z
  BY <1>8 DEF Max
<1>10. \A z \in S : z \in Int
  OBVIOUS
<1> QED
  BY <1>9, <1>10

\* As many positions, one further back.
LEMMA Shifted ==
    ASSUME NEW S, IsFiniteSet(S), S \subseteq Nat
    PROVE  Cardinality({i + 1 : i \in S}) = Cardinality(S)
<1> DEFINE T == {i + 1 : i \in S}
           f == [i \in S |-> i + 1]
<1>1. f \in [S -> T]
  OBVIOUS
<1>2. \A a, b \in S : f[a] = f[b] => a = b
  OBVIOUS
<1>3. \A t \in T : \E s \in S : f[s] = t
  OBVIOUS
<1> HIDE DEF f, T
<1>4. f \in Bijection(S, T)
  BY <1>1, <1>2, <1>3 DEF Bijection, Injection, Surjection, IsInjective
<1>5. ExistsBijection(S, T)
  BY <1>4 DEF ExistsBijection
<1>6. Cardinality(S) = Cardinality(T)
  BY <1>5, FS_Bijection
<1> QED
  BY <1>6 DEF T

\* min_node_fraction is at most one: the floor is no more than the peak.
LEMMA FloorIsBelow ==
    ASSUME NEW m \in Nat
    PROVE  (m * FloorNum) \div FloorDen <= m
<1>1. FloorNum \in Nat /\ FloorDen \in Nat /\ FloorDen > 0 /\ FloorNum <= FloorDen
  BY FeedJudgeAssumption
<1> DEFINE p == m * FloorNum
           q == p \div FloorDen
<1>2. p \in Nat /\ p <= m * FloorDen
  BY <1>1, SMTT(30)
<1> HIDE DEF p
<1>3. q \in Int /\ q * FloorDen <= p
  BY <1>1, <1>2, SMTT(30)
<1>4. q * FloorDen <= m * FloorDen
  BY <1>1, <1>2, <1>3, SMTT(30)
<1> HIDE DEF q
<1>5. q <= m
  BY <1>1, <1>3, <1>4, SMTT(30)
<1> QED
  BY <1>5 DEF p, q

-------------------------------------------------------------------------------
(***************************************************************************)
(* The inductive invariant.                                                *)
(***************************************************************************)
\* A believed poll that moved nothing and is not recorded yet.
Finishing == phase = "judged" /\ verdict = "ok" /\ ~advanced

\* The newest judged runs that moved nothing.
Still == {i \in Counted : \A j \in Counted : j <= i => ~runs[j].advanced}

\* Those of them that were believed: frozen is never more.
Believed == {i \in Still : runs[i].status = "ok"}

\* A run to compare with.
Peak(r) == r.status = "ok" /\ r.recent /\ r.nodes > 0

RunsAreSound ==
    /\ \A i \in DOMAIN runs :
          /\ runs[i].nodes <= Cardinality(Nodes)
          /\ runs[i].advanced => runs[i].status # "failed"
          /\ runs[i].status = "ok" => runs[i].nodes >= MinNodes
    /\ \A i, j \in DOMAIN runs : i <= j /\ runs[j].recent => runs[i].recent

PollIsSound ==
    /\ phase # "idle" => /\ Len(runs) > 0 /\ runs[1].status = "failed" /\ runs[1].recent
                         /\ ~runs[1].advanced
    /\ phase \in {"idle", "fetching", "failed"} => ~advanced
    /\ phase = "judged" /\ verdict = "failed" => ~advanced
    /\ phase = "judged" /\ verdict = "ok" => NodeCount >= MinNodes
    /\ advanced => frozen = 0

BeliefIsRecorded ==
    MinNodes > 0 /\ MaxPollsWithoutAdvance <= HistoryLimit =>
        /\ frozen <= MaxPollsWithoutAdvance
        /\ Finishing => frozen < MaxPollsWithoutAdvance
        /\ frozen <= Cardinality(Believed)
        /\ frozen > 0 => \E i \in DOMAIN runs : Peak(runs[i])

IInv == TypeOK /\ RunsAreSound /\ PollIsSound /\ BeliefIsRecorded /\ HealthyPollIsBelieved

LEMMA MeshIsFinite ==
    /\ Cardinality(Nodes) \in Nat
    /\ \A s \in SUBSET Targets : /\ Cardinality(s \intersect Nodes) \in Nat
                                 /\ Cardinality(s \intersect Nodes) <= Cardinality(Nodes)
    /\ Targets \intersect Nodes = Nodes
<1>1. IsFiniteSet(Nodes)
  BY FeedJudgeAssumption
<1>2. ASSUME NEW s \in SUBSET Targets
      PROVE  /\ Cardinality(s \intersect Nodes) \in Nat
             /\ Cardinality(s \intersect Nodes) <= Cardinality(Nodes)
  <2> DEFINE t == s \intersect Nodes
  <2>1. t \in SUBSET Nodes
    OBVIOUS
  <2> HIDE DEF t
  <2>2. IsFiniteSet(t) /\ Cardinality(t) <= Cardinality(Nodes)
    BY <1>1, <2>1, FS_Subset
  <2> QED
    BY <2>2, FS_CardinalityType DEF t
<1> QED
  BY <1>1, <1>2, FS_CardinalityType DEF Targets

LEMMA RunsAreRuns ==
    ASSUME TypeOK
    PROVE  /\ Len(runs) \in Nat /\ DOMAIN runs = 1..Len(runs)
           /\ \A i \in DOMAIN runs : runs[i] \in Run
           /\ \A i \in DOMAIN runs : /\ runs[i].nodes \in Nat /\ runs[i].status \in Statuses
                                     /\ runs[i].advanced \in BOOLEAN /\ runs[i].recent \in BOOLEAN
<1>1. runs \in Seq(Run)
  BY DEF TypeOK
<1>2. Len(runs) \in Nat /\ DOMAIN runs = 1..Len(runs) /\ \A i \in DOMAIN runs : runs[i] \in Run
  BY <1>1
<1>3. \A r \in Run : /\ r.nodes \in Nat /\ r.status \in Statuses
                     /\ r.advanced \in BOOLEAN /\ r.recent \in BOOLEAN
  BY DEF Run
<1> QED
  BY <1>2, <1>3

\* What the yardstick says of a history.
LEMMA PeakOf ==
    ASSUME NEW n \in Nat, NEW rs, \A i \in DOMAIN rs : rs[i].nodes \in 0..n
    PROVE  LET most == Max({0} \union {rs[i].nodes : i \in {j \in DOMAIN rs : rs[j].status = "ok"
                                                                            /\ rs[j].recent}})
           IN  most \in 0..n /\ (most > 0 <=> \E i \in DOMAIN rs : Peak(rs[i]))
<1> DEFINE S == {0} \union {rs[i].nodes : i \in {j \in DOMAIN rs : rs[j].status = "ok"
                                                                 /\ rs[j].recent}}
<1>1. S \subseteq 0..n /\ S # {}
  OBVIOUS
<1>2. \A i \in DOMAIN rs : Peak(rs[i]) => rs[i].nodes \in S /\ rs[i].nodes > 0
  BY DEF Peak
<1>3. \A x \in S : x = 0 \/ \E i \in DOMAIN rs : rs[i].status = "ok" /\ rs[i].recent
                                                /\ rs[i].nodes = x
  OBVIOUS
<1> HIDE DEF S
<1>4. Max(S) \in S /\ \A y \in S : y <= Max(S)
  BY <1>1, GreatestOf
<1>5. Max(S) \in 0..n
  BY <1>1, <1>4
<1>6. \A i \in DOMAIN rs : Peak(rs[i]) => Max(S) > 0
  BY <1>2, <1>4, <1>5
<1>7. Max(S) > 0 => \E i \in DOMAIN rs : Peak(rs[i])
  BY <1>3, <1>4, <1>5 DEF Peak
<1> QED
  BY <1>5, <1>6, <1>7 DEF S

LEMMA PeakIsMeasured ==
    ASSUME TypeOK, RunsAreSound
    PROVE  /\ MaxRecentNodeCount \in Nat /\ MaxRecentNodeCount <= Cardinality(Nodes)
           /\ (\E i \in DOMAIN runs : Peak(runs[i])) => MaxRecentNodeCount > 0
<1>1. Cardinality(Nodes) \in Nat /\ \A i \in DOMAIN runs : runs[i].nodes \in 0..Cardinality(Nodes)
  BY RunsAreRuns, MeshIsFinite DEF RunsAreSound
<1>2. MaxRecentNodeCount \in 0..Cardinality(Nodes)
      /\ (MaxRecentNodeCount > 0 <=> \E i \in DOMAIN runs : Peak(runs[i]))
  BY <1>1, PeakOf DEF MaxRecentNodeCount
<1> QED
  BY <1>1, <1>2

LEMMA FiniteRange ==
    ASSUME NEW n \in Nat, NEW S, S \subseteq 1..n
    PROVE  IsFiniteSet(S) /\ Cardinality(S) \in Nat
<1>1. 1 \in Int /\ n \in Int
  OBVIOUS
<1>2. IsFiniteSet(1..n)
  BY <1>1, FS_Interval
<1>3. IsFiniteSet(S)
  BY <1>2, FS_Subset
<1> QED
  BY <1>3, FS_CardinalityType

LEMMA StillIsFinite ==
    ASSUME TypeOK
    PROVE  IsFiniteSet(Still) /\ Cardinality(Still) \in Nat /\ Still \subseteq 1..Len(runs)
<1>1. Still \subseteq 1..Len(runs) /\ Len(runs) \in Nat
  BY DEF Still, Counted, TypeOK
<1> QED
  BY <1>1, FiniteRange

LEMMA BelievedIsFinite ==
    ASSUME TypeOK
    PROVE  /\ IsFiniteSet(Believed) /\ Cardinality(Believed) \in Nat
           /\ Cardinality(Believed) <= Cardinality(Still) /\ Believed \subseteq 1..Len(runs)
<1>1. Believed \subseteq Still
  BY DEF Believed
<1> QED
  BY <1>1, StillIsFinite, FS_Subset, FS_CardinalityType

\* The count the store gives is that of the newest judged runs that stand
\* still, up to its limit.
LEMMA StandingIsStill ==
    ASSUME TypeOK, NEW n \in Nat, n <= HistoryLimit, n <= Cardinality(Still)
    PROVE  ConsecutiveNonAdvancingPolls >= n /\ ConsecutiveNonAdvancingPolls \in Nat
<1>1. ConsecutiveNonAdvancingPolls = Min({HistoryLimit, Cardinality(Still)})
  BY DEF ConsecutiveNonAdvancingPolls, Standing, Still
<1>2. HistoryLimit \in Nat /\ Cardinality(Still) \in Nat
  BY FeedJudgeAssumption, StillIsFinite
<1> DEFINE c == Cardinality(Still)
<1> HIDE DEF c
<1>3. Min({HistoryLimit, c}) = IF HistoryLimit <= c THEN HistoryLimit ELSE c
  BY <1>2, MinOfTwo DEF c
<1> QED
  BY <1>1, <1>2, <1>3 DEF c

-------------------------------------------------------------------------------
(***************************************************************************)
(* What is fetched, written and judged.                                    *)
(***************************************************************************)
LEMMA FetchedTimes ==
    ASSUME NEW view \in Fetch
    PROVE  DOMAIN view \subseteq Targets /\ \A t \in DOMAIN view : view[t] \in 0..Never
<1>1. PICK nodes \in FetchNodes, observers \in FetchObservers : view = Upserted(nodes, observers)
  BY DEF Fetch
<1>2. DOMAIN nodes \subseteq Nodes /\ \A t \in DOMAIN nodes : nodes[t] \in 0..Never
  BY DEF FetchNodes
<1>3. DOMAIN observers \subseteq Observers /\ \A t \in DOMAIN observers : observers[t] \in 0..Never
  BY DEF FetchObservers
<1> QED
  BY <1>1, <1>2, <1>3 DEF Upserted, Targets

\* A stored time is only ever replaced by a later one: a smaller age.
LEMMA UpsertIsMonotonic ==
    ASSUME TypeOK, NEW view \in Fetch
    PROVE  /\ Upsert(view) \in [Targets -> 0..Never]
           /\ \A t \in Targets : Upsert(view)[t] <= stored[t]
<1>1. Never \in Nat
  BY FeedJudgeAssumption DEF Never
<1>2. ASSUME NEW t \in Targets PROVE Upsert(view)[t] \in 0..Never /\ Upsert(view)[t] <= stored[t]
  <2>1. stored[t] \in 0..Never
    BY DEF TypeOK
  <2>2. CASE t \in DOMAIN view
    <3>1. view[t] \in 0..Never
      BY <2>2, FetchedTimes
    <3> DEFINE a == view[t]
               b == stored[t]
    <3>2. Upsert(view)[t] = Min({a, b})
      BY <2>2 DEF Upsert
    <3>3. a \in Int /\ b \in Int /\ a \in 0..Never /\ b \in 0..Never
      BY <1>1, <2>1, <3>1
    <3> HIDE DEF a, b
    <3>4. Min({a, b}) = IF a <= b THEN a ELSE b
      BY <3>3, MinOfTwo
    <3>5. Min({a, b}) \in 0..Never /\ Min({a, b}) <= b
      BY <1>1, <3>3, <3>4
    <3> QED
      BY <3>2, <3>5 DEF b
  <2>3. CASE t \notin DOMAIN view
    BY <1>1, <2>1, <2>3 DEF Upsert
  <2> QED
    BY <2>2, <2>3
<1>3. Upsert(view) \in [Targets -> 0..Never]
  <2>1. Upsert(view) = [t \in Targets |-> Upsert(view)[t]]
    BY DEF Upsert
  <2> QED
    BY <1>2, <2>1
<1> QED
  BY <1>2, <1>3

\* What a verdict says, either way.
LEMMA VerdictSays ==
    ASSUME TypeOK, RunsAreSound, NEW fetched \in BOOLEAN, NEW nodes \in Nat, NEW moved \in BOOLEAN
    PROVE  LET v == JudgeFeed(fetched, nodes, moved)
           IN  /\ v \in Statuses
               /\ v = "failed" <=> ~fetched
               /\ v = "ok" => nodes >= MinNodes
               /\ v = "ok" /\ ~moved /\ MaxRecentNodeCount > 0
                     => ~(ConsecutiveNonAdvancingPolls >= MaxPollsWithoutAdvance)
               /\ fetched /\ moved /\ nodes >= MinNodes /\ nodes = Cardinality(Nodes) => v = "ok"
<1>1. MaxRecentNodeCount \in Nat /\ MaxRecentNodeCount <= Cardinality(Nodes)
  BY PeakIsMeasured
<1> DEFINE floor == (MaxRecentNodeCount * FloorNum) \div FloorDen
<1>2. floor <= MaxRecentNodeCount
  BY <1>1, FloorIsBelow
<1>3. floor \in Int
  BY <1>1, FeedJudgeAssumption
<1> DEFINE v == JudgeFeed(fetched, nodes, moved)
<1>4. v = IF ~fetched THEN "failed"
          ELSE IF \/ nodes < MinNodes
                  \/ nodes < floor
                  \/ /\ MaxRecentNodeCount > 0
                     /\ ~moved
                     /\ ConsecutiveNonAdvancingPolls >= MaxPollsWithoutAdvance
               THEN "suspect"
          ELSE "ok"
  BY DEF JudgeFeed
<1>5. MinNodes \in Nat
  BY FeedJudgeAssumption
<1> HIDE DEF floor, v
<1>6. nodes = Cardinality(Nodes) => ~(nodes < floor)
  BY <1>1, <1>2, <1>3
<1>7. v = "ok" => nodes >= MinNodes
  BY <1>4, <1>5
<1>8. /\ v \in Statuses
      /\ v = "failed" <=> ~fetched
      /\ v = "ok" /\ ~moved /\ MaxRecentNodeCount > 0
            => ~(ConsecutiveNonAdvancingPolls >= MaxPollsWithoutAdvance)
  BY <1>4 DEF Statuses
<1>9. fetched /\ moved /\ nodes >= MinNodes /\ nodes = Cardinality(Nodes) => v = "ok"
  BY <1>4, <1>5, <1>6
<1> QED
  BY <1>7, <1>8, <1>9 DEF v

-------------------------------------------------------------------------------
(***************************************************************************)
(* Each step keeps the invariant.                                          *)
(***************************************************************************)
LEMMA InitIInv == Init => IInv
<1> SUFFICES ASSUME Init PROVE IInv
  OBVIOUS
<1>1. Len(runs) = 0 /\ DOMAIN runs = {} /\ runs \in Seq(Run)
  BY DEF Init
<1>2. TypeOK
  <2>1. stored \in [Targets -> 0..Never]
    BY FeedJudgeAssumption DEF Init, Never
  <2>2. 0 \in 0..(MaxPollsWithoutAdvance + 1) /\ 0 <= MaxRuns
    BY FeedJudgeAssumption
  <2> QED
    BY <1>1, <2>1, <2>2 DEF Init, TypeOK, Phases, Statuses
<1>3. RunsAreSound
  BY <1>1 DEF RunsAreSound
<1>4. PollIsSound /\ HealthyPollIsBelieved /\ ~Finishing
  BY DEF Init, PollIsSound, HealthyPollIsBelieved, Finishing
<1>5. BeliefIsRecorded
  <2>1. frozen = 0
    BY DEF Init
  <2>2. Cardinality(Believed) \in Nat
    BY <1>2, BelievedIsFinite
  <2> QED
    BY <1>4, <2>1, <2>2, FeedJudgeAssumption DEF BeliefIsRecorded
<1> QED
  BY <1>2, <1>3, <1>4, <1>5 DEF IInv

\* Where poll_runs is left as it is, so is what it says.
LEMMA SameHistory ==
    ASSUME RunsAreSound, runs' = runs
    PROVE  RunsAreSound' /\ Still' = Still /\ Believed' = Believed
  BY DEF RunsAreSound, Still, Counted, Believed

LEMMA BeliefKept ==
    ASSUME BeliefIsRecorded, runs' = runs, frozen' = frozen, Finishing' => Finishing
    PROVE  BeliefIsRecorded'
<1>1. Believed' = Believed
  BY DEF Still, Counted, Believed
<1>2. (\E i \in DOMAIN runs' : Peak(runs'[i])) <=> \E i \in DOMAIN runs : Peak(runs[i])
  OBVIOUS
<1> QED
  BY <1>1, <1>2 DEF BeliefIsRecorded

LEMMA FetchFailsStep == ASSUME IInv, FetchFails PROVE IInv'
<1>1. /\ phase = "fetching" /\ phase' = "failed" /\ snap' = {} /\ advanced' = FALSE
      /\ UNCHANGED <<stored, runs, verdict, frozen>>
  BY DEF FetchFails
<1>2. TypeOK'
  BY <1>1 DEF IInv, TypeOK, Phases
<1>3. RunsAreSound'
  BY <1>1, SameHistory DEF IInv
<1>4. PollIsSound' /\ HealthyPollIsBelieved'
  BY <1>1 DEF IInv, PollIsSound, HealthyPollIsBelieved, Finishing
<1>5. BeliefIsRecorded'
  <2>1. Finishing' => Finishing
    BY <1>1 DEF Finishing
  <2> QED
    BY <1>1, <2>1, BeliefKept DEF IInv
<1> QED
  BY <1>2, <1>3, <1>4, <1>5 DEF IInv

\* A target that moved begins the count anew.
LEMMA UpsertTargetsStep == ASSUME IInv, NEW view \in Fetch, UpsertTargets(view) PROVE IInv'
<1>1. /\ phase = "fetching" /\ phase' = "fetched" /\ snap' = DOMAIN view
      /\ stored' = Upsert(view) /\ advanced' = (Moved(view) # {})
      /\ frozen' = IF advanced' THEN 0 ELSE frozen
      /\ runs' = runs /\ verdict' = verdict
  BY DEF UpsertTargets
<1>2. advanced' \in BOOLEAN
  BY <1>1
<1>3. TypeOK'
  <2>1. stored' \in [Targets -> 0..Never] /\ snap' \subseteq Targets
    BY <1>1, UpsertIsMonotonic, FetchedTimes DEF IInv
  <2>2. frozen' \in 0..(MaxPollsWithoutAdvance + 1)
    <3>1. 0 \in 0..(MaxPollsWithoutAdvance + 1)
      BY FeedJudgeAssumption
    <3>2. CASE advanced'
      BY <1>1, <3>1, <3>2
    <3>3. CASE ~advanced'
      BY <1>1, <3>3 DEF IInv, TypeOK
    <3> QED
      BY <3>2, <3>3
  <2> QED
    BY <1>1, <1>2, <2>1, <2>2 DEF IInv, TypeOK, Phases
<1>4. RunsAreSound'
  BY <1>1, SameHistory DEF IInv
<1>5. PollIsSound' /\ HealthyPollIsBelieved'
  BY <1>1 DEF IInv, PollIsSound, HealthyPollIsBelieved, Finishing
<1>6. BeliefIsRecorded'
  <2>1. ~Finishing'
    BY <1>1 DEF Finishing
  <2>2. CASE advanced'
    <3>1. frozen' = 0 /\ Believed' = Believed
      BY <1>1, <2>2, SameHistory DEF IInv
    <3>2. Cardinality(Believed) \in Nat
      BY BelievedIsFinite DEF IInv
    <3> QED
      BY <2>1, <3>1, <3>2, FeedJudgeAssumption DEF BeliefIsRecorded
  <2>3. CASE ~advanced'
    BY <1>1, <2>1, <2>3, BeliefKept DEF IInv
  <2> QED
    BY <2>2, <2>3
<1> QED
  BY <1>3, <1>4, <1>5, <1>6 DEF IInv

\* A poll that moves nothing is only believed while fewer than the limit are
\* on record, of those since something last moved.
LEMMA JudgeStep == ASSUME IInv, Judge PROVE IInv'
<1> DEFINE v == JudgeFeed(phase = "fetched", NodeCount, advanced)
<1>1. /\ phase \in {"fetched", "failed"} /\ phase' = "judged" /\ verdict' = v
      /\ UNCHANGED <<stored, runs, snap, advanced, frozen>>
  BY DEF Judge
<1>2. NodeCount \in Nat /\ (snap = Targets => NodeCount = Cardinality(Nodes))
  BY MeshIsFinite DEF IInv, TypeOK, NodeCount
<1>3. /\ v \in Statuses
      /\ v = "failed" <=> ~(phase = "fetched")
      /\ v = "ok" => NodeCount >= MinNodes
      /\ v = "ok" /\ ~advanced /\ MaxRecentNodeCount > 0
            => ~(ConsecutiveNonAdvancingPolls >= MaxPollsWithoutAdvance)
      /\ phase = "fetched" /\ advanced /\ NodeCount >= MinNodes /\ NodeCount = Cardinality(Nodes)
            => v = "ok"
  <2>1. (phase = "fetched") \in BOOLEAN /\ advanced \in BOOLEAN
    BY DEF IInv, TypeOK
  <2>2. TypeOK /\ RunsAreSound
    BY DEF IInv
  <2> QED
    BY <1>2, <2>1, <2>2, VerdictSays
<1> HIDE DEF v
<1>4. frozen \in Nat /\ MaxPollsWithoutAdvance \in Nat \ {0} /\ MinNodes \in Nat
  BY FeedJudgeAssumption DEF IInv, TypeOK
<1>6. TypeOK'
  BY <1>1, <1>3 DEF IInv, TypeOK, Phases
<1>7. RunsAreSound'
  BY <1>1, SameHistory DEF IInv
<1>8. phase = "failed" => ~advanced
  BY DEF IInv, PollIsSound
<1>9. PollIsSound'
  <2>1. /\ phase' # "idle" => /\ Len(runs') > 0 /\ runs'[1].status = "failed" /\ runs'[1].recent
                              /\ ~runs'[1].advanced
    BY <1>1 DEF IInv, PollIsSound
  <2>2. verdict' = "failed" => ~advanced'
    BY <1>1, <1>3, <1>8
  <2>3. verdict' = "ok" => NodeCount' >= MinNodes
    BY <1>1, <1>3 DEF NodeCount
  <2>4. advanced' => frozen' = 0
    BY <1>1 DEF IInv, PollIsSound
  <2> QED
    BY <1>1, <2>1, <2>2, <2>3, <2>4 DEF PollIsSound
<1>10. HealthyPollIsBelieved'
  <2> SUFFICES ASSUME snap = Targets, advanced, ~(Cardinality(Nodes) < MinNodes) PROVE v = "ok"
    BY <1>1 DEF HealthyPollIsBelieved
  <2>1. phase = "fetched"
    BY <1>1, <1>8
  <2>2. NodeCount >= MinNodes
    BY <1>2, <1>4, MeshIsFinite
  <2> QED
    BY <1>2, <1>3, <2>1, <2>2
<1>11. BeliefIsRecorded'
  <2> SUFFICES ASSUME MinNodes > 0, MaxPollsWithoutAdvance <= HistoryLimit
               PROVE  /\ frozen' <= MaxPollsWithoutAdvance
                      /\ Finishing' => frozen' < MaxPollsWithoutAdvance
                      /\ frozen' <= Cardinality(Believed')
                      /\ frozen' > 0 => \E i \in DOMAIN runs' : Peak(runs'[i])
    BY DEF BeliefIsRecorded
  <2>1. /\ frozen <= MaxPollsWithoutAdvance /\ frozen <= Cardinality(Believed)
        /\ frozen > 0 => \E i \in DOMAIN runs : Peak(runs[i])
    BY DEF IInv, BeliefIsRecorded
  <2>2. Believed' = Believed
    BY <1>1, SameHistory DEF IInv
  <2>3. ASSUME Finishing' PROVE frozen < MaxPollsWithoutAdvance
    <3>1. v = "ok" /\ ~advanced
      BY <1>1, <2>3 DEF Finishing
    <3>2. CASE frozen = 0
      BY <1>4, <3>2
    <3>3. CASE frozen > 0
      <4>1. MaxRecentNodeCount > 0
        BY <2>1, <3>3, PeakIsMeasured DEF IInv
      <4>2. ~(ConsecutiveNonAdvancingPolls >= MaxPollsWithoutAdvance)
        BY <1>3, <3>1, <4>1
      <4>3. HistoryLimit \in Nat /\ frozen <= HistoryLimit
        BY <1>4, <2>1, FeedJudgeAssumption
      <4>4. frozen <= Cardinality(Still)
        BY <1>4, <2>1, BelievedIsFinite, StillIsFinite DEF IInv
      <4>5. ConsecutiveNonAdvancingPolls >= frozen /\ ConsecutiveNonAdvancingPolls \in Nat
        BY <1>4, <4>3, <4>4, StandingIsStill DEF IInv
      <4> QED
        BY <1>4, <4>2, <4>5
    <3> QED
      BY <1>4, <3>2, <3>3
  <2> QED
    BY <1>1, <2>1, <2>2, <2>3
<1> QED
  BY <1>6, <1>7, <1>9, <1>10, <1>11 DEF IInv

LEMMA CrashStep == ASSUME IInv, Crash PROVE IInv'
<1>1. /\ phase' = "idle" /\ snap' = {} /\ advanced' = FALSE /\ verdict' = "failed"
      /\ UNCHANGED <<stored, runs, frozen>>
  BY DEF Crash, Idle
<1>2. TypeOK'
  BY <1>1 DEF IInv, TypeOK, Phases, Statuses
<1>3. RunsAreSound'
  BY <1>1, SameHistory DEF IInv
<1>4. PollIsSound' /\ HealthyPollIsBelieved' /\ ~Finishing'
  BY <1>1 DEF PollIsSound, HealthyPollIsBelieved, Finishing
<1>5. BeliefIsRecorded'
  BY <1>1, <1>4, BeliefKept DEF IInv
<1> QED
  BY <1>2, <1>3, <1>4, <1>5 DEF IInv

\* Times grow older; nothing else happens.
LEMMA TickStep == ASSUME IInv, Tick PROVE IInv'
<1>1. UNCHANGED <<runs, phase, snap, advanced, verdict, frozen>>
  BY DEF Tick, poll
<1>2. stored' \in [Targets -> 0..Never]
  BY FeedJudgeAssumption DEF IInv, TypeOK, Tick, Never
<1>3. TypeOK'
  BY <1>1, <1>2 DEF IInv, TypeOK
<1>4. RunsAreSound'
  BY <1>1, SameHistory DEF IInv
<1>5. PollIsSound' /\ HealthyPollIsBelieved'
  BY <1>1 DEF IInv, PollIsSound, HealthyPollIsBelieved, Finishing, NodeCount
<1>6. BeliefIsRecorded'
  <2>1. Finishing' => Finishing
    BY <1>1 DEF Finishing
  <2> QED
    BY <1>1, <2>1, BeliefKept DEF IInv
<1> QED
  BY <1>3, <1>4, <1>5, <1>6 DEF IInv

-------------------------------------------------------------------------------
(***************************************************************************)
(* The steps that change poll_runs.                                        *)
(***************************************************************************)
\* A run starts: every other one is one further back, and it does not count.
LEMMA StartPollRunStep == ASSUME IInv, StartPollRun PROVE IInv'
<1> DEFINE new == [status |-> "failed", nodes |-> 0, advanced |-> FALSE, recent |-> TRUE]
           n   == Len(runs)
<1>1. /\ phase = "idle" /\ n < MaxRuns /\ runs' = <<new>> \o runs /\ phase' = "fetching"
      /\ UNCHANGED <<stored, snap, advanced, verdict, frozen>>
  BY DEF StartPollRun
<1>2. /\ new \in Run /\ new.status = "failed" /\ new.nodes = 0
      /\ new.advanced = FALSE /\ new.recent = TRUE
  BY DEF Run, Statuses
<1> HIDE DEF new
<1>3. /\ runs \in Seq(Run) /\ n \in Nat /\ DOMAIN runs = 1..n
      /\ \A i \in 1..n : runs[i].nodes \in Nat /\ runs[i].recent \in BOOLEAN
                         /\ runs[i].advanced \in BOOLEAN
  BY RunsAreRuns DEF IInv, TypeOK
<1>4. /\ runs' \in Seq(Run) /\ Len(runs') = n + 1 /\ DOMAIN runs' = 1..(n + 1)
      /\ runs'[1] = new /\ \A i \in 1..n : runs'[i + 1] = runs[i]
  BY <1>1, <1>2, <1>3
<1> HIDE DEF n
<1>5. \A k \in 1..(n + 1) : k = 1 \/ \E i \in 1..n : k = i + 1
  <2>1. ASSUME NEW k \in 1..(n + 1), k # 1 PROVE k - 1 \in 1..n /\ k = (k - 1) + 1
    BY <1>3, <2>1
  <2> QED
    BY <2>1
<1>6. TypeOK'
  <2>1. Len(runs') <= MaxRuns
    BY <1>1, <1>3, <1>4, FeedJudgeAssumption
  <2> QED
    BY <1>1, <1>4, <2>1 DEF IInv, TypeOK, Phases
<1>7. RunsAreSound'
  <2>1. ASSUME NEW k \in DOMAIN runs'
        PROVE  /\ runs'[k].nodes <= Cardinality(Nodes)
               /\ runs'[k].advanced => runs'[k].status # "failed"
               /\ runs'[k].status = "ok" => runs'[k].nodes >= MinNodes
    <3>1. CASE k = 1
      BY <1>2, <1>4, <3>1, MeshIsFinite
    <3>2. CASE \E i \in 1..n : k = i + 1
      <4>1. PICK i \in 1..n : k = i + 1
        BY <3>2
      <4>2. runs'[k] = runs[i] /\ i \in DOMAIN runs
        BY <1>3, <1>4, <4>1
      <4> QED
        BY <4>2 DEF IInv, RunsAreSound
    <3> QED
      BY <1>4, <1>5, <2>1, <3>1, <3>2
  <2>2. ASSUME NEW k \in DOMAIN runs', NEW m \in DOMAIN runs', k <= m, runs'[m].recent
        PROVE  runs'[k].recent
    <3>1. CASE k = 1
      BY <1>2, <1>4, <3>1
    <3>2. CASE k # 1
      <4> m # 1 /\ k \in 1..(n + 1) /\ m \in 1..(n + 1)
        BY <1>3, <1>4, <2>2, <3>2
      <4> PICK i \in 1..n : k = i + 1
        BY <1>5, <3>2
      <4> PICK j \in 1..n : m = j + 1
        BY <1>5
      <4>1. k = i + 1 /\ m = j + 1
        OBVIOUS
      <4>2. i <= j /\ runs[j].recent
        BY <1>3, <1>4, <2>2, <4>1
      <4> QED
        BY <1>3, <1>4, <4>1, <4>2 DEF IInv, RunsAreSound
    <3> QED
      BY <3>1, <3>2
  <2> QED
    BY <2>1, <2>2 DEF RunsAreSound
<1>8. PollIsSound' /\ HealthyPollIsBelieved'
  <2>1. ~advanced
    BY <1>1 DEF IInv, PollIsSound
  <2>2. Len(runs') > 0 /\ runs'[1].status = "failed" /\ runs'[1].recent /\ ~runs'[1].advanced
    BY <1>2, <1>3, <1>4
  <2> QED
    BY <1>1, <2>1, <2>2 DEF PollIsSound, HealthyPollIsBelieved, Finishing
<1>9. Counted' = {i + 1 : i \in Counted}
  <2>1. ASSUME NEW i \in 1..n PROVE i + 1 \in Counted' <=> i \in Counted
    BY <1>3, <1>4, i + 1 \in 1..(n + 1) DEF Counted
  <2>2. 1 \notin Counted'
    BY <1>2, <1>4 DEF Counted
  <2>3. Counted' \subseteq 1..(n + 1) /\ Counted \subseteq 1..n
    BY <1>3, <1>4 DEF Counted
  <2> QED
    BY <1>5, <2>1, <2>2, <2>3
<1>10. Still' = {i + 1 : i \in Still}
  <2>1. Counted \subseteq 1..n /\ Counted' \subseteq 1..(n + 1)
    BY <1>3, <1>4 DEF Counted
  <2>2. ASSUME NEW i \in Counted PROVE i + 1 \in Still' <=> i \in Still
    <3>1. i \in 1..n /\ i + 1 \in Counted'
      BY <1>9, <2>1
    <3>2. i + 1 \in Still' <=> \A m \in Counted' : m <= i + 1 => ~runs'[m].advanced
      BY <3>1 DEF Still
    <3>3. (\A m \in Counted' : m <= i + 1 => ~runs'[m].advanced)
             <=> \A j \in Counted : j + 1 <= i + 1 => ~runs'[j + 1].advanced
      BY <1>9
    <3>4. \A j \in Counted : (j + 1 <= i + 1 <=> j <= i) /\ runs'[j + 1] = runs[j]
      BY <1>4, <2>1, <3>1
    <3> QED
      BY <3>2, <3>3, <3>4 DEF Still
  <2>3. Still' \subseteq Counted' /\ Still \subseteq Counted
    BY DEF Still
  <2> QED
    BY <1>9, <2>2, <2>3
<1>11. Believed' = {i + 1 : i \in Believed}
  <2>1. \A i \in Still : runs'[i + 1] = runs[i]
    BY <1>3, <1>4 DEF Still, Counted
  <2> QED
    BY <1>10, <2>1 DEF Believed
<1>12. BeliefIsRecorded'
  <2>1. ~Finishing'
    BY <1>1 DEF Finishing
  <2>2. Cardinality(Believed') = Cardinality(Believed)
    <3>1. IsFiniteSet(Believed) /\ Believed \subseteq Nat
      BY BelievedIsFinite, <1>3 DEF IInv, n
    <3> QED
      BY <1>11, <3>1, Shifted
  <2>3. (\E i \in DOMAIN runs : Peak(runs[i])) => \E i \in DOMAIN runs' : Peak(runs'[i])
    <3>1. \A i \in 1..n : i + 1 \in DOMAIN runs' /\ runs'[i + 1] = runs[i]
      BY <1>3, <1>4
    <3> QED
      BY <1>3, <3>1
  <2> QED
    BY <1>1, <2>1, <2>2, <2>3 DEF IInv, BeliefIsRecorded
<1> QED
  BY <1>6, <1>7, <1>8, <1>12 DEF IInv

\* The run in progress gets its verdict.  One that was believed and moved
\* nothing is from now on among those that the store counts.
LEMMA FinishPollRunStep == ASSUME IInv, FinishPollRun PROVE IInv'
<1> DEFINE done == [runs[1] EXCEPT !.status = verdict, !.nodes = NodeCount, !.advanced = advanced]
           n    == Len(runs)
<1>1. /\ phase = "judged" /\ phase' = "idle" /\ snap' = {} /\ advanced' = FALSE
      /\ verdict' = "failed" /\ runs' = [runs EXCEPT ![1] = done]
      /\ frozen' = IF verdict = "ok" /\ ~advanced /\ frozen <= MaxPollsWithoutAdvance
                   THEN frozen + 1 ELSE frozen
      /\ stored' = stored
  BY DEF FinishPollRun, Idle
<1>2. /\ n \in Nat /\ n > 0 /\ DOMAIN runs = 1..n /\ runs \in Seq(Run)
      /\ runs[1] \in Run /\ runs[1].status = "failed" /\ runs[1].recent /\ ~runs[1].advanced
      /\ \A i \in 1..n : runs[i].nodes \in Nat /\ runs[i].recent \in BOOLEAN
                         /\ runs[i].advanced \in BOOLEAN
  <2>1. n > 0 /\ runs[1].status = "failed" /\ runs[1].recent /\ ~runs[1].advanced
    BY <1>1 DEF IInv, PollIsSound
  <2> QED
    BY <2>1, RunsAreRuns DEF IInv, TypeOK
<1>3. NodeCount \in Nat /\ NodeCount <= Cardinality(Nodes)
  BY MeshIsFinite DEF IInv, TypeOK, NodeCount
<1>4. verdict \in Statuses /\ advanced \in BOOLEAN
  BY DEF IInv, TypeOK
<1>5. /\ done \in Run /\ done.status = verdict /\ done.nodes = NodeCount
      /\ done.advanced = advanced /\ done.recent = runs[1].recent
  BY <1>2, <1>3, <1>4 DEF Run
<1> HIDE DEF done
<1>6. /\ runs' \in Seq(Run) /\ Len(runs') = n /\ DOMAIN runs' = 1..n
      /\ runs'[1] = done /\ \A i \in 1..n : i # 1 => runs'[i] = runs[i]
  BY <1>1, <1>2, <1>5
<1> HIDE DEF n
<1>7. TypeOK'
  <2>1. n <= MaxRuns
    BY DEF IInv, TypeOK, n
  <2>2. frozen' \in 0..(MaxPollsWithoutAdvance + 1)
    BY <1>1, FeedJudgeAssumption DEF IInv, TypeOK
  <2> QED
    BY <1>1, <1>6, <2>1, <2>2 DEF IInv, TypeOK, Phases, Statuses
<1>8. /\ verdict = "failed" => ~advanced
      /\ verdict = "ok" => NodeCount >= MinNodes
      /\ advanced => frozen = 0
  BY <1>1 DEF IInv, PollIsSound
<1>9. RunsAreSound'
  <2>1. ASSUME NEW k \in DOMAIN runs'
        PROVE  /\ runs'[k].nodes <= Cardinality(Nodes)
               /\ runs'[k].advanced => runs'[k].status # "failed"
               /\ runs'[k].status = "ok" => runs'[k].nodes >= MinNodes
    <3>1. CASE k = 1
      BY <1>3, <1>5, <1>6, <1>8, <3>1
    <3>2. CASE k # 1
      BY <1>2, <1>6, <3>2 DEF IInv, RunsAreSound
    <3> QED
      BY <3>1, <3>2
  <2>2. \A k \in 1..n : runs'[k].recent = runs[k].recent
    BY <1>5, <1>6
  <2>3. \A k, m \in DOMAIN runs' : k <= m /\ runs'[m].recent => runs'[k].recent
    BY <1>2, <1>6, <2>2 DEF IInv, RunsAreSound
  <2> QED
    BY <2>1, <2>3 DEF RunsAreSound
<1>10. PollIsSound' /\ HealthyPollIsBelieved'
  BY <1>1 DEF PollIsSound, HealthyPollIsBelieved, Finishing
<1>11. /\ Counted \subseteq 1..n /\ Counted' \subseteq 1..n /\ 1 \notin Counted
       /\ \A i \in 1..n : i # 1 => (i \in Counted' <=> i \in Counted)
       /\ verdict = "failed" => 1 \notin Counted'
       /\ verdict # "failed" => 1 \in Counted'
  BY <1>2, <1>4, <1>5, <1>6 DEF Counted, Statuses
<1>12. ~advanced => IF verdict = "failed" THEN Still' = Still ELSE Still' = Still \union {1}
  <2> SUFFICES ASSUME ~advanced
               PROVE  IF verdict = "failed" THEN Still' = Still ELSE Still' = Still \union {1}
    OBVIOUS
  <2>1. ~done.advanced
    BY <1>5
  <2>2. ASSUME NEW i \in 1..n, i # 1 PROVE i \in Still' <=> i \in Still
    <3>1. \A j \in Counted' : j <= i => (~runs'[j].advanced <=> j = 1 \/ ~runs[j].advanced)
      BY <1>6, <1>11, <2>1
    <3>2. (\A j \in Counted' : j <= i => ~runs'[j].advanced)
             <=> \A j \in Counted : j <= i => ~runs[j].advanced
      BY <1>6, <1>11, <2>1, <3>1
    <3> QED
      BY <1>11, <2>2, <3>2 DEF Still
  <2>3. 1 \in Counted' => 1 \in Still'
    <3>1. \A j \in Counted' : j <= 1 => j = 1
      BY <1>11, <1>2
    <3> QED
      BY <1>6, <2>1, <3>1 DEF Still
  <2>4. Still \subseteq 1..n /\ Still' \subseteq 1..n /\ 1 \notin Still /\ Still' \subseteq Counted'
    BY <1>11 DEF Still
  <2>5. ASSUME verdict = "failed" PROVE Still' = Still
    <3>1. 1 \notin Still' /\ 1 \notin Still
      BY <1>11, <2>4, <2>5
    <3>2. \A i \in 1..n : i \in Still' <=> i \in Still
      BY <2>2, <3>1
    <3>3. Still \subseteq 1..n /\ Still' \subseteq 1..n
      BY <2>4
    <3> QED
      BY <3>2, <3>3
  <2>6. ASSUME verdict # "failed" PROVE Still' = Still \union {1}
    <3>1. 1 \in Still'
      BY <1>11, <2>3, <2>6
    <3> QED
      BY <2>2, <2>4, <3>1
  <2> QED
    BY <2>5, <2>6
<1>13. ~advanced => Believed' = IF verdict = "ok" THEN Believed \union {1} ELSE Believed
  <2> SUFFICES ASSUME ~advanced
               PROVE  Believed' = IF verdict = "ok" THEN Believed \union {1} ELSE Believed
    OBVIOUS
  <2>1. \A i \in Still : i # 1 /\ runs'[i] = runs[i]
    BY <1>6, <1>11 DEF Still
  <2>2. runs'[1].status = verdict
    BY <1>2, <1>5, <1>6
  <2>3. CASE verdict = "failed"
    BY <1>12, <2>1, <2>3 DEF Believed
  <2>4. CASE verdict # "failed"
    BY <1>12, <2>1, <2>2, <2>4 DEF Believed
  <2> QED
    BY <2>3, <2>4
<1>14. BeliefIsRecorded'
  <2> SUFFICES ASSUME MinNodes > 0, MaxPollsWithoutAdvance <= HistoryLimit
               PROVE  /\ frozen' <= MaxPollsWithoutAdvance
                      /\ frozen' <= Cardinality(Believed')
                      /\ frozen' > 0 => \E i \in DOMAIN runs' : Peak(runs'[i])
    BY <1>1 DEF BeliefIsRecorded, Finishing
  <2>1. /\ frozen <= MaxPollsWithoutAdvance /\ frozen <= Cardinality(Believed)
        /\ Finishing => frozen < MaxPollsWithoutAdvance
        /\ frozen > 0 => \E i \in DOMAIN runs : Peak(runs[i])
    BY DEF IInv, BeliefIsRecorded
  <2>2. /\ frozen \in Nat /\ MinNodes \in Nat /\ MaxPollsWithoutAdvance \in Nat
        /\ IsFiniteSet(Believed) /\ Cardinality(Believed) \in Nat /\ 1 \notin Believed
    BY <1>11, BelievedIsFinite, FeedJudgeAssumption DEF IInv, TypeOK, Believed, Still
  <2>3. (\E i \in DOMAIN runs : Peak(runs[i])) => \E i \in DOMAIN runs' : Peak(runs'[i])
    <3>1. ~Peak(runs[1])
      BY <1>2 DEF Peak
    <3> QED
      BY <1>2, <1>6, <3>1
  <2>4. CASE advanced
    <3>1. frozen' = 0 /\ Cardinality(Believed') \in Nat
      <4>1. Believed' \subseteq 1..n
        BY <1>11 DEF Still, Believed
      <4> QED
        BY <1>1, <1>2, <1>8, <2>4, <4>1, FiniteRange
    <3> QED
      BY <2>2, <3>1
  <2>5. CASE ~advanced /\ verdict # "ok"
    BY <1>1, <1>13, <2>1, <2>3, <2>5
  <2>6. CASE ~advanced /\ verdict = "ok"
    <3>1. Cardinality(Believed') = Cardinality(Believed) + 1
      BY <1>13, <2>2, <2>6, FS_AddElement
    <3>2. frozen < MaxPollsWithoutAdvance
      BY <1>1, <2>1, <2>6 DEF Finishing
    <3>3. frozen' = frozen + 1
      BY <1>1, <2>2, <2>6, <3>2
    <3>4. 1 \in DOMAIN runs' /\ Peak(runs'[1])
      <4>1. done.nodes > 0
        BY <1>3, <1>5, <1>8, <2>2, <2>6
      <4>2. done.status = "ok" /\ done.recent /\ runs'[1] = done /\ 1 \in DOMAIN runs'
        BY <1>2, <1>5, <1>6, <2>6
      <4> QED
        BY <4>1, <4>2 DEF Peak
    <3> QED
      BY <2>1, <2>2, <3>1, <3>2, <3>3, <3>4
  <2> QED
    BY <2>4, <2>5, <2>6
<1> QED
  BY <1>7, <1>9, <1>10, <1>14 DEF IInv

\* Runs leave the week.  Where that leaves nothing to compare with, the count
\* starts again.
LEMMA ExpireStep == ASSUME IInv, NEW n \in DOMAIN runs, Expire(n) PROVE IInv'
<1>1. /\ phase = "idle"
      /\ runs' = [i \in DOMAIN runs |-> [runs[i] EXCEPT !.recent = runs[i].recent /\ i < n]]
      /\ frozen' = IF MaxRecentNodeCount' = 0 THEN 0 ELSE frozen
      /\ UNCHANGED <<stored, phase, snap, advanced, verdict>>
  BY DEF Expire, poll
<1>2. /\ Len(runs) \in Nat /\ DOMAIN runs = 1..Len(runs)
      /\ \A i \in DOMAIN runs : runs[i] \in Run /\ runs[i].recent \in BOOLEAN
  BY RunsAreRuns DEF IInv
<1>3. \A r \in Run, b \in BOOLEAN : /\ [r EXCEPT !.recent = b] \in Run
                                    /\ [r EXCEPT !.recent = b].recent = b
                                    /\ [r EXCEPT !.recent = b].status = r.status
                                    /\ [r EXCEPT !.recent = b].nodes = r.nodes
                                    /\ [r EXCEPT !.recent = b].advanced = r.advanced
  BY DEF Run
<1>4. /\ DOMAIN runs' = DOMAIN runs
      /\ \A i \in DOMAIN runs : /\ runs'[i] \in Run
                                /\ runs'[i].recent = (runs[i].recent /\ i < n)
                                /\ runs'[i].status = runs[i].status
                                /\ runs'[i].nodes = runs[i].nodes
                                /\ runs'[i].advanced = runs[i].advanced
  <2>1. ASSUME NEW i \in DOMAIN runs
        PROVE  \E b \in BOOLEAN : b = (runs[i].recent /\ i < n)
                                  /\ runs'[i] = [runs[i] EXCEPT !.recent = b]
    BY <1>1, (runs[i].recent /\ i < n) \in BOOLEAN
  <2>2. ASSUME NEW i \in DOMAIN runs
        PROVE  /\ runs'[i] \in Run
               /\ runs'[i].recent = (runs[i].recent /\ i < n)
               /\ runs'[i].status = runs[i].status
               /\ runs'[i].nodes = runs[i].nodes
               /\ runs'[i].advanced = runs[i].advanced
    <3>1. PICK b \in BOOLEAN : /\ b = (runs[i].recent /\ i < n)
                               /\ runs'[i] = [runs[i] EXCEPT !.recent = b]
      BY <2>1
    <3>2. runs[i] \in Run
      BY <1>2
    <3>3. /\ [runs[i] EXCEPT !.recent = b] \in Run
          /\ [runs[i] EXCEPT !.recent = b].recent = b
          /\ [runs[i] EXCEPT !.recent = b].status = runs[i].status
          /\ [runs[i] EXCEPT !.recent = b].nodes = runs[i].nodes
          /\ [runs[i] EXCEPT !.recent = b].advanced = runs[i].advanced
      BY <1>3, <3>2, Zenon
    <3> QED
      BY <3>1, <3>3, Zenon
  <2>3. DOMAIN runs' = DOMAIN runs
    BY <1>1
  <2> QED
    BY <2>2, <2>3
<1>5. runs' \in Seq(Run) /\ Len(runs') = Len(runs)
  <2>1. runs' \in [1..Len(runs) -> Run]
    BY <1>1, <1>2, <1>4
  <2> QED
    BY <1>2, <2>1
<1>6. TypeOK'
  <2>1. frozen' \in 0..(MaxPollsWithoutAdvance + 1)
    BY <1>1, FeedJudgeAssumption DEF IInv, TypeOK
  <2> QED
    BY <1>1, <1>5, <2>1 DEF IInv, TypeOK
<1>7. RunsAreSound'
  <2>1. \A i, j \in DOMAIN runs' : i <= j /\ runs'[j].recent => runs'[i].recent
    BY <1>2, <1>4 DEF IInv, RunsAreSound
  <2> QED
    BY <1>4, <2>1 DEF IInv, RunsAreSound
<1>8. PollIsSound' /\ HealthyPollIsBelieved'
  BY <1>1 DEF IInv, PollIsSound, HealthyPollIsBelieved, Finishing
<1>9. Believed' = Believed
  <2>1. Still' = Still /\ Still \subseteq DOMAIN runs
    BY <1>4 DEF Still, Counted
  <2> QED
    BY <1>4, <2>1 DEF Believed
<1>10. BeliefIsRecorded'
  <2> SUFFICES ASSUME MinNodes > 0, MaxPollsWithoutAdvance <= HistoryLimit
               PROVE  /\ frozen' <= MaxPollsWithoutAdvance
                      /\ frozen' <= Cardinality(Believed')
                      /\ frozen' > 0 => \E i \in DOMAIN runs' : Peak(runs'[i])
    BY <1>1 DEF BeliefIsRecorded, Finishing
  <2>1. CASE MaxRecentNodeCount' = 0
    <3>1. frozen' = 0 /\ Cardinality(Believed) \in Nat
      BY <1>1, <2>1, BelievedIsFinite DEF IInv
    <3> QED
      BY <1>9, <3>1, FeedJudgeAssumption
  <2>2. CASE MaxRecentNodeCount' # 0
    <3>1. Cardinality(Nodes) \in Nat
          /\ \A i \in DOMAIN runs' : runs'[i].nodes \in 0..Cardinality(Nodes)
      BY <1>4, RunsAreRuns, MeshIsFinite DEF IInv, RunsAreSound
    <3>2. MaxRecentNodeCount' \in 0..Cardinality(Nodes)
          /\ (MaxRecentNodeCount' > 0 <=> \E i \in DOMAIN runs' : Peak(runs'[i]))
      BY <3>1, PeakOf DEF MaxRecentNodeCount
    <3>3. \E i \in DOMAIN runs' : Peak(runs'[i])
      BY <2>2, <3>1, <3>2
    <3> QED
      BY <1>1, <1>9, <2>2, <3>3 DEF IInv, BeliefIsRecorded
  <2> QED
    BY <2>1, <2>2
<1> QED
  BY <1>6, <1>7, <1>8, <1>10 DEF IInv

\* Old runs go, and where a feed that stands still was counted by them, they
\* are counted no more.
LEMMA PruneStep == ASSUME IInv, NEW n \in DOMAIN runs, Prune(n) PROVE IInv'
<1> DEFINE Left == {i \in 1..(n - 1) : runs[i].status = "ok"}
<1>1. /\ ~runs[n].recent
      /\ runs' = SubSeq(runs, 1, n - 1)
      /\ frozen' = Min({frozen, Cardinality(Left)})
      /\ UNCHANGED <<stored, phase, snap, advanced, verdict>>
  BY DEF Prune, poll
<1>2. /\ Len(runs) \in Nat /\ DOMAIN runs = 1..Len(runs) /\ n \in 1..Len(runs)
      /\ runs \in Seq(Run)
  BY RunsAreRuns DEF IInv, TypeOK
<1>3. /\ runs' \in Seq(Run) /\ Len(runs') = n - 1 /\ DOMAIN runs' = 1..(n - 1)
      /\ \A i \in 1..(n - 1) : runs'[i] = runs[i] /\ i \in DOMAIN runs
  BY <1>1, <1>2
<1> DEFINE c == Cardinality(Left)
<1>3a. c \in Nat /\ Left \subseteq 1..(n - 1)
  <2>1. Left \subseteq 1..(n - 1) /\ n - 1 \in Nat
    BY <1>2
  <2> HIDE DEF Left
  <2> QED
    BY <2>1, FiniteRange
<1>3b. frozen' \in 0..(MaxPollsWithoutAdvance + 1) /\ frozen' <= frozen /\ frozen' <= c
  <2>1. frozen' = Min({frozen, c})
    BY <1>1
  <2>2. frozen \in 0..(MaxPollsWithoutAdvance + 1) /\ frozen \in Nat
    BY FeedJudgeAssumption DEF IInv, TypeOK
  <2> HIDE DEF c, Left
  <2>3. frozen \in Int /\ c \in Int
    BY <1>3a, <2>2
  <2>4. Min({frozen, c}) = IF frozen <= c THEN frozen ELSE c
    BY <2>3, MinOfTwo
  <2> QED
    BY <1>3a, <2>1, <2>2, <2>4, FeedJudgeAssumption
<1> HIDE DEF c, Left
<1>4. TypeOK'
  <2>1. Len(runs') <= MaxRuns
    BY <1>2, <1>3, FeedJudgeAssumption DEF IInv, TypeOK
  <2> QED
    BY <1>1, <1>3, <1>3b, <2>1 DEF IInv, TypeOK
<1>5. RunsAreSound'
  BY <1>3 DEF IInv, RunsAreSound
<1>6. PollIsSound' /\ HealthyPollIsBelieved'
  <2>1. phase # "idle" => n # 1
    BY <1>1 DEF IInv, PollIsSound
  <2>2. n # 1 => 1 \in 1..(n - 1) /\ Len(runs') > 0
    BY <1>2, <1>3
  <2>3. phase # "idle" => /\ Len(runs') > 0 /\ runs'[1].status = "failed" /\ runs'[1].recent
                          /\ ~runs'[1].advanced
    BY <1>3, <2>1, <2>2 DEF IInv, PollIsSound
  <2> QED
    BY <1>1, <1>3b, <2>3, FeedJudgeAssumption
       DEF IInv, TypeOK, PollIsSound, HealthyPollIsBelieved, Finishing, NodeCount
<1>7. (\E i \in DOMAIN runs : Peak(runs[i])) => \E i \in DOMAIN runs' : Peak(runs'[i])
  <2>1. ASSUME NEW i \in DOMAIN runs, runs[i].recent PROVE i \in 1..(n - 1)
    <3>1. ~(n <= i)
      BY <1>1, <2>1 DEF IInv, RunsAreSound
    <3> QED
      BY <1>2, <3>1
  <2> QED
    BY <1>3, <2>1 DEF Peak
<1>8. ASSUME NEW m \in 1..(n - 1), runs[m].advanced PROVE Still' = Still
  <2>1. m \in Counted
    BY <1>3, <1>8, RunsAreRuns DEF IInv, RunsAreSound, Counted, Statuses
  <2>2. Counted' = Counted \intersect 1..(n - 1)
    BY <1>3 DEF Counted
  <2>3. \A i \in Still : i < m
    <3>1. \A i \in Still : ~(m <= i)
      BY <1>8, <2>1 DEF Still
    <3>2. \A i \in Still : i \in Nat
      BY <1>2 DEF Still, Counted
    <3> QED
      BY <3>1, <3>2
  <2>4. Counted \subseteq 1..Len(runs)
    BY <1>2 DEF Counted
  <2>5. Still \subseteq Counted'
    <3>1. \A i \in Still : i \in Counted
      BY DEF Still
    <3>2. \A i \in 1..Len(runs) : i < m => i \in 1..(n - 1)
      BY <1>2
    <3> QED
      BY <2>2, <2>3, <2>4, <3>1, <3>2
  <2>6. ASSUME NEW i \in Counted'
        PROVE  (\A j \in Counted' : j <= i => ~runs'[j].advanced)
                  <=> \A j \in Counted : j <= i => ~runs[j].advanced
    <3>1. \A j \in Counted : j <= i => j \in Counted'
      BY <1>2, <2>2, <2>4
    <3> QED
      BY <1>3, <2>2, <3>1
  <2>7. \A i \in Counted' : i \in Still' <=> i \in Still
    BY <2>2, <2>6 DEF Still
  <2>8. Still' \subseteq Counted'
    BY DEF Still
  <2> QED
    BY <2>5, <2>7, <2>8
<1>9. ASSUME ~(\E m \in 1..(n - 1) : runs[m].advanced) PROVE Believed' = Left
  <2>1. \A i \in 1..(n - 1) : ~runs'[i].advanced
    BY <1>3, <1>9
  <2>2. Counted' \subseteq 1..(n - 1)
    BY <1>3 DEF Counted
  <2>3. Still' = Counted'
    BY <2>1, <2>2 DEF Still
  <2> QED
    BY <1>3, <2>2, <2>3 DEF Believed, Counted, Left
<1>10. frozen <= Cardinality(Believed) => frozen' <= Cardinality(Believed')
  <2>1. CASE \E m \in 1..(n - 1) : runs[m].advanced
    <3>1. Still' = Still /\ Still' \subseteq 1..(n - 1)
      BY <1>3, <1>8, <2>1 DEF Still, Counted
    <3>2. Believed' = Believed
      BY <1>3, <3>1 DEF Believed
    <3>3. Cardinality(Believed) \in Nat /\ frozen \in Nat /\ frozen' \in Nat
      BY <1>3b, BelievedIsFinite, FeedJudgeAssumption DEF IInv, TypeOK
    <3> QED
      BY <1>3b, <3>2, <3>3
  <2>2. CASE ~(\E m \in 1..(n - 1) : runs[m].advanced)
    BY <1>9, <1>3b, <2>2 DEF c
  <2> QED
    BY <2>1, <2>2
<1>11. BeliefIsRecorded'
  <2> SUFFICES ASSUME MinNodes > 0, MaxPollsWithoutAdvance <= HistoryLimit
               PROVE  /\ frozen' <= MaxPollsWithoutAdvance
                      /\ Finishing' => frozen' < MaxPollsWithoutAdvance
                      /\ frozen' <= Cardinality(Believed')
                      /\ frozen' > 0 => \E i \in DOMAIN runs' : Peak(runs'[i])
    BY DEF BeliefIsRecorded
  <2>1. /\ frozen <= MaxPollsWithoutAdvance
        /\ Finishing => frozen < MaxPollsWithoutAdvance
        /\ frozen <= Cardinality(Believed)
        /\ frozen > 0 => \E i \in DOMAIN runs : Peak(runs[i])
    BY DEF IInv, BeliefIsRecorded
  <2>2. frozen \in Nat /\ frozen' \in Nat /\ MaxPollsWithoutAdvance \in Nat
    BY <1>3b, FeedJudgeAssumption DEF IInv, TypeOK
  <2>3. Finishing' => Finishing
    BY <1>1 DEF Finishing
  <2> QED
    BY <1>7, <1>10, <1>3b, <2>1, <2>2, <2>3
<1> QED
  BY <1>4, <1>5, <1>6, <1>11 DEF IInv

-------------------------------------------------------------------------------
LEMMA NextIInv == ASSUME IInv, [Next]_vars PROVE IInv'
<1>1. CASE UNCHANGED vars
  <2>1. UNCHANGED <<stored, runs, phase, snap, advanced, verdict, frozen>>
    BY <1>1 DEF vars, poll
  <2>2. TypeOK' /\ RunsAreSound' /\ PollIsSound' /\ HealthyPollIsBelieved'
    BY <2>1 DEF IInv, TypeOK, RunsAreSound, PollIsSound, HealthyPollIsBelieved, Finishing, NodeCount
  <2>3. BeliefIsRecorded'
    <3>1. Finishing' => Finishing
      BY <2>1 DEF Finishing
    <3> QED
      BY <2>1, <3>1, BeliefKept DEF IInv
  <2> QED
    BY <2>2, <2>3 DEF IInv
<1>2. CASE PollOnce
  BY <1>2, StartPollRunStep, FetchFailsStep, JudgeStep, FinishPollRunStep, UpsertTargetsStep
     DEF PollOnce
<1>3. CASE Crash \/ Tick
  BY <1>3, CrashStep, TickStep
<1>4. CASE \E n \in DOMAIN runs : Expire(n) \/ Prune(n)
  BY <1>4, ExpireStep, PruneStep
<1> QED
  BY <1>1, <1>2, <1>3, <1>4 DEF Next

\* The invariant holds in every state: through every mixture of failed, small
\* and healthy polls, crashes half way and rows gone to housekeeping.
THEOREM Inductive == Spec => []IInv
<1>1. IInv /\ [Next]_vars => IInv'
  BY NextIInv
<1> QED
  BY <1>1, InitIInv, PTL DEF Spec

\* PollOnce and poll_runs keep to their types for every mesh and every limit.
THEOREM TypeCorrect == Spec => []TypeOK
<1>1. IInv => TypeOK
  BY DEF IInv
<1> QED
  BY <1>1, Inductive, PTL

\* JudgeFeed: no history of frozen, small or failed polls is held against a
\* poll that returns every target and moves one.  The floor is a fraction of
\* an earlier poll's count, and no poll counts more nodes than there are.
THEOREM HealthyPollIsBelievedHolds == Spec => []HealthyPollIsBelieved
<1>1. IInv => HealthyPollIsBelieved
  BY DEF IInv
<1> QED
  BY <1>1, Inductive, PTL

\* JudgeFeed with ConsecutiveNonAdvancingPolls: a feed in which nothing moves
\* is believed at most MaxPollsWithoutAdvance times before a target advances
\* or a week goes by without a believed poll, for every such limit the history
\* can hold.
THEOREM FrozenBeliefIsBoundedHolds == Spec => []FrozenBeliefIsBounded
<1>1. IInv => FrozenBeliefIsBounded
  BY DEF IInv, BeliefIsRecorded, FrozenBeliefIsBounded
<1> QED
  BY <1>1, Inductive, PTL

LEMMA StoredStep ==
    ASSUME IInv, [Next]_vars
    PROVE  [phase' # phase => \A t \in Targets : stored'[t] <= stored[t]]_vars
<1> SUFFICES ASSUME phase' # phase
             PROVE  \A t \in Targets : stored'[t] <= stored[t]
  OBVIOUS
<1>1. \A t \in Targets : stored[t] \in Int
  BY FeedJudgeAssumption DEF IInv, TypeOK, Never
<1>2. CASE stored' = stored
  BY <1>1, <1>2
<1>3. ASSUME NEW view \in Fetch, UpsertTargets(view)
      PROVE  \A t \in Targets : stored'[t] <= stored[t]
  BY <1>3, UpsertIsMonotonic DEF UpsertTargets, IInv
<1>4. CASE UNCHANGED vars
  BY <1>4 DEF vars, poll
<1>5. CASE Tick
  BY <1>5 DEF Tick, poll
<1>6. CASE \E n \in DOMAIN runs : Expire(n) \/ Prune(n)
  BY <1>6 DEF Expire, Prune, poll
<1>7. CASE PollOnce \/ Crash
  BY <1>2, <1>3, <1>7 DEF PollOnce, Crash, StartPollRun, FetchFails, Judge, FinishPollRun
<1> QED
  BY <1>4, <1>5, <1>6, <1>7 DEF Next

\* UpsertTargets' ON CONFLICT keeps the newer of two times: no poll, however
\* stale or partial the view it was served, moves a target's last-seen back.
THEOREM StoredNeverRegressesHolds == Spec => StoredNeverRegresses
<1>1. IInv /\ [Next]_vars => [phase' # phase => \A t \in Targets : stored'[t] <= stored[t]]_vars
  BY StoredStep
<1> QED
  BY <1>1, Inductive, PTL DEF Spec, StoredNeverRegresses

===============================================================================
