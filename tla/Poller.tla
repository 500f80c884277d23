-------------------------------- MODULE Poller --------------------------------
(***************************************************************************)
(* Poller.evaluate over the whole store, while users edit their watches    *)
(* and rules through the web layer.  The four reads of an evaluation are   *)
(* separate queries on the read pool, each of whatever was last committed; *)
(* the write is one transaction at the end.  Between any two of them a     *)
(* user's own transaction may commit, or the process may die.              *)
(*                                                                         *)
(* What a rule sees (the snapshot, the activity table, its threshold) is   *)
(* one of the three Readings, chosen per rule and per poll; whether a mute *)
(* is in force is a flag its owner or the clock may flip; UpdateRule keeps *)
(* the row and so changes nothing but readings.  The limits on watches per *)
(* user and rules per watch are the bounds on ids; who owns a watch, and   *)
(* its battery rule, are left out.                                         *)
(***************************************************************************)
EXTENDS AlertEvaluate, FiniteSets, FiniteSetsExt, Tables

CONSTANTS
    MaxWatch, MaxRule,      \* bounds: ids that may be in use at once
    MaxNotify,              \* bound: notifyCount at which a target stays in the feed
    MaxPerPoll,             \* alerts.max_new_alerts_per_poll
    FractionNum, FractionDen,   \* alerts.max_new_alert_fraction
    MinSignalsForFraction,  \* 20 in the code
    PrefChoices             \* the preferences users choose among

ASSUME PollerAssumption ==
    /\ MaxWatch \in Nat /\ MaxRule \in Nat /\ MaxNotify \in Nat
    /\ MaxPerPoll \in Nat /\ MinSignalsForFraction \in Nat
    /\ FractionNum \in Nat /\ FractionDen \in Nat \ {0}
    /\ PrefChoices \subseteq Prefs

VARIABLES
    watches,    \* watches: id -> its owner's Prefs
    ruleOf,     \* watch_rules: id -> id of the watch it belongs to
    rows,       \* watch_state: <<watch, rule>> -> row
    phase,      \* how far the evaluation in progress has got
    seen,       \* what ActiveWatches returned to it
    held,       \* what AllWatchState returned to it
    plan,       \* the outcomes it computed: rule -> [watch, out, live]
    queued,     \* the messages the last evaluation put in the outbox
    \* History: what no table keeps.
    told,       \* rule -> the last message that named it
    inherited   \* rules created with an id the evaluation in progress still remembers

store   == <<watches, ruleOf, rows>>
memory  == <<phase, seen, held, plan>>
history == <<told, inherited>>
vars    == <<store, memory, queued, history>>

WatchIds == 1..MaxWatch
RuleIds  == 1..MaxRule
Phases   == {"idle", "watches", "states", "planned"}

\* An INTEGER PRIMARY KEY without AUTOINCREMENT: one more than the largest in use.
NextId(S) == IF S = {} THEN 1 ELSE Max(S) + 1

RulesOf(w) == {r \in DOMAIN ruleOf : ruleOf[r] = w}

Init ==
    /\ watches = Nothing /\ ruleOf = Nothing /\ rows = Nothing
    /\ phase = "idle" /\ seen = Nothing /\ held = Nothing /\ plan = Nothing
    /\ queued = {}
    /\ told = Nothing /\ inherited = {}

-------------------------------------------------------------------------------
(***************************************************************************)
(* The users.  Each action is one committed transaction.                   *)
(***************************************************************************)
\* An id is remembered by the evaluation in progress: a row it read for the
\* pair, or an outcome it is about to write.
Remembered(w, r) == <<w, r>> \in DOMAIN held \/ r \in DOMAIN plan

\* What the store knows of the target for n new rules, under the ids they get.
Seeds(n) == LET first == NextId(DOMAIN ruleOf) IN [first..(first + n - 1) -> Readings]

InsertRules(w, seeds) ==
    LET new == DOMAIN seeds
    IN  /\ new \subseteq RuleIds
        /\ ruleOf' = Upserted([r \in new |-> w], ruleOf)
        /\ rows' = Upserted([k \in {w} \X new |-> SeedRow(seeds[k[2]])], rows)
        /\ told' = Upserted([r \in new |-> "none"], told)
        /\ inherited' = (inherited \ new) \union {r \in new : Remembered(w, r)}

\* With the rules its template starts it with, in the same transaction.
CreateWatch(prefs, seeds) ==
    LET w == NextId(DOMAIN watches)
    IN  /\ w \in WatchIds
        /\ watches' = Upserted([x \in {w} |-> prefs], watches)
        /\ InsertRules(w, seeds)
        /\ UNCHANGED <<memory, queued>>

AddRule(w, seeds) ==
    /\ InsertRules(w, seeds)
    /\ UNCHANGED <<watches, memory, queued>>

\* ON DELETE CASCADE: the state rows of the rules go with them.
Cascade(gone) ==
    /\ ruleOf' = Without(ruleOf, gone)
    /\ rows' = Without(rows, {k \in DOMAIN rows : k[2] \in gone \/ k[1] \notin DOMAIN watches'})
    /\ told' = Without(told, gone)
    /\ inherited' = inherited \ gone
    /\ plan' = [r \in DOMAIN plan |-> [plan[r] EXCEPT !.live = @ /\ r \notin gone]]
    /\ UNCHANGED <<phase, seen, held, queued>>

DeleteRule(r) == watches' = watches /\ Cascade({r})

DeleteWatch(w) ==
    /\ watches' = Without(watches, {w})
    /\ Cascade(RulesOf(w))

\* SetWatchMute, SetWatchRecovery, and a mute running out.
SetPrefs(w, prefs) ==
    /\ watches' = [watches EXCEPT ![w] = prefs]
    /\ UNCHANGED <<ruleOf, rows, memory, queued, history>>

Edit ==
    \/ \E prefs \in PrefChoices, n \in RuleIds : \E seeds \in Seeds(n) : CreateWatch(prefs, seeds)
    \/ \E w \in DOMAIN watches, seeds \in Seeds(1) : AddRule(w, seeds)
    \/ \E r \in DOMAIN ruleOf : DeleteRule(r)
    \/ \E w \in DOMAIN watches : DeleteWatch(w)
    \/ \E w \in DOMAIN watches, prefs \in PrefChoices : SetPrefs(w, prefs)

-------------------------------------------------------------------------------
(***************************************************************************)
(* The evaluation of a believed poll.                                      *)
(***************************************************************************)
Done ==
    /\ phase' = "idle"
    /\ seen' = Nothing /\ held' = Nothing /\ plan' = Nothing

\* With no watch at all there is nothing to evaluate.
ReadWatches ==
    /\ phase = "idle"
    /\ watches # Nothing
    /\ phase' = "watches"
    /\ seen' = watches
    /\ queued' = {}
    /\ UNCHANGED <<store, held, plan, history>>

ReadStates ==
    /\ phase = "watches"
    /\ phase' = "states"
    /\ held' = rows
    /\ UNCHANGED <<store, seen, plan, queued, history>>

UnknownRow == [state |-> "unknown", consecutive |-> 0, notifyCount |-> 0, seeded |-> FALSE]

Prior(w, r) == IF <<w, r>> \in DOMAIN held THEN held[<<w, r>>] ELSE UnknownRow

\* AllRules and AllActivity, and every outcome computed from what was read.
ReadRules ==
    LET judged == {r \in DOMAIN ruleOf : ruleOf[r] \in DOMAIN seen}
    IN  /\ phase = "states"
        /\ \E now \in [judged -> Readings] :
              /\ \A r \in judged :
                    now[r] = "absent" => Prior(ruleOf[r], r).notifyCount < MaxNotify
              /\ plan' = [r \in judged |->
                            [watch |-> ruleOf[r],
                             out   |-> Evaluate(now[r], Prior(ruleOf[r], r), seen[ruleOf[r]]),
                             live  |-> TRUE]]
        /\ phase' = "planned"
        /\ seen' = Nothing /\ held' = Nothing
        /\ UNCHANGED <<store, queued, told, inherited>>

Entering == Cardinality({r \in DOMAIN plan : plan[r].out.entering})

Exceeds(entering, active) ==
    /\ entering > 0
    /\ \/ MaxPerPoll > 0 /\ entering > MaxPerPoll
       \/ /\ FractionNum > 0
          /\ active >= MinSignalsForFraction
          /\ entering * FractionDen > FractionNum * active

TripBreakerByWatch(active) ==
    Exceeds(Cardinality({plan[r].watch : r \in {x \in DOMAIN plan : plan[x].out.entering}}), active)

TripBreaker(active) == Exceeds(Entering, active)

Tripped == TripBreaker(Cardinality(DOMAIN plan))

\* One message per watch and direction, naming every rule that took it.
Messages(p) ==
    LET named(w, kind) == {r \in DOMAIN p : p[r].watch = w /\ p[r].out.kind = kind}
    IN  {[watch |-> m[1], kind |-> m[2], rules |-> named(m[1], m[2])] :
            m \in {<<p[r].watch, p[r].out.kind>> :
                        r \in {x \in DOMAIN p : p[x].out.kind # "none"}}}

\* The rows an evaluation writes: transitions, and readings that moved.
Written(moved) == {r \in DOMAIN plan : plan[r].out.changed \/ r \in moved}

SavableAlways(r) == TRUE

\* watch_state's foreign keys, the only ones the transaction can break.
Savable(r) == plan[r].watch \in DOMAIN watches /\ r \in DOMAIN ruleOf

Saved(written) ==
    Upserted([k \in {<<plan[r].watch, r>> : r \in written} |-> plan[k[2]].out.row], rows)

WithholdKeepingRows ==
    /\ phase = "planned"
    /\ Tripped
    /\ rows' = Saved({r \in DOMAIN plan : plan[r].out.changed /\ Savable(r)})
    /\ Done
    /\ UNCHANGED <<watches, ruleOf, queued, history>>

\* Nothing is written and no user is told; the operator hears of it.
Withhold ==
    /\ phase = "planned"
    /\ Tripped
    /\ Done
    /\ UNCHANGED <<store, queued, history>>

Commit(moved) ==
    LET written == Written(moved)
        named   == {r \in DOMAIN plan : plan[r].out.kind # "none" /\ plan[r].live}
    IN  /\ phase = "planned"
        /\ ~Tripped
        /\ \A r \in written : Savable(r)
        /\ rows' = Saved(written)
        /\ queued' = Messages(plan)
        /\ told' = Upserted([r \in named |-> plan[r].out.kind], told)
        /\ Done
        /\ UNCHANGED <<watches, ruleOf, inherited>>

RollbackRetrying(moved) ==
    /\ phase = "planned"
    /\ ~Tripped
    /\ \E r \in Written(moved) : ~Savable(r)
    /\ UNCHANGED vars

RollbackKeepingRows(moved) ==
    LET kept == {r \in Written(moved) : Savable(r)}
    IN  /\ phase = "planned"
        /\ ~Tripped
        /\ kept # Written(moved)
        /\ rows' = Saved(kept)
        /\ Done
        /\ UNCHANGED <<watches, ruleOf, queued, history>>

\* One broken key and the whole poll's work is undone, for every user.
Rollback(moved) ==
    /\ phase = "planned"
    /\ ~Tripped
    /\ \E r \in Written(moved) : ~Savable(r)
    /\ Done
    /\ UNCHANGED <<store, queued, history>>

\* The process dies and is started again: only the store survives.
Crash ==
    /\ phase # "idle"
    /\ Done
    /\ UNCHANGED <<store, queued, history>>

Evaluation ==
    \/ ReadWatches \/ ReadStates \/ ReadRules \/ Withhold
    \/ \E moved \in SUBSET DOMAIN plan : Commit(moved) \/ Rollback(moved)

Next == Edit \/ Evaluation \/ Crash

\* The poll loop runs for as long as the process does, and it is restarted.
Spec == Init /\ [][Next]_vars /\ WF_vars(Evaluation)

-------------------------------------------------------------------------------
RowKeys == WatchIds \X RuleIds
Planned == [watch : WatchIds, out : Outcomes, live : BOOLEAN]

\* Typed by membership of each value: the function sets are too large to build.
TypeOK ==
    /\ DOMAIN watches \subseteq WatchIds /\ \A w \in DOMAIN watches : watches[w] \in Prefs
    /\ DOMAIN ruleOf \subseteq RuleIds /\ \A r \in DOMAIN ruleOf : ruleOf[r] \in WatchIds
    /\ DOMAIN rows \subseteq RowKeys /\ \A k \in DOMAIN rows : rows[k] \in Rows
    /\ phase \in Phases
    /\ DOMAIN seen \subseteq WatchIds /\ \A w \in DOMAIN seen : seen[w] \in Prefs
    /\ DOMAIN held \subseteq RowKeys /\ \A k \in DOMAIN held : held[k] \in Rows
    /\ DOMAIN plan \subseteq RuleIds
    /\ \A r \in DOMAIN plan : plan[r] \in Planned
    /\ \A m \in queued : m.watch \in WatchIds /\ m.kind \in Kinds /\ m.rules \subseteq RuleIds
    /\ DOMAIN told = DOMAIN ruleOf /\ \A r \in DOMAIN told : told[r] \in Kinds
    /\ inherited \subseteq DOMAIN ruleOf

(***************************************************************************)
(* The store stays whole through every interleaving of edits with an       *)
(* evaluation's late write: no rule without its watch, none without its    *)
(* state row, and no row without the watch and the rule it names.          *)
(***************************************************************************)
StoreIsWhole ==
    /\ \A r \in DOMAIN ruleOf : ruleOf[r] \in DOMAIN watches
    /\ \A r \in DOMAIN ruleOf : <<ruleOf[r], r>> \in DOMAIN rows
    /\ \A k \in DOMAIN rows : k[1] \in DOMAIN watches /\ k[2] \in DOMAIN ruleOf

(***************************************************************************)
(* The state and the message it justifies are one commit.  Whatever died,  *)
(* was rolled back or was edited in between, a row that says its outage    *)
(* was announced belongs to a rule whose last message was that alert.      *)
(* Excepted are rules created during an evaluation with the id of one      *)
(* deleted under it: they inherit its row.                                 *)
(***************************************************************************)
CountedMeansTold ==
    \A r \in DOMAIN ruleOf \ inherited :
        rows[<<ruleOf[r], r>>].notifyCount > 0 => told[r] = "alert"

(***************************************************************************)
(* Why: what an evaluation holds is what the store holds of every rule it  *)
(* still speaks of, and what it plans to write is what it plans to say.    *)
(***************************************************************************)
HeldAgrees ==
    \A k \in DOMAIN held :
        k[2] \in DOMAIN ruleOf \ inherited /\ ruleOf[k[2]] = k[1] => held[k] = rows[k]

PlanAgrees ==
    \A r \in DOMAIN plan \intersect DOMAIN ruleOf :
        r \notin inherited =>
            /\ plan[r].live /\ plan[r].watch = ruleOf[r]
            /\ plan[r].out.row.notifyCount > 0 =>
                  \/ plan[r].out.kind = "alert"
                  \/ plan[r].out.kind = "none" /\ told[r] = "alert"

PlanIsOutcomes ==
    \A r \in DOMAIN plan :
        /\ plan[r].out.kind # "none" => plan[r].out.changed
        /\ plan[r].out.kind = "alert" => plan[r].out.entering

IInv == StoreIsWhole /\ CountedMeansTold /\ HeldAgrees /\ PlanAgrees /\ PlanIsOutcomes

(***************************************************************************)
(* Every rule lives as if it were alone and each poll judged it at once.   *)
(* Of the four reads, the late write, the crashes, the rollbacks and the   *)
(* edits of others around it, nothing shows in its row and in what its     *)
(* owner hears but Evaluate, applied to the row it has and the message it  *)
(* justifies.  A rule new to the evaluation may be seen for the first time *)
(* twice, in silence; one that took over a remembered id is excepted.      *)
(***************************************************************************)
JudgedAtOnce(r) ==
    LET key == <<ruleOf[r], r>>
    IN  \/ rows'[key] = rows[key] /\ told'[r] = told[r]
        \/ \E reading \in Readings, prefs \in Prefs :
              LET out == Evaluate(reading, rows[key], prefs)
              IN  /\ rows'[key] = out.row
                  /\ told'[r] = IF out.kind = "none" THEN told[r] ELSE out.kind
        \/ /\ told[r] = "none" /\ told'[r] = "none"
           /\ \E reading \in Readings : rows'[key] = SeedRow(reading)

AsIfAlone ==
    [][\A r \in (DOMAIN ruleOf \intersect DOMAIN ruleOf') \ inherited' :
          ruleOf'[r] = ruleOf[r] /\ JudgedAtOnce(r)]_vars

(***************************************************************************)
(* So every rule keeps the promise of alert.go for as long as it lives.    *)
(***************************************************************************)
Belief(r) ==
    LET state == rows[<<ruleOf[r], r>>].state
    IN  IF state = "unknown" THEN "unknown"
        ELSE IF state \in {"ok", "pending"} THEN "up" ELSE "down"

Said(r) ==
    LET naming == {m \in queued : r \in m.rules}
    IN  IF naming = {} THEN "none" ELSE (CHOOSE m \in naming : TRUE).kind

Promise(r) == INSTANCE Announcements WITH belief <- Belief(r), said <- Said(r), told <- told[r]

EveryPromiseIsKept ==
    [][\A r \in (DOMAIN ruleOf \intersect DOMAIN ruleOf') \ inherited' :
          [Promise(r)!Next]_(<<Belief(r), Said(r), told[r]>>)]_vars

(***************************************************************************)
(* However late in the evaluation a deletion commits, no message is queued *)
(* for a watch, or naming a rule, whose id is no longer in use.            *)
(***************************************************************************)
NoMessageAboutTheDeleted ==
    [][\A m \in queued' \ queued : m.watch \in DOMAIN watches /\ m.rules \subseteq DOMAIN ruleOf]_vars

(***************************************************************************)
(* However the outage came about, no poll announces more of it than the    *)
(* breaker allows; recoveries are not limited.                             *)
(***************************************************************************)
Announced(messages) == UNION {m.rules : m \in {x \in messages : x.kind = "alert"}}

BreakerBoundsAlerts ==
    [][LET n == Cardinality(Announced(queued' \ queued))
           active == Cardinality(DOMAIN plan)
       IN  n > 0 => /\ MaxPerPoll > 0 => n <= MaxPerPoll
                    /\ FractionNum > 0 /\ active >= MinSignalsForFraction
                          => n * FractionDen <= FractionNum * active]_vars

(***************************************************************************)
(* A deletion in the middle of an evaluation costs that evaluation and no  *)
(* more: once users stop deleting, the process stays up and the breaker    *)
(* does not trip, evaluations commit for ever.                             *)
(***************************************************************************)
Deletion == (\E r \in DOMAIN ruleOf : DeleteRule(r)) \/ (\E w \in DOMAIN watches : DeleteWatch(w))

Committed == \E moved \in SUBSET DOMAIN plan : Commit(moved)

EvaluationsCommit ==
    <>[][~Deletion /\ ~Withhold /\ ~Crash]_vars /\ <>[](watches # Nothing) => []<><<Committed>>_vars

===============================================================================
