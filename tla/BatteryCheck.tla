----------------------------- MODULE BatteryCheck -----------------------------
(***************************************************************************)
(* Poller.checkBatteries for one watch id, while its owner edits the watch *)
(* and its battery rule.  The three reads are separate queries, the        *)
(* reading is fetched over the network, and one transaction at the end     *)
(* saves what still applies: a new rule is inserted only if the owner has  *)
(* still not chosen, and a state only over the state that was read.        *)
(*                                                                         *)
(* The repeaters of other watches meet this one in the breaker alone,      *)
(* where they are a number.  A deleted watch frees its id for one on       *)
(* another repeater.  That the check follows a believed and committed      *)
(* evaluation is the environment's choice of when to start one; stored     *)
(* readings are only displayed and left out.                               *)
(***************************************************************************)
EXTENDS BatteryPolicy, Tables

CONSTANTS
    PrefChoices,            \* the preferences owners choose among
    Voltages,               \* what a repeater may report; 0 is no battery
    OwnChoices,             \* the levels owners choose among
    Follow,                 \* the one of them that follows the site
    Site, Scope,            \* the levels of config.yaml and of CoreScope
    MaxNewAlertsPerPoll     \* alerts.max_new_alerts_per_poll

Settings == [low : Nat, critical : Nat, overOn : BOOLEAN, over : Nat]

ASSUME BatteryCheckAssumption ==
    /\ PrefChoices \subseteq [muted : BOOLEAN, notifyRecovery : BOOLEAN]
    /\ Voltages \subseteq Nat /\ Voltages # {}
    /\ OwnChoices \subseteq Settings /\ Follow \in OwnChoices
    /\ Site \in [low : Nat, critical : Nat, over : Nat]
    /\ Scope \in [low : Nat, critical : Nat]
    /\ MaxNewAlertsPerPoll \in Nat

VARIABLES
    watch,      \* the watch: its preferences and whether battery_added_at is set
    rule,       \* its battery rule: levels and state
    auto,       \* users.auto_battery of its owner
    reading,    \* the voltage CoreScope serves now
    phase,      \* how far the check in progress has got
    seen,       \* the watch as ActiveWatches returned it
    old,        \* the rule as BatteryRules returned it
    plan,       \* what the check is about to write
    said,       \* the message the last check queued
    \* History: what no table and no check keeps.
    intact,     \* the rule the check has read is still that row
    new,        \* the reading it plans by is later than any judged before
    told,       \* whether an alert of this rule is outstanding for its owner
    lowTold,    \* whether "low" was said since the battery was last not low
    run,        \* where the last readings judged pointed, and how many of them
    refused     \* the owner has chosen to have no rule on this watch

world   == <<watch, rule, auto, reading>>
memory  == <<phase, seen, old, plan>>
held    == <<intact, new>>
history == <<told, lowTold, run, refused>>
vars    == <<world, memory, said, held, history>>

Watches == [muted : BOOLEAN, notifyRecovery : BOOLEAN, added : BOOLEAN]

Aged(row) == IF row.last = "current" THEN [row EXCEPT !.last = "older"] ELSE row

NoRun == [side |-> "none", n |-> 0]

Side(level) == IF Down(level) THEN "down" ELSE level

Init ==
    /\ watch = Nothing /\ rule = Nothing /\ auto = TRUE
    /\ reading \in Voltages
    /\ phase = "idle" /\ seen = Nothing /\ old = Nothing /\ plan = Nothing
    /\ said = "none"
    /\ intact = FALSE /\ new = FALSE
    /\ told = FALSE /\ lowTold = FALSE /\ run = NoRun /\ refused = FALSE

-------------------------------------------------------------------------------
(***************************************************************************)
(* CoreScope.                                                              *)
(***************************************************************************)
\* What a check holds of earlier readings.
Outdated ==
    /\ old' = IF old = Nothing THEN old ELSE [old EXCEPT !.row = Aged(@)]
    /\ plan' = IF plan = Nothing THEN plan ELSE [plan EXCEPT !.row = Aged(@)]

\* Another reading: the one judged last, or about to be, is now an older one.
NewReading(mv) ==
    /\ watch # Nothing
    /\ reading' = mv
    /\ rule' = IF rule = Nothing THEN rule ELSE [rule EXCEPT !.row = Aged(@)]
    /\ Outdated
    /\ UNCHANGED <<watch, auto, phase, seen, said, held, history>>

-------------------------------------------------------------------------------
(***************************************************************************)
(* The owner.  Each action is one committed transaction.                   *)
(***************************************************************************)
\* A row starts an episode of its own: nothing of it was said or judged.
Unsaid == told' = FALSE /\ lowTold' = FALSE /\ run' = NoRun

Fresh == Unsaid /\ intact' = FALSE /\ new' = new

Ticks == {"battery", "no battery", "not asked"}

\* A watch on some repeater, with or without a battery rule.  Its id may be that
\* of one just deleted, whose last reading was before or after this one's.
CreateWatch(prefs, tick, mv) ==
    /\ watch = Nothing
    /\ watch' = [muted |-> prefs.muted, notifyRecovery |-> prefs.notifyRecovery,
                  added |-> tick # "not asked"]
    /\ rule' = IF tick = "battery" THEN [own |-> Follow, row |-> NewRow] ELSE Nothing
    /\ reading' = mv
    /\ refused' = (tick = "no battery")
    /\ Fresh
    /\ Outdated \/ UNCHANGED <<old, plan>>
    /\ UNCHANGED <<auto, phase, seen, said>>

\* The rule goes with it by cascade.
DeleteWatch ==
    /\ watch # Nothing
    /\ watch' = Nothing /\ rule' = Nothing
    /\ refused' = FALSE
    /\ Fresh
    /\ UNCHANGED <<auto, reading, memory, said>>

\* Mute and recovery settings, and a mute running out.
SetPrefs(prefs) ==
    /\ watch # Nothing
    /\ watch' = [watch EXCEPT !.muted = prefs.muted, !.notifyRecovery = prefs.notifyRecovery]
    /\ UNCHANGED <<rule, auto, reading, memory, said, held, history>>

SetAutoBattery(on) ==
    /\ auto' = on
    /\ UNCHANGED <<watch, rule, reading, memory, said, held, history>>

\* Where there is a rule already, nothing happens.
AddBatteryRule ==
    /\ watch # Nothing /\ rule = Nothing
    /\ rule' = [own |-> Follow, row |-> NewRow]
    /\ watch' = [watch EXCEPT !.added = TRUE]
    /\ refused' = FALSE
    /\ Fresh
    /\ UNCHANGED <<auto, reading, memory, said>>

DeleteBatteryRule ==
    /\ watch # Nothing
    /\ rule' = Nothing
    /\ watch' = [watch EXCEPT !.added = TRUE]
    /\ refused' = TRUE
    /\ Fresh
    /\ UNCHANGED <<auto, reading, memory, said>>

SwitchedOffKeeping(row) == [NewRow EXCEPT !.announced = row.announced]

SwitchedOff(row) == NewRow

\* New levels keep the state, but the current alert may not be one that its
\* owner has just turned off.
UpdateBatteryLevels(own) ==
    LET off == ~own.overOn /\ rule.row.level = "overcharged"
    IN  /\ rule # Nothing
        /\ rule' = [own |-> own, row |-> IF off THEN SwitchedOff(rule.row) ELSE rule.row]
        /\ IF off THEN Fresh ELSE UNCHANGED <<held, told, lowTold, run>>
        /\ UNCHANGED <<watch, auto, reading, memory, said, refused>>

Edit ==
    \/ \E prefs \in PrefChoices, tick \in Ticks, mv \in Voltages : CreateWatch(prefs, tick, mv)
    \/ DeleteWatch
    \/ \E prefs \in PrefChoices : SetPrefs(prefs)
    \/ \E on \in BOOLEAN : SetAutoBattery(on)
    \/ AddBatteryRule \/ DeleteBatteryRule
    \/ \E own \in OwnChoices : UpdateBatteryLevels(own)

-------------------------------------------------------------------------------
(***************************************************************************)
(* The check.                                                              *)
(***************************************************************************)
Done ==
    /\ phase' = "idle"
    /\ seen' = Nothing /\ old' = Nothing /\ plan' = Nothing
    /\ intact' = FALSE /\ new' = FALSE

\* With no watch there is nothing to fetch.
ReadWatches ==
    /\ phase = "idle" /\ watch # Nothing
    /\ phase' = "watches"
    /\ seen' = watch
    /\ said' = "none"
    /\ UNCHANGED <<world, old, plan, held, history>>

ReadRules ==
    /\ phase = "watches"
    /\ phase' = "rules"
    /\ old' = rule
    /\ intact' = (rule # Nothing)
    /\ UNCHANGED <<world, seen, plan, said, new, history>>

\* A repeater is fetched for its rule, or for the one it might be given.
ReadUsers ==
    /\ phase = "rules"
    /\ IF old # Nothing \/ (~seen.added /\ auto)
       THEN phase' = "fetching" /\ UNCHANGED <<seen, old, plan, held>>
       ELSE Done
    /\ UNCHANGED <<world, said, history>>

\* No answer, nobody reports it, no reading in the window, or none later than
\* the last: nothing is read into it.
FetchFails ==
    /\ phase = "fetching"
    /\ Done
    /\ UNCHANGED <<world, said, history>>

\* A rule nobody asked for starts at the level its battery is at, which its
\* owner is told in one message.
Addition ==
    LET level == ClassifyBattery(reading, "unknown", ResolveBatteryLevels(Follow, Site, Scope))
    IN  Outcome([NewRow EXCEPT !.level = level, !.last = "current"],
                IF seen.muted THEN "none" ELSE "enabled", "none")

Judgement ==
    EvaluateBattery(reading, old.row, ResolveBatteryLevels(old.own, Site, Scope), seen)

Plan(out) ==
    /\ phase' = "planned"
    /\ plan' = out
    /\ seen' = Nothing
    /\ new' = (old = Nothing \/ old.row.last # "current")
    /\ UNCHANGED <<world, old, said, intact, history>>

FetchForAddition ==
    /\ phase = "fetching" /\ old = Nothing
    /\ reading # NoBattery
    /\ Plan(Addition)

FetchForRule ==
    /\ phase = "fetching" /\ old # Nothing
    /\ IF Judgement.row # old.row
       THEN Plan(Judgement)
       ELSE Done /\ UNCHANGED <<world, said, history>>

InsertableWithoutARule == watch # Nothing /\ auto /\ rule = Nothing

\* Asked again inside the transaction.
Insertable == watch # Nothing /\ ~watch.added /\ auto /\ rule = Nothing

InsertAutoBatteryRule ==
    /\ phase = "planned" /\ old = Nothing
    /\ IF Insertable
       THEN /\ rule' = [own |-> Follow, row |-> plan.row]
            /\ watch' = [watch EXCEPT !.added = TRUE]
            /\ said' = plan.kind
            /\ Unsaid
       ELSE UNCHANGED <<rule, watch, said, told, lowTold, run>>
    /\ Done
    /\ UNCHANGED <<auto, reading, refused>>

\* Together with the alerts of the other watches.
Tripped(others) == plan.kind \in Alerts /\ others + 1 > MaxNewAlertsPerPoll

AnnouncedRegardless(others) == plan.row

\* A tripped breaker keeps the level and forgets the announcement.
Announced(others) ==
    IF Tripped(others) THEN [plan.row EXCEPT !.announced = old.row.announced] ELSE plan.row

\* The compare-and-swap: every column but the levels.  since tells a row from
\* one created in its place, unless that was in the same second.
Unchanged(sameSecond) ==
    /\ rule # Nothing
    /\ rule.row = old.row
    /\ intact \/ sameSecond

Longer(target) ==
    IF target = "none" THEN NoRun
    ELSE IF ~new THEN run
    ELSE [side |-> Side(target),
          n    |-> IF run.side # Side(target) THEN 1
                   ELSE IF run.n < Confirm THEN run.n + 1 ELSE run.n]

SaveBatteryState(others, sameSecond) ==
    LET kind == IF Tripped(others) THEN "none" ELSE plan.kind
        row  == Announced(others)
    IN  /\ phase = "planned" /\ old # Nothing
        /\ Unchanged(sameSecond)
        /\ rule' = [rule EXCEPT !.row = row]
        /\ said' = kind
        /\ told' = (kind \in Alerts \/ (told /\ row.level \notin {"ok", "unknown"}))
        /\ lowTold' = (Down(row.level) /\ (lowTold \/ kind = "low"))
        /\ run' = Longer(plan.target)
        /\ Done
        /\ UNCHANGED <<watch, auto, reading, refused>>

\* Changed or removed by its owner during the check.
Overtaken(sameSecond) ==
    /\ phase = "planned" /\ old # Nothing
    /\ ~Unchanged(sameSecond)
    /\ Done
    /\ UNCHANGED <<world, said, history>>

\* The process dies and is started again: only the store survives.
Crash ==
    /\ phase # "idle"
    /\ Done
    /\ UNCHANGED <<world, said, history>>

Answer == FetchForAddition \/ FetchForRule

Save ==
    \/ InsertAutoBatteryRule
    \/ \E others \in 0..MaxNewAlertsPerPoll, sameSecond \in BOOLEAN :
          SaveBatteryState(others, sameSecond)
    \/ \E sameSecond \in BOOLEAN : Overtaken(sameSecond)

\* What a check that has started goes on to do.
Continue == ReadRules \/ ReadUsers \/ FetchFails \/ Answer \/ Save

Next ==
    \/ Edit
    \/ \E mv \in Voltages : NewReading(mv)
    \/ ReadWatches \/ Continue \/ Crash

\* A check that has started goes on for as long as the process does.
Spec == Init /\ [][Next]_vars /\ WF_vars(Continue)

-------------------------------------------------------------------------------
Phases == {"idle", "watches", "rules", "fetching", "planned"}
Rules  == [own : OwnChoices, row : Rows]
Plans  == [row : Rows, kind : Messages \union {"enabled"}, target : Confirmable \union {"none"}]

TypeOK ==
    /\ watch = Nothing \/ watch \in Watches
    /\ rule = Nothing \/ rule \in Rules
    /\ auto \in BOOLEAN /\ reading \in Voltages
    /\ phase \in Phases
    /\ seen = Nothing \/ seen \in Watches
    /\ old = Nothing \/ old \in Rules
    /\ plan = Nothing \/ plan \in Plans
    /\ said \in Messages \union {"enabled"}
    /\ {intact, new, told, lowTold, refused} \subseteq BOOLEAN
    /\ run \in [side : {"none", "ok", "down", "overcharged"}, n : 0..Confirm]

\* The check that ends in this step says so.
Says(kinds) == said' # said /\ said' \in kinds

(***************************************************************************)
(* A rule says an alert is outstanding exactly while its owner has been    *)
(* sent one: through mutes, tripped breakers, batteries taken out, alerts  *)
(* switched off and rules replaced while a check was holding them.         *)
(***************************************************************************)
AnnouncedMeansTold == rule # Nothing => (rule.row.announced # "none" <=> told)

(***************************************************************************)
(* "OK again" is never the first its owner hears of it.                    *)
(***************************************************************************)
RecoveryFollowsAlert == [][Says({"recovered"}) => told]_vars

(***************************************************************************)
(* Only readings confirm: whatever is said follows ConfirmReadings         *)
(* different readings in a row, none before the rule was added or reset,   *)
(* that all pointed that way.                                              *)
(***************************************************************************)
SaidSide(kind) == IF kind = "recovered" THEN "ok" ELSE Side(kind)

ReadingsConfirm ==
    [][Says(Alerts \union {"recovered"}) => run' = [side |-> SaidSide(said'), n |-> Confirm]]_vars

(***************************************************************************)
(* A cell on the line, or one climbing out of critical, is not low a       *)
(* second time: between two messages that say so it was something else     *)
(* than low or critical.                                                   *)
(***************************************************************************)
LowIsSaidOnce == [][Says({"low"}) => ~lowTold]_vars

(***************************************************************************)
(* A rule its owner removed, or never wanted, is not added by itself, also *)
(* by the check that was running when they said so.                        *)
(***************************************************************************)
NeverAddedBack == [][rule = Nothing /\ rule' # Nothing /\ phase' # phase => ~refused]_vars

(***************************************************************************)
(* Once its owner leaves the rule alone, checks are made and get answers,  *)
(* and readings keep coming and agreeing, the rule comes to the level they *)
(* belong to and stays there, said or not, muted or not.                   *)
(***************************************************************************)
Settled ==
    /\ rule # Nothing
    /\ ClassifyBattery(reading, rule.row.level, ResolveBatteryLevels(rule.own, Site, Scope))
          = rule.row.level

SameLevels(before, after) == before # Nothing /\ after # Nothing /\ after.own = before.own

LevelSettles ==
    /\ <>[][SameLevels(rule, rule') /\ reading' = reading /\ ~FetchFails /\ ~Crash]_vars
    /\ []<>(phase = "watches") /\ []<>(rule # Nothing /\ rule.row.last = "older")
    => <>[](reading = NoBattery \/ Settled)

-------------------------------------------------------------------------------
(***************************************************************************)
(* The inductive invariant behind the safety properties: what is held in   *)
(* memory follows from the row it was judged by, which is all the save     *)
(* compares, and what a row counts is what was read and said of it.        *)
(***************************************************************************)
\* Nobody was told of a battery that is fine, or that is not there.
Sane(row) == row.level \in {"ok", "unknown"} => row.announced = "none"

\* The readings so far, with one that points to target, confirm it.
Confirms(row, target) ==
    \/ Confirm = 1
    \/ row.candidate # "none" /\ Side(row.candidate) = Side(target) /\ row.count + 1 >= Confirm

Counts(row, out) ==
    /\ out.row.candidate = out.target
    /\ \/ out.row.count = 1
       \/ /\ row.candidate # "none" /\ Side(row.candidate) = Side(out.target)
          /\ out.row.count = row.count + 1

Follows(out, row) ==
    /\ out.row.announced = IF out.kind \in Alerts THEN out.kind
                           ELSE IF out.row.level \in {"ok", "unknown"} THEN "none"
                           ELSE row.announced
    /\ out.kind \in Alerts => out.row.level = out.kind /\ out.target = out.kind
    /\ out.kind = "recovered" => row.announced # "none" /\ out.row.level = "ok" /\ out.target = "ok"
    /\ out.kind = "low" => ~Down(row.level)
    /\ out.kind # "none" => Confirms(row, out.target)
    /\ out.row.candidate # "none" => Counts(row, out)

PlanAgrees ==
    phase = "planned" =>
        /\ plan \in Plans
        /\ Sane(plan.row)
        /\ old = Nothing => /\ plan.kind \in {"none", "enabled"}
                            /\ plan.row.announced = "none" /\ plan.row.candidate = "none"
        /\ old # Nothing => /\ Follows(plan, old.row) /\ plan.kind # "enabled"
                            /\ plan.target # "none" => new

RowsAgree == (rule # Nothing => Sane(rule.row)) /\ (old # Nothing => Sane(old.row))

RunAgrees ==
    rule # Nothing /\ rule.row.candidate # "none" =>
        run.side = Side(rule.row.candidate) /\ run.n >= rule.row.count

LowAgrees == lowTold => rule # Nothing /\ Down(rule.row.level)

RefusedAgrees == refused => watch # Nothing /\ watch.added

IInv == AnnouncedMeansTold /\ PlanAgrees /\ RowsAgree /\ RunAgrees /\ LowAgrees /\ RefusedAgrees

===============================================================================
