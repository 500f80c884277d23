---------------------------- MODULE BatteryPolicy ----------------------------
(***************************************************************************)
(* The battery policy of internal/alert/battery.go: which level a voltage  *)
(* belongs to, and what one fetched reading does to one rule's stored      *)
(* state.  No state of its own; BatteryCheck drives it.                    *)
(*                                                                         *)
(* The times since and last_reading_at are only compared, so a row keeps   *)
(* of the latter how it stands to the reading CoreScope serves now; the    *)
(* voltage is displayed and left out.                                      *)
(***************************************************************************)
EXTENDS Integers, Sequences

CONSTANTS
    ConfirmReadings,            \* battery.confirm_readings
    Margin,                     \* battery.recover_margin_mv
    DefaultLow, DefaultCritical \* CoreScope's own defaults

ASSUME BatteryPolicyAssumption ==
    /\ ConfirmReadings \in Int
    /\ Margin \in Nat /\ DefaultLow \in Nat /\ DefaultCritical \in Nat

\* A node that reports 0 mV has no battery fitted.
NoBattery == 0

Confirmable == {"ok", "low", "critical", "overcharged"}
Levels      == Confirmable \union {"unknown"}
Alerts      == {"low", "critical", "overcharged"}
Messages    == Alerts \union {"none", "recovered"}

\* last: no reading was judged yet, one older than the one served, or that one.
Ages == {"never", "older", "current"}

Confirm == IF ConfirmReadings < 1 THEN 1 ELSE ConfirmReadings

Rows == [level     : Levels,
         candidate : Confirmable \union {"none"},
         count     : 0..(Confirm - 1),
         announced : Alerts \union {"none"},
         last      : Ages]

NewRow == [level |-> "unknown", candidate |-> "none", count |-> 0,
           announced |-> "none", last |-> "never"]

-------------------------------------------------------------------------------
\* The first of several settings that is set; 0 means follow the next one.
Pick(settings) ==
    LET set == {i \in DOMAIN settings : settings[i] > 0}
    IN  IF set = {} THEN 0 ELSE settings[CHOOSE i \in set : \A j \in set : i <= j]

\* The watch's own level, else the site's, else CoreScope's, else the default.
ResolveBatteryLevels(own, site, scope) ==
    [ low      |-> Pick(<<own.low, site.low, scope.low, DefaultLow>>),
      critical |-> Pick(<<own.critical, site.critical, scope.critical, DefaultCritical>>),
      over     |-> IF own.overOn THEN Pick(<<own.over, site.over>>) ELSE 0 ]

Down(level) == level \in {"low", "critical"}

Overcharged(mv, level, lv) ==
    /\ lv.over > 0
    /\ \/ mv >= lv.over
       \/ level = "overcharged" /\ mv > lv.over - Margin

Critical(mv, level, lv) ==
    \/ mv < lv.critical
    \/ level = "critical" /\ mv < lv.critical + Margin

Low(mv, level, lv) ==
    \/ mv < lv.low
    \/ Down(level) /\ mv < lv.low + Margin

\* The level of a reading, given the one the rule is at: leaving a level takes
\* the margin more than entering it.
ClassifyBattery(mv, level, lv) ==
    IF Overcharged(mv, level, lv)   THEN "overcharged"
    ELSE IF Critical(mv, level, lv) THEN "critical"
    ELSE IF Low(mv, level, lv)      THEN "low"
    ELSE "ok"

\* Dropping through low into critical is one run.
SameRun(a, b) == a = b \/ (Down(a) /\ Down(b))

-------------------------------------------------------------------------------
(***************************************************************************)
(* Outcomes of one reading.  target is the level the reading points to, or *)
(* "none" where it was not judged.                                         *)
(***************************************************************************)
Outcome(row, kind, target) == [row |-> row, kind |-> kind, target |-> target]

At(row, level)         == [row EXCEPT !.level = level, !.candidate = "none", !.count = 0]
Pointing(row, to, n)   == [row EXCEPT !.candidate = to, !.count = n]
Steady(row)            == [row EXCEPT !.candidate = "none", !.count = 0]

\* How many new readings in a row point the way this one does.
AgreeingStuck(row, target) ==
    IF row.candidate # "none" /\ SameRun(row.candidate, target) THEN row.count ELSE 1

Agreeing(row, target) ==
    IF row.candidate # "none" /\ SameRun(row.candidate, target) THEN row.count + 1 ELSE 1

KindRegardless(row, target, prefs) ==
    IF target # "ok" THEN target
    ELSE IF row.announced # "none" /\ prefs.notifyRecovery THEN "recovered" ELSE "none"

\* The message a confirmed change is worth.  Critical to low is good news.
Kind(row, target, prefs) ==
    IF target = "ok"
    THEN IF row.announced # "none" /\ prefs.notifyRecovery THEN "recovered" ELSE "none"
    ELSE IF target = "low" /\ row.level = "critical" THEN "none" ELSE target

\* A level is confirmed: announced remembers what was said of it, ok forgets.
Move(row, target, prefs) ==
    LET kind == IF prefs.muted THEN "none" ELSE Kind(row, target, prefs)
        kept == IF target = "ok" THEN "none"
                ELSE IF kind = "none" THEN row.announced ELSE target
    IN  Outcome([At(row, target) EXCEPT !.announced = kept], kind, target)

\* A reading later than the last one judged.
Judge(row, target, prefs) ==
    LET n == Agreeing(row, target)
    IN  IF row.level = "unknown"   THEN Outcome(At(row, target), "none", target)
        ELSE IF target = row.level THEN Outcome(Steady(row), "none", target)
        ELSE IF n < Confirm        THEN Outcome(Pointing(row, target, n), "none", target)
        ELSE Move(row, target, prefs)

\* No battery fitted: unknown, silently, and the episode is forgotten.
Unfitted(row) ==
    Outcome([At(row, "unknown") EXCEPT !.announced = "none"], "none", "none")

EvaluateBatteryAgain(mv, row, lv, prefs) ==
    IF mv = NoBattery THEN Unfitted(row)
    ELSE Judge([row EXCEPT !.last = "current"], ClassifyBattery(mv, row.level, lv), prefs)

\* Only a new reading can move anything.
EvaluateBattery(mv, row, lv, prefs) ==
    IF mv = NoBattery THEN Unfitted(row)
    ELSE IF row.last = "current" THEN Outcome(row, "none", "none")
    ELSE Judge([row EXCEPT !.last = "current"], ClassifyBattery(mv, row.level, lv), prefs)

===============================================================================
