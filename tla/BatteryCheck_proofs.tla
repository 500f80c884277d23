-------------------------- MODULE BatteryCheck_proofs --------------------------
(***************************************************************************)
(* BatteryCheck for every voltage, level, margin, number of readings to    *)
(* confirm and limit of the breaker: types, the inductive invariant, and   *)
(* from it the safety properties.  First what the policy does to a row.    *)
(***************************************************************************)
EXTENDS BatteryCheck, TLAPS

LEMMA ConfirmType == Confirm \in Nat /\ Confirm >= 1
  BY BatteryPolicyAssumption DEF Confirm

LEMMA NewRowIsARow ==
  /\ NewRow \in Rows /\ Sane(NewRow)
  /\ NewRow.announced = "none" /\ NewRow.candidate = "none" /\ NewRow.level = "unknown"
  BY ConfirmType DEF NewRow, Rows, Levels, Confirmable, Alerts, Ages, Sane

LEMMA LevelOfAReading ==
  ASSUME NEW mv, NEW level, NEW lv
  PROVE  ClassifyBattery(mv, level, lv) \in Confirmable
  BY DEF ClassifyBattery, Confirmable

LEMMA AgedRow ==
  ASSUME NEW row \in Rows
  PROVE  /\ Aged(row) \in Rows
         /\ Aged(row).level = row.level /\ Aged(row).candidate = row.candidate
         /\ Aged(row).count = row.count /\ Aged(row).announced = row.announced
  BY DEF Aged, Rows, Ages

LEMMA NoCount == 0 \in 0..(Confirm - 1)
  BY ConfirmType

LEMMA RowSteady ==
  ASSUME NEW row \in Rows
  PROVE  /\ Steady(row) \in Rows
         /\ Steady(row).level = row.level /\ Steady(row).candidate = "none"
         /\ Steady(row).announced = row.announced
  BY NoCount DEF Steady, Rows

LEMMA RowAt ==
  ASSUME NEW row \in Rows, NEW level \in Levels
  PROVE  /\ At(row, level) \in Rows
         /\ At(row, level).level = level /\ At(row, level).candidate = "none"
         /\ At(row, level).announced = row.announced
  BY NoCount DEF At, Rows

LEMMA RowAnnouncing ==
  ASSUME NEW row \in Rows, NEW kept \in Alerts \union {"none"}
  PROVE  /\ [row EXCEPT !.announced = kept] \in Rows
         /\ [row EXCEPT !.announced = kept].level = row.level
         /\ [row EXCEPT !.announced = kept].candidate = row.candidate
         /\ [row EXCEPT !.announced = kept].count = row.count
         /\ [row EXCEPT !.announced = kept].announced = kept
  BY DEF Rows

LEMMA RowPointing ==
  ASSUME NEW row \in Rows, NEW to \in Confirmable, NEW n \in 0..(Confirm - 1)
  PROVE  /\ Pointing(row, to, n) \in Rows
         /\ Pointing(row, to, n).level = row.level /\ Pointing(row, to, n).candidate = to
         /\ Pointing(row, to, n).count = n /\ Pointing(row, to, n).announced = row.announced
  BY DEF Pointing, Rows

LEMMA SideOfALevel ==
  ASSUME NEW level \in Confirmable
  PROVE  Side(level) \in {"none", "ok", "down", "overcharged"}
  BY DEF Side, Down, Confirmable

LEMMA SameRunSameSide ==
  ASSUME NEW a \in Confirmable, NEW b \in Confirmable
  PROVE  SameRun(a, b) <=> Side(a) = Side(b)
  BY DEF SameRun, Side, Down, Confirmable

LEMMA AgreeingCounts ==
  ASSUME NEW row \in Rows, NEW target \in Confirmable
  PROVE  /\ Agreeing(row, target) \in 1..Confirm
         /\ \/ Agreeing(row, target) = 1
            \/ /\ row.candidate # "none" /\ Side(row.candidate) = Side(target)
               /\ Agreeing(row, target) = row.count + 1
<1>1. row.count \in 0..(Confirm - 1) /\ Confirm \in Nat /\ Confirm >= 1
  BY ConfirmType DEF Rows
<1>2. row.candidate # "none" => (SameRun(row.candidate, target) <=> Side(row.candidate) = Side(target))
  BY SameRunSameSide DEF Rows
<1>3. ASSUME row.candidate # "none", SameRun(row.candidate, target)
      PROVE  Agreeing(row, target) = row.count + 1 /\ Side(row.candidate) = Side(target)
  BY <1>2, <1>3 DEF Agreeing
<1>4. ASSUME ~(row.candidate # "none" /\ SameRun(row.candidate, target))
      PROVE  Agreeing(row, target) = 1
  BY <1>4 DEF Agreeing
<1> QED BY <1>1, <1>3, <1>4

-------------------------------------------------------------------------------
(***************************************************************************)
(* A confirmed change: what is announced is what is said, and what is said *)
(* over is what was announced.                                             *)
(***************************************************************************)
LEMMA KindOfAMessage ==
  ASSUME NEW row \in Rows, NEW target \in Confirmable, NEW prefs, NEW kind,
         kind = Kind(row, target, prefs)
  PROVE  /\ kind \in Messages
         /\ kind \in Alerts => kind = target
         /\ kind = "recovered" => target = "ok" /\ row.announced # "none"
         /\ kind = "low" => row.level # "critical"
  BY DEF Kind, Messages, Alerts, Confirmable

LEMMA MoveFollows ==
  ASSUME NEW row \in Rows, NEW target \in Confirmable, NEW prefs,
         row.level # target, Confirms(row, target), NEW out, out = Move(row, target, prefs)
  PROVE  out \in Plans /\ Sane(out.row) /\ Follows(out, row) /\ out.kind # "enabled"
         /\ out.target = target
<1> DEFINE kind == IF prefs.muted THEN "none" ELSE Kind(row, target, prefs)
<1> DEFINE kept == IF target = "ok" THEN "none" ELSE IF kind = "none" THEN row.announced ELSE target
<1>1. /\ kind \in Messages
      /\ kind \in Alerts => kind = target
      /\ kind = "recovered" => target = "ok" /\ row.announced # "none"
      /\ kind = "low" => row.level # "critical"
  BY KindOfAMessage DEF Messages, Alerts
<1>2. out = [row |-> [At(row, target) EXCEPT !.announced = kept], kind |-> kind, target |-> target]
  BY DEF Move, Outcome
<1> HIDE DEF kind
<1>3. kept \in Alerts \union {"none"}
  BY DEF Confirmable, Alerts, Rows
<1> HIDE DEF kept
<1>4. target \in Levels
  BY DEF Levels
<1>5. /\ out.row \in Rows /\ out.row.level = target /\ out.row.candidate = "none"
      /\ out.row.announced = kept /\ out.kind = kind /\ out.target = target
  <2>1. /\ At(row, target) \in Rows
        /\ At(row, target).level = target /\ At(row, target).candidate = "none"
    BY <1>4, RowAt
  <2>2. out.row = [At(row, target) EXCEPT !.announced = kept] /\ out.kind = kind /\ out.target = target
    BY <1>2
  <2> QED BY <1>3, <2>1, <2>2, RowAnnouncing
<1>6. out \in Plans /\ out.kind # "enabled"
  BY <1>1, <1>2, <1>5 DEF Plans, Messages, Alerts
<1>7. Sane(out.row)
  BY <1>5 DEF kept, Sane, Confirmable
<1>8. out.row.announced = IF out.kind \in Alerts THEN out.kind
                          ELSE IF out.row.level \in {"ok", "unknown"} THEN "none"
                          ELSE row.announced
  BY <1>1, <1>5 DEF kept, Confirmable, Alerts, Messages
<1>9. out.kind = "low" => ~Down(row.level)
  BY <1>1, <1>5 DEF Down, Alerts
<1> QED BY <1>1, <1>5, <1>6, <1>7, <1>8, <1>9 DEF Follows

(***************************************************************************)
(* One later reading, and then any reading.                                *)
(***************************************************************************)
LEMMA JudgeFollows ==
  ASSUME NEW row \in Rows, Sane(row), NEW target \in Confirmable, NEW prefs,
         NEW out, out = Judge(row, target, prefs)
  PROVE  out \in Plans /\ Sane(out.row) /\ Follows(out, row) /\ out.kind # "enabled"
         /\ out.target = target
<1> DEFINE n == Agreeing(row, target)
<1>1. /\ n \in 1..Confirm
      /\ \/ n = 1
         \/ /\ row.candidate # "none" /\ Side(row.candidate) = Side(target)
            /\ n = row.count + 1
  BY AgreeingCounts
<1>2. Confirm \in Nat /\ Confirm >= 1 /\ target \in Levels
  BY ConfirmType DEF Levels
<1>3. ASSUME row.level = "unknown"
      PROVE  out \in Plans /\ Sane(out.row) /\ Follows(out, row) /\ out.kind # "enabled"
             /\ out.target = target
  <2>1. out = [row |-> At(row, target), kind |-> "none", target |-> target]
    BY <1>3 DEF Judge, Outcome
  <2>2. /\ At(row, target) \in Rows /\ At(row, target).level = target
        /\ At(row, target).candidate = "none" /\ At(row, target).announced = row.announced
    BY <1>2, RowAt
  <2>3. row.announced = "none"
    BY <1>3 DEF Sane
  <2> QED BY <2>1, <2>2, <2>3 DEF Plans, Messages, Alerts, Sane, Follows
<1>4. ASSUME row.level # "unknown", target = row.level
      PROVE  out \in Plans /\ Sane(out.row) /\ Follows(out, row) /\ out.kind # "enabled"
             /\ out.target = target
  <2>1. out = [row |-> Steady(row), kind |-> "none", target |-> target]
    BY <1>4 DEF Judge, Outcome
  <2>2. /\ Steady(row) \in Rows /\ Steady(row).level = row.level
        /\ Steady(row).candidate = "none" /\ Steady(row).announced = row.announced
    BY RowSteady
  <2> QED BY <2>1, <2>2 DEF Plans, Messages, Alerts, Sane, Follows
<1>5. ASSUME row.level # "unknown", target # row.level, n < Confirm
      PROVE  out \in Plans /\ Sane(out.row) /\ Follows(out, row) /\ out.kind # "enabled"
             /\ out.target = target
  <2>1. out = [row |-> Pointing(row, target, n), kind |-> "none", target |-> target]
    BY <1>5 DEF Judge, Outcome
  <2> HIDE DEF n
  <2>2. n \in 0..(Confirm - 1)
    BY <1>1, <1>2, <1>5
  <2>3. /\ Pointing(row, target, n) \in Rows /\ Pointing(row, target, n).level = row.level
        /\ Pointing(row, target, n).candidate = target /\ Pointing(row, target, n).count = n
        /\ Pointing(row, target, n).announced = row.announced
    BY <2>2, RowPointing
  <2>4. Counts(row, out)
    BY <1>1, <2>1, <2>3 DEF Counts
  <2> QED BY <2>1, <2>3, <2>4 DEF Plans, Messages, Alerts, Sane, Follows
<1>6. ASSUME row.level # "unknown", target # row.level, ~(n < Confirm)
      PROVE  out \in Plans /\ Sane(out.row) /\ Follows(out, row) /\ out.kind # "enabled"
             /\ out.target = target
  <2>1. out = Move(row, target, prefs)
    BY <1>6 DEF Judge
  <2> HIDE DEF n
  <2>2. Confirms(row, target)
    BY <1>1, <1>2, <1>6 DEF Confirms
  <2> QED BY <1>6, <2>1, <2>2, MoveFollows
<1> QED BY <1>3, <1>4, <1>5, <1>6

LEMMA UnfittedFollows ==
  ASSUME NEW row \in Rows, NEW out, out = Unfitted(row)
  PROVE  out \in Plans /\ Sane(out.row) /\ Follows(out, row) /\ out.kind # "enabled"
         /\ out.target = "none"
<1>1. At(row, "unknown") \in Rows /\ At(row, "unknown").level = "unknown"
      /\ At(row, "unknown").candidate = "none"
  BY RowAt DEF Levels
<1>2. out = [row |-> [At(row, "unknown") EXCEPT !.announced = "none"],
             kind |-> "none", target |-> "none"]
  BY DEF Unfitted, Outcome
<1>3. /\ out.row \in Rows /\ out.row.level = "unknown" /\ out.row.candidate = "none"
      /\ out.row.announced = "none"
  <2>1. "none" \in Alerts \union {"none"}
    OBVIOUS
  <2>2. out.row = [At(row, "unknown") EXCEPT !.announced = "none"]
    BY <1>2
  <2> QED BY <1>1, <2>1, <2>2, RowAnnouncing
<1> QED BY <1>2, <1>3 DEF Plans, Messages, Alerts, Sane, Follows

LEMMA EvaluationFollows ==
  ASSUME NEW mv, NEW row \in Rows, Sane(row), NEW lv, NEW prefs,
         NEW out, out = EvaluateBattery(mv, row, lv, prefs), out.row # row
  PROVE  out \in Plans /\ Sane(out.row) /\ Follows(out, row) /\ out.kind # "enabled"
         /\ (out.target # "none" => row.last # "current")
<1> DEFINE judged == [row EXCEPT !.last = "current"]
<1> DEFINE target == ClassifyBattery(mv, row.level, lv)
<1>1. /\ judged \in Rows /\ judged.level = row.level /\ judged.candidate = row.candidate
      /\ judged.count = row.count /\ judged.announced = row.announced
  BY DEF Rows, Ages
<1>2. ASSUME mv = NoBattery
      PROVE  out = Unfitted(row)
  BY <1>2 DEF EvaluateBattery
<1>3. ASSUME mv # NoBattery
      PROVE  out = Judge(judged, target, prefs) /\ row.last # "current"
  <2>1. ASSUME row.last = "current" PROVE FALSE
    BY <1>3, <2>1 DEF EvaluateBattery, Outcome
  <2> QED BY <1>3, <2>1 DEF EvaluateBattery
<1>4. target \in Confirmable
  BY LevelOfAReading
<1> HIDE DEF judged, target
<1>5. Sane(judged)
  BY <1>1 DEF Sane
<1>6. ASSUME Follows(out, judged) PROVE Follows(out, row)
  BY <1>1, <1>6 DEF Follows, Confirms, Counts
<1>7. ASSUME mv # NoBattery
      PROVE  out \in Plans /\ Sane(out.row) /\ Follows(out, row) /\ out.kind # "enabled"
  <2>1. out = Judge(judged, target, prefs)
    BY <1>3, <1>7
  <2>2. out \in Plans /\ Sane(out.row) /\ Follows(out, judged) /\ out.kind # "enabled"
    BY <1>1, <1>4, <1>5, <2>1, JudgeFollows
  <2> QED BY <1>6, <2>2
<1> QED BY <1>2, <1>3, <1>7, UnfittedFollows

-------------------------------------------------------------------------------
(***************************************************************************)
(* What a step leaves of the invariant.                                    *)
(***************************************************************************)
Inv == TypeOK /\ IInv

LEMMA RuleIsSomething == ASSUME NEW r \in Rules PROVE r # Nothing
<1>1. DOMAIN r = {"own", "row"}
  BY DEF Rules
<1>2. DOMAIN Nothing = {}
  BY DEF Nothing
<1> QED BY <1>1, <1>2

LEMMA WatchIsSomething == ASSUME NEW w \in Watches PROVE w # Nothing
<1>1. DOMAIN w = {"muted", "notifyRecovery", "added"}
  BY DEF Watches
<1>2. DOMAIN Nothing = {}
  BY DEF Nothing
<1> QED BY <1>1, <1>2

LEMMA RuleWithRow ==
  ASSUME NEW r \in Rules, NEW row \in Rows
  PROVE  /\ [r EXCEPT !.row = row] \in Rules
         /\ [r EXCEPT !.row = row].row = row /\ [r EXCEPT !.row = row].own = r.own
  BY DEF Rules

LEMMA PlanWithRow ==
  ASSUME NEW p \in Plans, NEW row \in Rows
  PROVE  /\ [p EXCEPT !.row = row] \in Plans /\ [p EXCEPT !.row = row].row = row
         /\ [p EXCEPT !.row = row].kind = p.kind /\ [p EXCEPT !.row = row].target = p.target
  BY DEF Plans

LEMMA NewRule ==
  LET r == [own |-> Follow, row |-> NewRow]
  IN  /\ r \in Rules /\ Sane(r.row)
      /\ r.row.announced = "none" /\ r.row.candidate = "none"
<1>1. Follow \in OwnChoices
  BY BatteryCheckAssumption
<1> QED BY <1>1, NewRowIsARow DEF Rules

\* A rule added, removed or reset starts over.
LEMMA UnsaidAgrees ==
  ASSUME Unsaid,
         \/ rule' = Nothing
         \/ rule' \in Rules /\ Sane(rule'.row) /\ rule'.row.announced = "none"
            /\ rule'.row.candidate = "none"
  PROVE  AnnouncedMeansTold' /\ RunAgrees' /\ LowAgrees' /\ (rule' # Nothing => Sane(rule'.row))
<1>1. told' = FALSE /\ lowTold' = FALSE
  BY DEF Unsaid
<1>2. AnnouncedMeansTold'
  BY <1>1 DEF AnnouncedMeansTold
<1>3. RunAgrees'
  BY DEF RunAgrees
<1>4. LowAgrees'
  BY <1>1 DEF LowAgrees
<1> QED BY <1>2, <1>3, <1>4

LEMMA UnsaidType ==
  ASSUME Unsaid
  PROVE  {told', lowTold'} \subseteq BOOLEAN
         /\ run' \in [side : {"none", "ok", "down", "overcharged"}, n : 0..Confirm]
<1>1. run' = [side |-> "none", n |-> 0] /\ 0 \in 0..Confirm
  BY ConfirmType DEF Unsaid, NoRun
<1>2. run' \in [side : {"none", "ok", "down", "overcharged"}, n : 0..Confirm]
  BY <1>1
<1>3. {told', lowTold'} \subseteq BOOLEAN
  BY Zenon DEF Unsaid
<1> QED BY <1>2, <1>3

LEMMA RowsHeld ==
  ASSUME Inv, UNCHANGED <<rule, told, lowTold, run>>
  PROVE  AnnouncedMeansTold' /\ RunAgrees' /\ LowAgrees' /\ (rule' # Nothing => Sane(rule'.row))
  BY DEF Inv, IInv, AnnouncedMeansTold, RunAgrees, LowAgrees, RowsAgree

LEMMA MemoryHeld ==
  ASSUME Inv, UNCHANGED <<memory, new>>
  PROVE  PlanAgrees' /\ (old' # Nothing => Sane(old'.row))
  BY DEF Inv, IInv, PlanAgrees, RowsAgree, memory

LEMMA DoneAgrees ==
  ASSUME Done
  PROVE  PlanAgrees' /\ (old' # Nothing => Sane(old'.row))
  BY DEF Done, PlanAgrees

LEMMA AgedFollows ==
  ASSUME NEW out \in Plans, NEW row \in Rows, Follows(out, row), Sane(out.row),
         NEW later, later = [out EXCEPT !.row = Aged(@)]
  PROVE  later \in Plans /\ Sane(later.row) /\ Follows(later, Aged(row))
         /\ later.kind = out.kind /\ later.target = out.target
<1>1. out.row \in Rows /\ later = [out EXCEPT !.row = Aged(out.row)]
  BY DEF Plans
<1>2. Aged(out.row) \in Rows
  BY <1>1, AgedRow
<1>3. /\ later \in Plans /\ later.row = Aged(out.row)
      /\ later.kind = out.kind /\ later.target = out.target
  BY <1>1, <1>2, PlanWithRow
<1>4. /\ later.row.level = out.row.level /\ later.row.candidate = out.row.candidate
      /\ later.row.count = out.row.count /\ later.row.announced = out.row.announced
  BY <1>1, <1>3, AgedRow
<1>5. /\ Aged(row).level = row.level /\ Aged(row).candidate = row.candidate
      /\ Aged(row).count = row.count /\ Aged(row).announced = row.announced
  BY AgedRow
<1> HIDE <1>1
<1> QED BY <1>3, <1>4, <1>5 DEF Sane, Follows, Confirms, Counts

LEMMA InitInv == Init => Inv
<1> SUFFICES ASSUME Init
             PROVE  Inv
  OBVIOUS
<1>1. run = [side |-> "none", n |-> 0] /\ 0 \in 0..Confirm
  BY ConfirmType DEF Init, NoRun
<1>2. TypeOK
  <2>1. run \in [side : {"none", "ok", "down", "overcharged"}, n : 0..Confirm]
    BY <1>1
  <2>2. {intact, new, told, lowTold, refused} \subseteq BOOLEAN
    BY Zenon DEF Init
  <2> QED BY <2>1, <2>2 DEF Init, TypeOK, Phases, Messages
<1>3. IInv
  BY DEF Init, IInv, AnnouncedMeansTold, PlanAgrees, RowsAgree, RunAgrees, LowAgrees, RefusedAgrees
<1> QED BY <1>2, <1>3 DEF Inv

-------------------------------------------------------------------------------
(***************************************************************************)
(* CoreScope and the owner.                                                *)
(***************************************************************************)
LEMMA OutdatedAgrees ==
  ASSUME Inv, Outdated, UNCHANGED <<phase, new>>
  PROVE  /\ old' = Nothing \/ old' \in Rules
         /\ plan' = Nothing \/ plan' \in Plans
         /\ PlanAgrees' /\ (old' # Nothing => Sane(old'.row))
<1>1. ASSUME old # Nothing
      PROVE  /\ old.row \in Rows /\ old' \in Rules /\ old'.row = Aged(old.row) /\ Sane(old'.row)
             /\ old' # Nothing
  <2>1. old \in Rules /\ old.row \in Rows /\ Sane(old.row)
    BY <1>1 DEF Inv, TypeOK, IInv, RowsAgree, Rules
  <2>2. old' = [old EXCEPT !.row = Aged(old.row)]
    BY <1>1 DEF Outdated
  <2>3. Aged(old.row) \in Rows
    BY <2>1, AgedRow
  <2>4. old' \in Rules /\ old'.row = Aged(old.row)
    BY <2>1, <2>2, <2>3, RuleWithRow
  <2>5. Sane(old'.row)
    BY <2>1, <2>4, AgedRow DEF Sane
  <2> QED BY <2>1, <2>4, <2>5, RuleIsSomething
<1>2. old = Nothing => old' = Nothing
  BY DEF Outdated
<1>3. ASSUME plan # Nothing
      PROVE  /\ plan \in Plans /\ plan' = [plan EXCEPT !.row = Aged(@)]
             /\ plan.row \in Rows /\ plan' \in Plans /\ plan'.row = Aged(plan.row)
             /\ plan'.kind = plan.kind /\ plan'.target = plan.target
  <2>1. plan \in Plans /\ plan.row \in Rows
    BY <1>3 DEF Inv, TypeOK, Plans
  <2>2. plan' = [plan EXCEPT !.row = Aged(plan.row)]
    BY <1>3 DEF Outdated
  <2>3. Aged(plan.row) \in Rows
    BY <2>1, AgedRow
  <2> QED BY <2>1, <2>2, <2>3, PlanWithRow
<1>4. plan = Nothing => plan' = Nothing
  BY DEF Outdated
<1>5. ASSUME phase = "planned"
      PROVE  /\ plan' \in Plans /\ Sane(plan'.row)
             /\ old = Nothing => /\ plan'.kind \in {"none", "enabled"}
                                 /\ plan'.row.announced = "none" /\ plan'.row.candidate = "none"
             /\ old # Nothing => /\ Follows(plan', old'.row) /\ plan'.kind # "enabled"
                                 /\ plan'.target # "none" => new'
  <2>1. /\ plan \in Plans /\ Sane(plan.row)
        /\ old = Nothing => /\ plan.kind \in {"none", "enabled"}
                            /\ plan.row.announced = "none" /\ plan.row.candidate = "none"
        /\ old # Nothing => /\ Follows(plan, old.row) /\ plan.kind # "enabled"
                            /\ plan.target # "none" => new
    BY <1>5 DEF Inv, IInv, PlanAgrees
  <2>2. DOMAIN plan = {"row", "kind", "target"} /\ DOMAIN Nothing = {}
    BY <2>1 DEF Plans, Nothing
  <2>3. plan # Nothing
    BY <2>2
  <2>4. Sane(plan'.row)
    BY <1>3, <2>1, <2>3, AgedRow DEF Sane
  <2>5. ASSUME old = Nothing
        PROVE  plan'.row.announced = "none" /\ plan'.row.candidate = "none"
    BY <1>3, <2>1, <2>3, <2>5, AgedRow
  <2>6. ASSUME old # Nothing
        PROVE  Follows(plan', old'.row)
    BY <1>1, <1>3, <2>1, <2>3, <2>6, AgedFollows
  <2> QED BY <1>3, <2>1, <2>3, <2>4, <2>5, <2>6
<1>6. PlanAgrees'
  BY <1>1, <1>2, <1>5 DEF PlanAgrees
<1> QED BY <1>1, <1>2, <1>3, <1>4, <1>6 DEF Inv, TypeOK

LEMMA NewReadingInv ==
  ASSUME Inv, NEW mv \in Voltages, NewReading(mv)
  PROVE  Inv'
<1>1. /\ watch' = watch /\ auto' = auto /\ phase' = phase /\ seen' = seen /\ said' = said
      /\ intact' = intact /\ new' = new /\ told' = told /\ lowTold' = lowTold /\ run' = run
      /\ refused' = refused /\ reading' \in Voltages /\ Outdated
  BY DEF NewReading, held, history
<1>2. /\ old' = Nothing \/ old' \in Rules
      /\ plan' = Nothing \/ plan' \in Plans
      /\ PlanAgrees' /\ (old' # Nothing => Sane(old'.row))
  BY <1>1, OutdatedAgrees
<1>3. ASSUME rule # Nothing
      PROVE  /\ rule' \in Rules /\ rule' # Nothing /\ Sane(rule'.row)
             /\ rule'.row.level = rule.row.level /\ rule'.row.candidate = rule.row.candidate
             /\ rule'.row.count = rule.row.count /\ rule'.row.announced = rule.row.announced
  <2>1. rule \in Rules /\ rule.row \in Rows /\ Sane(rule.row)
    BY <1>3 DEF Inv, TypeOK, IInv, RowsAgree, Rules
  <2>2. rule' = [rule EXCEPT !.row = Aged(rule.row)]
    BY <1>3 DEF NewReading
  <2>3. Aged(rule.row) \in Rows
    BY <2>1, AgedRow
  <2>4. rule' \in Rules /\ rule'.row = Aged(rule.row)
    BY <2>1, <2>2, <2>3, RuleWithRow
  <2>5. /\ rule'.row.level = rule.row.level /\ rule'.row.candidate = rule.row.candidate
        /\ rule'.row.count = rule.row.count /\ rule'.row.announced = rule.row.announced
    BY <2>1, <2>4, AgedRow
  <2> QED BY <2>1, <2>4, <2>5, RuleIsSomething DEF Sane
<1>4. rule = Nothing => rule' = Nothing
  BY DEF NewReading
<1>5. TypeOK'
  BY <1>1, <1>2, <1>3, <1>4 DEF Inv, TypeOK
<1>6. AnnouncedMeansTold'
  BY <1>1, <1>3, <1>4 DEF Inv, IInv, AnnouncedMeansTold
<1>7. RunAgrees'
  BY <1>1, <1>3, <1>4 DEF Inv, IInv, RunAgrees
<1>8. LowAgrees' /\ RefusedAgrees'
  BY <1>1, <1>3, <1>4 DEF Inv, IInv, LowAgrees, RefusedAgrees
<1> QED BY <1>2, <1>3, <1>4, <1>5, <1>6, <1>7, <1>8 DEF Inv, IInv, RowsAgree

LEMMA CreateWatchInv ==
  ASSUME Inv, NEW prefs \in PrefChoices, NEW tick \in Ticks, NEW mv \in Voltages,
         CreateWatch(prefs, tick, mv)
  PROVE  Inv'
<1>1. /\ auto' = auto /\ phase' = phase /\ seen' = seen /\ said' = said
      /\ intact' = FALSE /\ new' = new /\ Unsaid /\ refused' = (tick = "no battery")
      /\ reading' \in Voltages
  BY DEF CreateWatch, Fresh
<1>2. /\ old' = Nothing \/ old' \in Rules
      /\ plan' = Nothing \/ plan' \in Plans
      /\ PlanAgrees' /\ (old' # Nothing => Sane(old'.row))
  <2>1. ASSUME Outdated
        PROVE  /\ old' = Nothing \/ old' \in Rules
               /\ plan' = Nothing \/ plan' \in Plans
               /\ PlanAgrees' /\ (old' # Nothing => Sane(old'.row))
    BY <1>1, <2>1, OutdatedAgrees
  <2>2. ASSUME UNCHANGED <<old, plan>>
        PROVE  /\ old' = Nothing \/ old' \in Rules
               /\ plan' = Nothing \/ plan' \in Plans
               /\ PlanAgrees' /\ (old' # Nothing => Sane(old'.row))
    BY <1>1, <2>2, MemoryHeld DEF Inv, TypeOK, memory
  <2> QED BY <2>1, <2>2 DEF CreateWatch
<1>3. watch' \in Watches /\ watch'.added = (tick # "not asked")
  <2>1. prefs \in [muted : BOOLEAN, notifyRecovery : BOOLEAN]
    BY BatteryCheckAssumption
  <2>2. watch' = [muted |-> prefs.muted, notifyRecovery |-> prefs.notifyRecovery,
                  added |-> tick # "not asked"]
    BY DEF CreateWatch
  <2>3. (tick # "not asked") \in BOOLEAN
    OBVIOUS
  <2> QED BY <2>1, <2>2, <2>3 DEF Watches
<1>4. \/ rule' = Nothing
      \/ rule' \in Rules /\ Sane(rule'.row) /\ rule'.row.announced = "none"
         /\ rule'.row.candidate = "none"
  BY NewRule DEF CreateWatch
<1>5. AnnouncedMeansTold' /\ RunAgrees' /\ LowAgrees' /\ (rule' # Nothing => Sane(rule'.row))
  BY <1>1, <1>4, UnsaidAgrees
<1>6. RefusedAgrees'
  BY <1>1, <1>3, WatchIsSomething DEF RefusedAgrees
<1>7. TypeOK'
  <2>1. {intact', new', told', lowTold', refused'} \subseteq BOOLEAN
    BY <1>1, UnsaidType DEF Inv, TypeOK
  <2> QED BY <1>1, <1>2, <1>3, <1>4, <2>1, UnsaidType DEF Inv, TypeOK
<1> QED BY <1>2, <1>5, <1>6, <1>7 DEF Inv, IInv, RowsAgree

\* An edit that starts the rule over and leaves the check what it holds.
LEMMA StartedOverInv ==
  ASSUME Inv, Fresh, UNCHANGED <<auto, reading, memory, said>>,
         watch' = Nothing \/ watch' \in Watches,
         \/ rule' = Nothing
         \/ rule' \in Rules /\ Sane(rule'.row) /\ rule'.row.announced = "none"
            /\ rule'.row.candidate = "none",
         refused' \in BOOLEAN, RefusedAgrees'
  PROVE  Inv'
<1>1. /\ auto' = auto /\ reading' = reading /\ phase' = phase /\ seen' = seen /\ old' = old
      /\ plan' = plan /\ said' = said /\ intact' = FALSE /\ new' = new /\ Unsaid
  BY DEF memory, Fresh
<1>2. AnnouncedMeansTold' /\ RunAgrees' /\ LowAgrees' /\ (rule' # Nothing => Sane(rule'.row))
  BY <1>1, UnsaidAgrees
<1>3. PlanAgrees' /\ (old' # Nothing => Sane(old'.row))
  BY <1>1, MemoryHeld DEF memory
<1>4. TypeOK'
  <2>1. {intact', new', told', lowTold', refused'} \subseteq BOOLEAN
    BY <1>1, UnsaidType DEF Inv, TypeOK
  <2> QED BY <1>1, <2>1, UnsaidType DEF Inv, TypeOK
<1> QED BY <1>2, <1>3, <1>4 DEF Inv, IInv, RowsAgree

LEMMA WatchAdded ==
  ASSUME Inv, watch # Nothing, NEW w, w = [watch EXCEPT !.added = TRUE]
  PROVE  w \in Watches /\ w.added = TRUE /\ w # Nothing
<1>1. watch \in Watches
  BY DEF Inv, TypeOK
<1>2. w \in Watches /\ w.added = TRUE
  BY <1>1 DEF Watches
<1> QED BY <1>2, WatchIsSomething

LEMMA DeleteWatchInv ==
  ASSUME Inv, DeleteWatch
  PROVE  Inv'
<1>1. /\ watch' = Nothing /\ rule' = Nothing /\ refused' = FALSE /\ Fresh
      /\ UNCHANGED <<auto, reading, memory, said>>
  BY DEF DeleteWatch
<1>2. RefusedAgrees'
  BY <1>1 DEF RefusedAgrees
<1> QED BY <1>1, <1>2, StartedOverInv

LEMMA AddBatteryRuleInv ==
  ASSUME Inv, AddBatteryRule
  PROVE  Inv'
<1>1. /\ watch # Nothing /\ watch' = [watch EXCEPT !.added = TRUE]
      /\ rule' = [own |-> Follow, row |-> NewRow]
      /\ refused' = FALSE /\ Fresh /\ UNCHANGED <<auto, reading, memory, said>>
  BY DEF AddBatteryRule
<1>2. watch' \in Watches
  BY <1>1, WatchAdded
<1>3. /\ rule' \in Rules /\ Sane(rule'.row) /\ rule'.row.announced = "none"
      /\ rule'.row.candidate = "none"
  BY <1>1, NewRule
<1>4. RefusedAgrees'
  BY <1>1 DEF RefusedAgrees
<1> QED BY <1>1, <1>2, <1>3, <1>4, StartedOverInv

LEMMA DeleteBatteryRuleInv ==
  ASSUME Inv, DeleteBatteryRule
  PROVE  Inv'
<1>1. /\ watch # Nothing /\ watch' = [watch EXCEPT !.added = TRUE] /\ rule' = Nothing
      /\ refused' = TRUE /\ Fresh /\ UNCHANGED <<auto, reading, memory, said>>
  BY DEF DeleteBatteryRule
<1>2. watch' \in Watches /\ watch'.added = TRUE /\ watch' # Nothing
  BY <1>1, WatchAdded
<1>3. RefusedAgrees'
  BY <1>2 DEF RefusedAgrees
<1> QED BY <1>1, <1>2, <1>3, StartedOverInv

LEMMA SettingsInv ==
  ASSUME Inv, \/ \E prefs \in PrefChoices : SetPrefs(prefs)
              \/ \E on \in BOOLEAN : SetAutoBattery(on)
  PROVE  Inv'
<1>1. /\ rule' = rule /\ reading' = reading /\ phase' = phase /\ seen' = seen /\ old' = old
      /\ plan' = plan /\ said' = said /\ intact' = intact /\ new' = new /\ told' = told
      /\ lowTold' = lowTold /\ run' = run /\ refused' = refused
  BY DEF SetPrefs, SetAutoBattery, memory, held, history
<1>2. auto' \in BOOLEAN
  BY DEF SetPrefs, SetAutoBattery, Inv, TypeOK
<1>3. \/ watch' = watch
      \/ watch # Nothing /\ watch' \in Watches /\ watch'.added = watch.added
  <2>1. ASSUME NEW prefs \in PrefChoices, SetPrefs(prefs)
        PROVE  watch # Nothing /\ watch' \in Watches /\ watch'.added = watch.added
    <3>1. prefs \in [muted : BOOLEAN, notifyRecovery : BOOLEAN]
      BY BatteryCheckAssumption
    <3>2. /\ watch # Nothing /\ watch \in Watches
          /\ watch' = [watch EXCEPT !.muted = prefs.muted, !.notifyRecovery = prefs.notifyRecovery]
      BY <2>1 DEF SetPrefs, Inv, TypeOK
    <3> QED BY <3>1, <3>2 DEF Watches
  <2> QED BY <2>1 DEF SetAutoBattery
<1>4. RefusedAgrees'
  BY <1>1, <1>3, WatchIsSomething DEF Inv, IInv, RefusedAgrees
<1>5. TypeOK'
  BY <1>1, <1>2, <1>3 DEF Inv, TypeOK
<1> QED BY <1>1, <1>4, <1>5, RowsHeld, MemoryHeld DEF Inv, IInv, RowsAgree, memory

LEMMA UpdateBatteryLevelsInv ==
  ASSUME Inv, NEW own \in OwnChoices, UpdateBatteryLevels(own)
  PROVE  Inv'
<1> DEFINE off == ~own.overOn /\ rule.row.level = "overcharged"
<1>1. /\ rule # Nothing /\ rule \in Rules
      /\ watch' = watch /\ refused' = refused /\ UNCHANGED <<auto, reading, memory, said>>
  BY DEF UpdateBatteryLevels, Inv, TypeOK
<1>2. RefusedAgrees'
  BY <1>1 DEF Inv, IInv, RefusedAgrees
<1>3. ASSUME off PROVE Inv'
  <2>1. Fresh /\ rule' = [own |-> own, row |-> NewRow]
    BY <1>3 DEF UpdateBatteryLevels, SwitchedOff
  <2>2. /\ rule' \in Rules /\ Sane(rule'.row) /\ rule'.row.announced = "none"
        /\ rule'.row.candidate = "none"
    BY <2>1, NewRowIsARow DEF Rules
  <2>3. (watch' = Nothing \/ watch' \in Watches) /\ refused' \in BOOLEAN
    BY <1>1 DEF Inv, TypeOK
  <2> QED BY <1>1, <1>2, <2>1, <2>2, <2>3, StartedOverInv
<1>4. ASSUME ~off PROVE Inv'
  <2>1. rule' = [own |-> own, row |-> rule.row] /\ UNCHANGED <<held, told, lowTold, run>>
    BY <1>4 DEF UpdateBatteryLevels
  <2>2. rule' \in Rules /\ rule'.row = rule.row
    BY <1>1, <2>1 DEF Rules
  <2>3. rule' # Nothing
    BY <2>2, RuleIsSomething
  <2>4. /\ auto' = auto /\ reading' = reading /\ phase' = phase /\ seen' = seen /\ old' = old
        /\ plan' = plan /\ said' = said /\ intact' = intact /\ new' = new /\ told' = told
        /\ lowTold' = lowTold /\ run' = run
    BY <1>1, <2>1 DEF memory, held
  <2>5. PlanAgrees' /\ (old' # Nothing => Sane(old'.row))
    BY <2>4, MemoryHeld DEF memory
  <2>6. AnnouncedMeansTold' /\ RunAgrees' /\ LowAgrees' /\ (rule' # Nothing => Sane(rule'.row))
    BY <1>1, <2>2, <2>3, <2>4
       DEF Inv, IInv, AnnouncedMeansTold, RunAgrees, LowAgrees, RowsAgree
  <2>7. TypeOK'
    BY <1>1, <2>2, <2>4 DEF Inv, TypeOK
  <2> QED BY <1>2, <2>5, <2>6, <2>7 DEF Inv, IInv, RowsAgree
<1> QED BY <1>3, <1>4

LEMMA EditInv ==
  ASSUME Inv, Edit
  PROVE  Inv'
  BY CreateWatchInv, DeleteWatchInv, SettingsInv, AddBatteryRuleInv, DeleteBatteryRuleInv,
     UpdateBatteryLevelsInv DEF Edit

-------------------------------------------------------------------------------
(***************************************************************************)
(* The check.  Until it saves, it changes only what it holds.              *)
(***************************************************************************)
LEMMA NothingSavedInv ==
  ASSUME Inv, UNCHANGED <<world, history>>, said' \in Messages \union {"enabled"},
         phase' \in Phases, seen' = Nothing \/ seen' \in Watches,
         old' = Nothing \/ old' \in Rules, old' # Nothing => Sane(old'.row),
         plan' = Nothing \/ plan' \in Plans,
         intact' \in BOOLEAN, new' \in BOOLEAN, PlanAgrees'
  PROVE  Inv'
<1>1. /\ watch' = watch /\ rule' = rule /\ auto' = auto /\ reading' = reading
      /\ told' = told /\ lowTold' = lowTold /\ run' = run /\ refused' = refused
  BY DEF world, history
<1>2. AnnouncedMeansTold' /\ RunAgrees' /\ LowAgrees' /\ (rule' # Nothing => Sane(rule'.row))
  BY <1>1, RowsHeld
<1>3. RefusedAgrees'
  BY <1>1 DEF Inv, IInv, RefusedAgrees
<1>4. TypeOK'
  <2>1. {intact', new', told', lowTold', refused'} \subseteq BOOLEAN
    BY <1>1 DEF Inv, TypeOK
  <2> QED BY <1>1, <2>1 DEF Inv, TypeOK
<1> QED BY <1>2, <1>3, <1>4 DEF Inv, IInv, RowsAgree

LEMMA EndedInv ==
  ASSUME Inv, Done, UNCHANGED <<world, said, history>>
  PROVE  Inv'
<1>1. /\ phase' \in Phases /\ seen' = Nothing /\ old' = Nothing /\ plan' = Nothing
      /\ intact' \in BOOLEAN /\ new' \in BOOLEAN
  BY DEF Done, Phases
<1>2. said' \in Messages \union {"enabled"} /\ UNCHANGED <<world, history>>
  BY DEF Inv, TypeOK
<1> QED BY <1>1, <1>2, DoneAgrees, NothingSavedInv

LEMMA ReadsInv ==
  ASSUME Inv, ReadWatches \/ ReadRules \/ ReadUsers
  PROVE  Inv'
<1>1. ASSUME ReadWatches PROVE Inv'
  <2>1. /\ UNCHANGED <<world, history>> /\ said' = "none" /\ phase' = "watches" /\ seen' = watch
        /\ old' = old /\ plan' = plan /\ intact' = intact /\ new' = new
    BY <1>1 DEF ReadWatches, held
  <2>2. PlanAgrees'
    BY <2>1 DEF PlanAgrees
  <2> QED BY <2>1, <2>2, NothingSavedInv DEF Inv, IInv, TypeOK, RowsAgree, Phases, Messages
<1>2. ASSUME ReadRules PROVE Inv'
  <2>1. /\ UNCHANGED <<world, history>> /\ said' = said /\ phase' = "rules" /\ seen' = seen
        /\ old' = rule /\ plan' = plan /\ new' = new /\ intact' = (rule # Nothing)
    BY <1>2 DEF ReadRules
  <2>2. PlanAgrees'
    BY <2>1 DEF PlanAgrees
  <2>3. intact' \in BOOLEAN
    BY <2>1
  <2> QED BY <2>1, <2>2, <2>3, NothingSavedInv DEF Inv, IInv, TypeOK, RowsAgree, Phases
<1>3. ASSUME ReadUsers PROVE Inv'
  <2>1. ASSUME Done PROVE Inv'
    BY <1>3, <2>1, EndedInv DEF ReadUsers
  <2>2. ASSUME phase' = "fetching", UNCHANGED <<seen, old, plan, held>> PROVE Inv'
    <3>1. /\ UNCHANGED <<world, history>> /\ said' = said /\ seen' = seen
          /\ old' = old /\ plan' = plan /\ intact' = intact /\ new' = new
      BY <1>3, <2>2 DEF ReadUsers, held
    <3>2. PlanAgrees'
      BY <2>2 DEF PlanAgrees
    <3> QED BY <2>2, <3>1, <3>2, NothingSavedInv DEF Inv, IInv, TypeOK, RowsAgree, Phases
  <2> QED BY <1>3, <2>1, <2>2 DEF ReadUsers
<1> QED BY <1>1, <1>2, <1>3

LEMMA PlannedInv ==
  ASSUME Inv, NEW out \in Plans, Plan(out), Sane(out.row),
         old = Nothing => /\ out.kind \in {"none", "enabled"}
                          /\ out.row.announced = "none" /\ out.row.candidate = "none",
         old # Nothing => /\ Follows(out, old.row) /\ out.kind # "enabled"
                          /\ out.target # "none" => old.row.last # "current"
  PROVE  Inv'
<1>1. /\ UNCHANGED <<world, history>> /\ said' = said /\ phase' = "planned" /\ seen' = Nothing
      /\ old' = old /\ plan' = out /\ intact' = intact
      /\ new' = (old = Nothing \/ old.row.last # "current")
  BY DEF Plan
<1>2. new' \in BOOLEAN
  BY <1>1
<1>3. PlanAgrees'
  BY <1>1 DEF PlanAgrees
<1> QED BY <1>1, <1>2, <1>3, NothingSavedInv DEF Inv, IInv, TypeOK, RowsAgree, Phases

LEMMA FetchForAdditionInv ==
  ASSUME Inv, FetchForAddition
  PROVE  Inv'
<1> DEFINE level == ClassifyBattery(reading, "unknown", ResolveBatteryLevels(Follow, Site, Scope))
<1> DEFINE kind == IF seen.muted THEN "none" ELSE "enabled"
<1> DEFINE row == [NewRow EXCEPT !.level = level, !.last = "current"]
<1>1. level \in Levels
  BY LevelOfAReading DEF Levels
<1>2. Addition = [row |-> row, kind |-> kind, target |-> "none"]
  BY DEF Addition, Outcome
<1> HIDE DEF level
<1>3. row \in Rows /\ row.announced = "none" /\ row.candidate = "none"
  BY <1>1, NewRowIsARow DEF Rows, Ages
<1> HIDE DEF row
<1>4. kind \in {"none", "enabled"}
  OBVIOUS
<1> HIDE DEF kind
<1>5. Addition \in Plans /\ Addition.row = row /\ Addition.kind = kind
  BY <1>2, <1>3, <1>4 DEF Plans, Messages
<1>6. Sane(Addition.row)
  BY <1>3, <1>5 DEF Sane
<1>7. old = Nothing /\ Plan(Addition)
  BY DEF FetchForAddition
<1> QED BY <1>3, <1>4, <1>5, <1>6, <1>7, PlannedInv

LEMMA FetchForRuleInv ==
  ASSUME Inv, FetchForRule
  PROVE  Inv'
<1>1. old # Nothing /\ old.row \in Rows /\ Sane(old.row)
  BY DEF FetchForRule, Inv, IInv, TypeOK, RowsAgree, Rules
<1>2. ASSUME Judgement.row # old.row PROVE Inv'
  <2>1. Plan(Judgement)
    BY <1>2 DEF FetchForRule
  <2>2. /\ Judgement \in Plans /\ Sane(Judgement.row) /\ Follows(Judgement, old.row)
        /\ Judgement.kind # "enabled"
        /\ Judgement.target # "none" => old.row.last # "current"
    BY <1>1, <1>2, EvaluationFollows DEF Judgement
  <2> QED BY <1>1, <2>1, <2>2, PlannedInv
<1>3. ASSUME Judgement.row = old.row PROVE Inv'
  BY <1>3, EndedInv DEF FetchForRule
<1> QED BY <1>2, <1>3

\* What the save of an addition knows of its plan.
LEMMA AdditionPlan ==
  ASSUME Inv, phase = "planned", old = Nothing
  PROVE  /\ plan \in Plans /\ plan.row \in Rows /\ Sane(plan.row)
         /\ plan.kind \in {"none", "enabled"}
         /\ plan.row.announced = "none" /\ plan.row.candidate = "none"
  BY DEF Inv, IInv, PlanAgrees, Plans

LEMMA InsertAutoBatteryRuleInv ==
  ASSUME Inv, InsertAutoBatteryRule
  PROVE  Inv'
<1>1. Done /\ auto' = auto /\ reading' = reading /\ refused' = refused
  BY DEF InsertAutoBatteryRule
<1>2. /\ plan \in Plans /\ plan.row \in Rows /\ Sane(plan.row)
      /\ plan.kind \in {"none", "enabled"}
      /\ plan.row.announced = "none" /\ plan.row.candidate = "none"
  BY AdditionPlan DEF InsertAutoBatteryRule
<1>3. ASSUME Insertable PROVE Inv'
  <2>1. /\ rule' = [own |-> Follow, row |-> plan.row] /\ watch # Nothing
        /\ watch' = [watch EXCEPT !.added = TRUE] /\ said' = plan.kind /\ Unsaid
    BY <1>3 DEF InsertAutoBatteryRule, Insertable
  <2>2. Follow \in OwnChoices
    BY BatteryCheckAssumption
  <2>3. /\ rule' \in Rules /\ Sane(rule'.row) /\ rule'.row.announced = "none"
        /\ rule'.row.candidate = "none"
    BY <1>2, <2>1, <2>2 DEF Rules
  <2>4. watch' \in Watches /\ watch'.added = TRUE /\ watch' # Nothing
    BY <2>1, WatchAdded
  <2>5. AnnouncedMeansTold' /\ RunAgrees' /\ LowAgrees' /\ (rule' # Nothing => Sane(rule'.row))
    BY <2>1, <2>3, UnsaidAgrees
  <2>6. RefusedAgrees'
    BY <2>4 DEF RefusedAgrees
  <2>7. said' \in Messages \union {"enabled"}
    BY <1>2, <2>1 DEF Messages
  <2>8. TypeOK'
    <3>1. {intact', new', told', lowTold', refused'} \subseteq BOOLEAN
      BY <1>1, <2>1, UnsaidType DEF Inv, TypeOK, Done
    <3> QED BY <1>1, <2>1, <2>3, <2>4, <2>7, <3>1, UnsaidType DEF Inv, TypeOK, Done, Phases
  <2> QED BY <1>1, <2>5, <2>6, <2>8, DoneAgrees DEF Inv, IInv, RowsAgree
<1>4. ASSUME ~Insertable PROVE Inv'
  BY <1>1, <1>4, EndedInv DEF InsertAutoBatteryRule, world, history
<1> QED BY <1>3, <1>4

(***************************************************************************)
(* The save of a state.  The row is still the one it was judged by, so     *)
(* what the plan says of that row it says of the one in the table.         *)
(***************************************************************************)
LEMMA SavedPlan ==
  ASSUME Inv, NEW others, NEW sameSecond, SaveBatteryState(others, sameSecond)
  PROVE  /\ rule # Nothing /\ rule \in Rules /\ rule.row \in Rows /\ rule.row = old.row
         /\ plan \in Plans /\ plan.row \in Rows /\ Sane(plan.row) /\ Follows(plan, rule.row)
         /\ plan.kind \in Messages /\ plan.target \in Confirmable \union {"none"}
         /\ plan.target # "none" => new
<1>1. rule # Nothing /\ rule.row = old.row /\ phase = "planned" /\ old # Nothing
  BY DEF SaveBatteryState, Unchanged
<1>2. rule \in Rules /\ rule.row \in Rows
  BY <1>1 DEF Inv, TypeOK, Rules
<1>3. /\ plan \in Plans /\ Sane(plan.row) /\ Follows(plan, old.row) /\ plan.kind # "enabled"
      /\ plan.target # "none" => new
  BY <1>1 DEF Inv, IInv, PlanAgrees
<1> QED BY <1>1, <1>2, <1>3 DEF Plans

LEMMA AnnouncedRow ==
  ASSUME Inv, NEW others, NEW sameSecond, SaveBatteryState(others, sameSecond),
         NEW row, row = Announced(others),
         NEW kind, kind = IF Tripped(others) THEN "none" ELSE plan.kind
  PROVE  /\ row \in Rows /\ row.level = plan.row.level /\ row.candidate = plan.row.candidate
         /\ row.count = plan.row.count /\ kind \in Messages
         /\ row.announced = IF kind \in Alerts THEN kind
                            ELSE IF row.level \in {"ok", "unknown"} THEN "none"
                            ELSE rule.row.announced
         /\ kind # "none" => kind = plan.kind
<1>1. /\ rule.row \in Rows /\ rule.row = old.row /\ plan.row \in Rows /\ plan.kind \in Messages
      /\ Follows(plan, rule.row)
  BY SavedPlan
<1>2. ASSUME Tripped(others)
      PROVE  /\ row \in Rows /\ row.level = plan.row.level /\ row.candidate = plan.row.candidate
             /\ row.count = plan.row.count /\ row.announced = rule.row.announced
             /\ kind = "none" /\ row.level \in Alerts
  <2>1. row = [plan.row EXCEPT !.announced = rule.row.announced] /\ kind = "none"
    BY <1>1, <1>2 DEF Announced
  <2>2. rule.row.announced \in Alerts \union {"none"}
    BY <1>1 DEF Rows
  <2>3. /\ row \in Rows /\ row.level = plan.row.level /\ row.candidate = plan.row.candidate
        /\ row.count = plan.row.count /\ row.announced = rule.row.announced
    BY <1>1, <2>1, <2>2, RowAnnouncing
  <2>4. plan.row.level \in Alerts
    BY <1>1, <1>2 DEF Tripped, Follows
  <2> QED BY <2>1, <2>3, <2>4
<1>3. ASSUME ~Tripped(others)
      PROVE  row = plan.row /\ kind = plan.kind
  BY <1>3 DEF Announced
<1>4. ASSUME ~Tripped(others)
      PROVE  row.announced = IF kind \in Alerts THEN kind
                             ELSE IF row.level \in {"ok", "unknown"} THEN "none"
                             ELSE rule.row.announced
  BY <1>1, <1>3, <1>4 DEF Follows
<1> QED BY <1>1, <1>2, <1>3, <1>4 DEF Messages, Alerts

\* The readings counted in the history are at least those counted in the row.
LEMMA RunCounts ==
  ASSUME Inv, NEW others, NEW sameSecond, SaveBatteryState(others, sameSecond)
  PROVE  /\ run' \in [side : {"none", "ok", "down", "overcharged"}, n : 0..Confirm]
         /\ plan.row.candidate # "none" =>
               run'.side = Side(plan.row.candidate) /\ run'.n >= plan.row.count
         /\ plan.target # "none" /\ Confirms(rule.row, plan.target) =>
               run' = [side |-> Side(plan.target), n |-> Confirm]
<1>1. /\ rule # Nothing /\ rule.row \in Rows /\ Follows(plan, rule.row)
      /\ plan.target \in Confirmable \union {"none"}
      /\ plan.target # "none" => new
  BY SavedPlan
<1>2. run' = Longer(plan.target)
  BY DEF SaveBatteryState
<1>3. Confirm \in Nat /\ Confirm >= 1 /\ rule.row.count \in 0..(Confirm - 1)
  BY <1>1, ConfirmType DEF Rows
<1>4. run \in [side : {"none", "ok", "down", "overcharged"}, n : 0..Confirm]
  BY DEF Inv, TypeOK
<1>5. run.n \in 0..Confirm
  BY <1>4
<1>6. rule.row.candidate # "none" => run.side = Side(rule.row.candidate) /\ run.n >= rule.row.count
  BY <1>1 DEF Inv, IInv, RunAgrees
<1>7. ASSUME plan.target = "none"
      PROVE  /\ run' = [side |-> "none", n |-> 0] /\ 0 \in 0..Confirm
             /\ plan.row.candidate = "none"
  <2>1. run' = [side |-> "none", n |-> 0] /\ 0 \in 0..Confirm
    BY <1>2, <1>3, <1>7 DEF Longer, NoRun
  <2>2. plan.row.candidate # "none" => plan.row.candidate = plan.target
    BY <1>1 DEF Follows, Counts
  <2> QED BY <1>7, <2>1, <2>2
<1>8. ASSUME plan.target # "none"
      PROVE  /\ run' \in [side : {"none", "ok", "down", "overcharged"}, n : 0..Confirm]
             /\ plan.row.candidate # "none" =>
                   run'.side = Side(plan.row.candidate) /\ run'.n >= plan.row.count
             /\ Confirms(rule.row, plan.target) =>
                   run' = [side |-> Side(plan.target), n |-> Confirm]
  <2> DEFINE side == Side(plan.target)
  <2> DEFINE n == IF run.side # side THEN 1 ELSE IF run.n < Confirm THEN run.n + 1 ELSE run.n
  <2>1. run' = [side |-> side, n |-> n]
    <3>1. plan.target # "none" /\ new
      BY <1>1, <1>8
    <3>2. Longer(plan.target) = [side |-> side, n |-> n]
      BY <3>1, Zenon DEF Longer
    <3> QED BY <1>2, <3>2
  <2>2. side \in {"none", "ok", "down", "overcharged"}
    <3>1. plan.target \in Confirmable
      BY <1>1, <1>8
    <3> QED BY <3>1, SideOfALevel
  <2>3. ASSUME rule.row.candidate # "none", Side(rule.row.candidate) = side
        PROVE  run.side = side /\ run.n >= rule.row.count
    BY <1>6, <2>3
  <2> HIDE DEF side
  <2>4. n \in 1..Confirm
    BY <1>3, <1>5
  <2>5. ASSUME rule.row.candidate # "none", Side(rule.row.candidate) = side
        PROVE  n >= rule.row.count + 1
    BY <1>3, <1>5, <2>3, <2>5
  <2>6. ASSUME Confirms(rule.row, plan.target)
        PROVE  n = Confirm
    <3>1. \/ Confirm = 1
          \/ /\ rule.row.candidate # "none" /\ Side(rule.row.candidate) = side
             /\ rule.row.count + 1 >= Confirm
      BY <2>6 DEF Confirms, side
    <3> HIDE DEF n
    <3> QED BY <1>3, <2>4, <2>5, <3>1
  <2>7. ASSUME plan.row.candidate # "none"
        PROVE  /\ plan.row.candidate = plan.target
               /\ \/ plan.row.count = 1
                  \/ /\ rule.row.candidate # "none" /\ Side(rule.row.candidate) = side
                     /\ plan.row.count = rule.row.count + 1
    BY <1>1, <2>7 DEF Follows, Counts, side
  <2> HIDE DEF n
  <2>8. ASSUME plan.row.candidate # "none"
        PROVE  side = Side(plan.row.candidate) /\ n >= plan.row.count
    <3>1. n >= plan.row.count
      BY <1>3, <2>4, <2>5, <2>7, <2>8
    <3> QED BY <2>7, <2>8, <3>1 DEF side
  <2>9. n \in 0..Confirm
    BY <1>3, <2>4
  <2>10. run'.side = side /\ run'.n = n
    BY <2>1
  <2> QED BY <2>1, <2>2, <2>6, <2>8, <2>9, <2>10 DEF side
<1>9. plan.target = "none" => run' \in [side : {"none", "ok", "down", "overcharged"}, n : 0..Confirm]
  BY <1>7
<1> QED BY <1>7, <1>8, <1>9

LEMMA SaveBatteryStateInv ==
  ASSUME Inv, NEW others, NEW sameSecond, SaveBatteryState(others, sameSecond)
  PROVE  Inv'
<1> DEFINE kind == IF Tripped(others) THEN "none" ELSE plan.kind
<1> DEFINE row == Announced(others)
<1>1. /\ rule # Nothing /\ rule \in Rules /\ rule.row \in Rows /\ Sane(plan.row)
      /\ plan.row \in Rows
  BY SavedPlan
<1>2. /\ row \in Rows /\ row.level = plan.row.level /\ row.candidate = plan.row.candidate
      /\ row.count = plan.row.count /\ kind \in Messages
      /\ row.announced = IF kind \in Alerts THEN kind
                         ELSE IF row.level \in {"ok", "unknown"} THEN "none"
                         ELSE rule.row.announced
      /\ kind # "none" => kind = plan.kind
  BY AnnouncedRow
<1>3. /\ rule' = [rule EXCEPT !.row = row] /\ said' = kind
      /\ told' = (kind \in Alerts \/ (told /\ row.level \notin {"ok", "unknown"}))
      /\ lowTold' = (Down(row.level) /\ (lowTold \/ kind = "low"))
      /\ Done /\ watch' = watch /\ auto' = auto /\ reading' = reading /\ refused' = refused
  BY DEF SaveBatteryState
<1>4. kind \in Alerts => plan.row.level = kind
  BY <1>2, SavedPlan DEF Follows, Alerts
<1> HIDE DEF kind, row
<1>5. rule' \in Rules /\ rule'.row = row /\ rule' # Nothing
  <2>1. rule' \in Rules /\ rule'.row = row
    BY <1>1, <1>2, <1>3, RuleWithRow
  <2> QED BY <2>1, RuleIsSomething
<1>6. /\ run' \in [side : {"none", "ok", "down", "overcharged"}, n : 0..Confirm]
      /\ row.candidate # "none" => run'.side = Side(row.candidate) /\ run'.n >= row.count
  BY <1>2, RunCounts
<1>7. AnnouncedMeansTold'
  <2>1. rule.row.announced # "none" <=> told
    BY <1>1 DEF Inv, IInv, AnnouncedMeansTold
  <2>2. row.announced # "none" <=> told'
    BY <1>2, <1>3, <2>1 DEF Alerts
  <2> QED BY <1>5, <2>2 DEF AnnouncedMeansTold
<1>8. Sane(row)
  BY <1>1, <1>2, <1>4 DEF Sane, Alerts
<1>9. RunAgrees'
  BY <1>5, <1>6 DEF RunAgrees
<1>10. LowAgrees'
  BY <1>3, <1>5 DEF LowAgrees
<1>11. RefusedAgrees'
  BY <1>3 DEF Inv, IInv, RefusedAgrees
<1>12. TypeOK'
  <2>1. told' \in BOOLEAN /\ lowTold' \in BOOLEAN
    BY <1>3
  <2>2. {intact', new', told', lowTold', refused'} \subseteq BOOLEAN
    BY <1>3, <2>1 DEF Inv, TypeOK, Done
  <2> QED BY <1>2, <1>3, <1>5, <1>6, <2>2 DEF Inv, TypeOK, Done, Phases
<1> QED BY <1>3, <1>5, <1>7, <1>8, <1>9, <1>10, <1>11, <1>12, DoneAgrees DEF Inv, IInv, RowsAgree

LEMMA NextInv ==
  ASSUME Inv, Next
  PROVE  Inv'
<1>1. ASSUME FetchFails \/ Crash \/ \E sameSecond \in BOOLEAN : Overtaken(sameSecond) PROVE Inv'
  BY <1>1, EndedInv DEF FetchFails, Crash, Overtaken
<1>2. ASSUME Save PROVE Inv'
  BY <1>1, <1>2, InsertAutoBatteryRuleInv, SaveBatteryStateInv DEF Save
<1>3. ASSUME Answer PROVE Inv'
  BY <1>3, FetchForAdditionInv, FetchForRuleInv DEF Answer
<1>4. ASSUME Continue PROVE Inv'
  BY <1>1, <1>2, <1>3, <1>4, ReadsInv DEF Continue
<1> QED BY <1>1, <1>4, EditInv, NewReadingInv, ReadsInv DEF Next

LEMMA StepInv ==
  ASSUME Inv, [Next]_vars
  PROVE  Inv'
<1>1. ASSUME UNCHANGED vars PROVE Inv'
  <2>1. UNCHANGED <<world, history>> /\ UNCHANGED <<memory, said, held>>
    BY <1>1 DEF vars
  <2>2. /\ said' = said /\ phase' = phase /\ seen' = seen /\ old' = old /\ plan' = plan
        /\ intact' = intact /\ new' = new
    BY <2>1 DEF memory, held
  <2>3. PlanAgrees' /\ (old' # Nothing => Sane(old'.row))
    BY <2>2, MemoryHeld DEF memory
  <2> QED BY <2>1, <2>2, <2>3, NothingSavedInv DEF Inv, TypeOK
<1> QED BY <1>1, NextInv

(***************************************************************************)
(* The types, the inductive invariant and what it states of announcements  *)
(* hold of every run.                                                      *)
(***************************************************************************)
THEOREM TypeCorrect == Spec => []TypeOK
<1>1. Inv => TypeOK
  BY DEF Inv
<1> QED BY <1>1, InitInv, StepInv, PTL DEF Spec

(***************************************************************************)
(* What a check holds in memory follows from the row it was judged by, and *)
(* what a row counts is what was read and said of it.                      *)
(***************************************************************************)
THEOREM Inductive == Spec => []IInv
<1>1. Inv => IInv
  BY DEF Inv
<1> QED BY <1>1, InitInv, StepInv, PTL DEF Spec

(***************************************************************************)
(* A battery rule says an alert is outstanding exactly while its owner has *)
(* been sent one (SaveBatteryStateTx of store/battery.go).                 *)
(***************************************************************************)
THEOREM AnnouncedMeansToldHolds == Spec => []AnnouncedMeansTold
<1>1. Inv => AnnouncedMeansTold
  BY DEF Inv, IInv
<1> QED BY <1>1, InitInv, StepInv, PTL DEF Spec

-------------------------------------------------------------------------------
(***************************************************************************)
(* What a step may say: only the save of a judged state speaks of alerts.  *)
(***************************************************************************)
LEMMA OnlySavesSay ==
  ASSUME Inv, [Next]_vars, Says(Alerts \union {"recovered"})
  PROVE  \E others \in 0..MaxNewAlertsPerPoll, sameSecond \in BOOLEAN :
            SaveBatteryState(others, sameSecond)
<1>1. said' # said /\ said' \in Alerts \union {"recovered"}
  BY DEF Says
<1>2. UNCHANGED vars => said' = said
  BY DEF vars
<1>3. Edit => said' = said
  BY DEF Edit, CreateWatch, DeleteWatch, SetPrefs, SetAutoBattery, AddBatteryRule,
         DeleteBatteryRule, UpdateBatteryLevels
<1>4. ASSUME NEW mv \in Voltages, NewReading(mv) PROVE said' = said
  BY <1>4 DEF NewReading
<1>5. ReadWatches => said' = "none"
  BY DEF ReadWatches
<1>6. ReadRules \/ ReadUsers \/ FetchFails \/ Crash => said' = said
  BY DEF ReadRules, ReadUsers, FetchFails, Crash
<1>7. Answer => said' = said
  BY DEF Answer, FetchForAddition, FetchForRule, Plan
<1>8. ASSUME NEW sameSecond \in BOOLEAN, Overtaken(sameSecond) PROVE said' = said
  BY <1>8 DEF Overtaken
<1>9. InsertAutoBatteryRule => said' = said \/ said' \in {"none", "enabled"}
  BY AdditionPlan DEF InsertAutoBatteryRule
<1>10. Save => \/ said' = said \/ said' \in {"none", "enabled"}
               \/ \E others \in 0..MaxNewAlertsPerPoll, sameSecond \in BOOLEAN :
                     SaveBatteryState(others, sameSecond)
  BY <1>8, <1>9 DEF Save
<1>11. said' \notin {"none", "enabled"}
  BY <1>1 DEF Alerts
<1>12. ASSUME Next
       PROVE  Save \/ said' = said \/ said' = "none"
  BY <1>3, <1>4, <1>5, <1>6, <1>7, <1>12 DEF Next, Continue
<1> QED BY <1>1, <1>2, <1>10, <1>11, <1>12

LEMMA SaidByASave ==
  ASSUME Inv, NEW others, NEW sameSecond, SaveBatteryState(others, sameSecond),
         said' \in Alerts \union {"recovered"}
  PROVE  said' = plan.kind /\ rule # Nothing /\ Follows(plan, rule.row)
<1> DEFINE kind == IF Tripped(others) THEN "none" ELSE plan.kind
<1>1. kind # "none" => kind = plan.kind
  OBVIOUS
<1>2. said' = kind
  BY DEF SaveBatteryState
<1> HIDE DEF kind
<1>3. said' # "none"
  BY DEF Alerts
<1> QED BY <1>1, <1>2, <1>3, SavedPlan

(***************************************************************************)
(* A recovery is only sent where an alert is outstanding.                  *)
(***************************************************************************)
THEOREM RecoveryFollowsAlertHolds == Spec => RecoveryFollowsAlert
<1>1. ASSUME Inv, [Next]_vars, Says({"recovered"}) PROVE told
  <2>1. Says(Alerts \union {"recovered"}) /\ said' = "recovered"
    BY <1>1 DEF Says
  <2>2. PICK others \in 0..MaxNewAlertsPerPoll, sameSecond \in BOOLEAN :
           SaveBatteryState(others, sameSecond)
    BY <1>1, <2>1, OnlySavesSay
  <2>3. plan.kind = "recovered" /\ rule # Nothing /\ Follows(plan, rule.row)
    BY <1>1, <2>1, <2>2, SaidByASave
  <2>4. rule.row.announced # "none"
    BY <2>3 DEF Follows
  <2> QED BY <1>1, <2>3, <2>4 DEF Inv, IInv, AnnouncedMeansTold
<1>2. Inv /\ [Next]_vars => [Says({"recovered"}) => told]_vars
  BY <1>1
<1> QED BY <1>2, InitInv, StepInv, PTL DEF Spec, RecoveryFollowsAlert

(***************************************************************************)
(* Whatever is said, ConfirmReadings different readings in a row said so.  *)
(***************************************************************************)
THEOREM ReadingsConfirmHolds == Spec => ReadingsConfirm
<1>1. ASSUME Inv, [Next]_vars, Says(Alerts \union {"recovered"})
      PROVE  run' = [side |-> SaidSide(said'), n |-> Confirm]
  <2>1. said' \in Alerts \union {"recovered"}
    BY <1>1 DEF Says
  <2>2. PICK others \in 0..MaxNewAlertsPerPoll, sameSecond \in BOOLEAN :
           SaveBatteryState(others, sameSecond)
    BY <1>1, OnlySavesSay
  <2>3. said' = plan.kind /\ Follows(plan, rule.row)
    BY <1>1, <2>1, <2>2, SaidByASave
  <2>4. plan.target = (IF said' = "recovered" THEN "ok" ELSE said') /\ plan.target # "none"
    BY <2>1, <2>3 DEF Follows, Alerts
  <2>5. Confirms(rule.row, plan.target)
    BY <2>1, <2>3 DEF Follows, Alerts
  <2>6. run' = [side |-> Side(plan.target), n |-> Confirm]
    BY <1>1, <2>2, <2>4, <2>5, RunCounts
  <2>7. Side(plan.target) = SaidSide(said')
    BY <2>1, <2>4 DEF SaidSide, Side, Down, Alerts
  <2> QED BY <2>6, <2>7
<1>2. Inv /\ [Next]_vars =>
         [Says(Alerts \union {"recovered"}) => run' = [side |-> SaidSide(said'), n |-> Confirm]]_vars
  BY <1>1
<1> QED BY <1>2, InitInv, StepInv, PTL DEF Spec, ReadingsConfirm

(***************************************************************************)
(* Low is not said again before the battery has been something else.       *)
(***************************************************************************)
THEOREM LowIsSaidOnceHolds == Spec => LowIsSaidOnce
<1>1. ASSUME Inv, [Next]_vars, Says({"low"}) PROVE ~lowTold
  <2>1. Says(Alerts \union {"recovered"}) /\ said' = "low" /\ said' \in Alerts \union {"recovered"}
    BY <1>1 DEF Says, Alerts
  <2>2. PICK others \in 0..MaxNewAlertsPerPoll, sameSecond \in BOOLEAN :
           SaveBatteryState(others, sameSecond)
    BY <1>1, <2>1, OnlySavesSay
  <2>3. plan.kind = "low" /\ Follows(plan, rule.row)
    BY <1>1, <2>1, <2>2, SaidByASave
  <2>4. ~Down(rule.row.level)
    BY <2>3 DEF Follows
  <2> QED BY <1>1, <2>4 DEF Inv, IInv, LowAgrees
<1>2. Inv /\ [Next]_vars => [Says({"low"}) => ~lowTold]_vars
  BY <1>1
<1> QED BY <1>2, InitInv, StepInv, PTL DEF Spec, LowIsSaidOnce

(***************************************************************************)
(* A rule its owner does not want is not added by a check.                 *)
(***************************************************************************)
THEOREM NeverAddedBackHolds == Spec => NeverAddedBack
<1>1. ASSUME Inv, [Next]_vars, rule = Nothing, rule' # Nothing, phase' # phase PROVE ~refused
  <2>1. ~UNCHANGED vars
    BY <1>1 DEF vars, world
  <2>2. ~Edit
    BY <1>1 DEF Edit, CreateWatch, DeleteWatch, SetPrefs, SetAutoBattery, AddBatteryRule,
               DeleteBatteryRule, UpdateBatteryLevels, memory
  <2>3. ASSUME NEW mv \in Voltages PROVE ~NewReading(mv)
    BY <1>1 DEF NewReading
  <2>4. ~(ReadWatches \/ ReadRules \/ ReadUsers \/ FetchFails \/ Crash)
    BY <1>1 DEF ReadWatches, ReadRules, ReadUsers, FetchFails, Crash, world
  <2>5. ~Answer
    BY <1>1 DEF Answer, FetchForAddition, FetchForRule, Plan, world
  <2>6. ASSUME NEW sameSecond \in BOOLEAN PROVE ~Overtaken(sameSecond)
    BY <1>1 DEF Overtaken, world
  <2>7. ASSUME NEW others, NEW sameSecond PROVE ~SaveBatteryState(others, sameSecond)
    BY <1>1 DEF SaveBatteryState, Unchanged
  <2>8. InsertAutoBatteryRule
    BY <1>1, <2>1, <2>2, <2>3, <2>4, <2>5, <2>6, <2>7 DEF Next, Continue, Save
  <2>9. Insertable
    BY <1>1, <2>8 DEF InsertAutoBatteryRule
  <2> QED BY <1>1, <2>9 DEF Insertable, Inv, IInv, RefusedAgrees
<1>2. Inv /\ [Next]_vars =>
         [rule = Nothing /\ rule' # Nothing /\ phase' # phase => ~refused]_vars
  BY <1>1
<1> QED BY <1>2, InitInv, StepInv, PTL DEF Spec, NeverAddedBack

===============================================================================
