---------------------------- MODULE Poller_proofs ----------------------------
(***************************************************************************)
(* Poller for any number of watches and rules, any breaker and any         *)
(* ConfirmPolls: its types, its inductive invariant, and from it that the  *)
(* store stays whole, that row and message are one commit, that nothing is *)
(* said of what has been deleted, and that the breaker bounds what a poll  *)
(* announces.  With what an evaluation is about to write following from    *)
(* what the store has, every rule lives as if it were alone, and so keeps  *)
(* the promise of Announcements.                                           *)
(***************************************************************************)
EXTENDS Poller, FiniteSetTheorems, TLAPS

-------------------------------------------------------------------------------
(***************************************************************************)
(* What Evaluate returns, for every row, reading and preference.           *)
(***************************************************************************)
LEMMA AtRow ==
  ASSUME NEW r \in Rows, NEW s \in States, NEW c \in Nat
  PROVE  /\ At(r, s, c) \in Rows
         /\ At(r, s, c).state = s /\ At(r, s, c).consecutive = c
         /\ At(r, s, c).notifyCount = r.notifyCount /\ At(r, s, c).seeded = r.seeded
  BY DEF At, Rows

LEMMA DownRow ==
  ASSUME NEW r \in Rows
  PROVE  /\ Down(r) \in Rows
         /\ Down(r).state = "alerting" /\ Down(r).consecutive = 0
         /\ Down(r).notifyCount = r.notifyCount /\ Down(r).seeded = FALSE
  BY DEF Down, Rows, States

LEMMA CountedRow ==
  ASSUME NEW r \in Rows
  PROVE  /\ Counted(r) \in Rows
         /\ Counted(r).state = r.state /\ Counted(r).consecutive = r.consecutive
         /\ Counted(r).notifyCount = r.notifyCount + 1 /\ Counted(r).seeded = r.seeded
  BY DEF Counted, Rows, States

LEMMA AdoptedRow ==
  ASSUME NEW r \in Rows
  PROVE  /\ Adopted(r) \in Rows
         /\ Adopted(r).state = "alerting" /\ Adopted(r).consecutive = 0
         /\ Adopted(r).notifyCount = 0 /\ Adopted(r).seeded = TRUE
  BY DEF Adopted, Rows, States

LEMMA UpRow ==
  ASSUME NEW r \in Rows
  PROVE  /\ Up(r) \in Rows
         /\ Up(r).state = "ok" /\ Up(r).consecutive = 0
         /\ Up(r).notifyCount = 0 /\ Up(r).seeded = FALSE
  BY DEF Up, Rows, States

(***************************************************************************)
(* An outcome that says something is a transition, one that alerts counts  *)
(* for the breaker, and a row that is counted was counted by the alert it  *)
(* comes with, or was before.                                              *)
(***************************************************************************)
Sound(out, r) ==
    /\ out \in Outcomes
    /\ out.kind # "none" => out.changed
    /\ out.kind = "alert" => out.entering
    /\ out.row.notifyCount > 0 =>
          out.kind = "alert" \/ (out.kind = "none" /\ r.notifyCount > 0)

LEMMA OutcomeIsSound ==
  ASSUME NEW r \in Rows, NEW x \in Rows,
         NEW changed \in BOOLEAN, NEW entering \in BOOLEAN, NEW kind \in Kinds,
         kind # "none" => changed,
         kind = "alert" => entering,
         x.notifyCount > 0 => kind = "alert" \/ (kind = "none" /\ r.notifyCount > 0)
  PROVE  Sound(Outcome(x, changed, entering, kind), r)
<1> DEFINE out == Outcome(x, changed, entering, kind)
<1>1. out.row = x /\ out.changed = changed /\ out.entering = entering /\ out.kind = kind
  BY DEF Outcome
<1>2. out \in Outcomes
  BY DEF Outcome, Outcomes
<1> QED BY <1>1, <1>2 DEF Sound

LEMMA SilentIsSound ==
  ASSUME NEW r \in Rows, NEW x \in Rows, x.notifyCount > 0 => r.notifyCount > 0
  PROVE  Sound(Quiet(x), r) /\ Sound(Silently(x), r)
<1>1. "none" \in Kinds
  BY DEF Kinds
<1>2. Sound(Outcome(x, FALSE, FALSE, "none"), r)
  BY <1>1, OutcomeIsSound
<1>3. Sound(Outcome(x, TRUE, FALSE, "none"), r)
  BY <1>1, OutcomeIsSound
<1> QED BY <1>2, <1>3 DEF Quiet, Silently

LEMMA PromoteIsSound ==
  ASSUME NEW r \in Rows, NEW x \in Rows, NEW p \in Prefs,
         x.notifyCount > 0 => r.notifyCount > 0
  PROVE  Sound(Promote(x, p), r)
<1>1. Down(x) \in Rows /\ Down(x).notifyCount = x.notifyCount
  BY DownRow
<1>2. Counted(Down(x)) \in Rows
  BY <1>1, CountedRow
<1>3. "none" \in Kinds /\ "alert" \in Kinds
  BY DEF Kinds
<1>4. Sound(Outcome(Down(x), TRUE, TRUE, "none"), r)
  BY <1>1, <1>3, OutcomeIsSound
<1>5. Sound(Outcome(Counted(Down(x)), TRUE, TRUE, "alert"), r)
  BY <1>2, <1>3, OutcomeIsSound
<1> QED BY <1>4, <1>5 DEF Promote

LEMMA RecoverIsSound ==
  ASSUME NEW r \in Rows, NEW x \in Rows, NEW p \in Prefs
  PROVE  Sound(Recover(x, p), r)
<1>a. Up(x) \in Rows /\ Up(x).notifyCount = 0
  BY UpRow
<1>1. Up(x) \in Rows /\ ~(Up(x).notifyCount > 0)
  BY <1>a
<1>2. "recovered" \in Kinds
  BY DEF Kinds
<1>3. Sound(Silently(Up(x)), r)
  BY <1>1, SilentIsSound
<1>4. Sound(Outcome(Up(x), TRUE, FALSE, "recovered"), r)
  BY <1>1, <1>2, OutcomeIsSound
<1> QED BY <1>3, <1>4 DEF Recover

LEMMA EvaluateIsSound ==
  ASSUME NEW reading \in Readings, NEW r \in Rows, NEW p \in Prefs
  PROVE  Sound(Evaluate(reading, r, p), r)
<1> DEFINE Same == {x \in Rows : x.notifyCount > 0 => r.notifyCount > 0}
<1>1. \A x \in Same : Sound(Quiet(x), r) /\ Sound(Silently(x), r)
  BY SilentIsSound
<1>2. \A x \in Same : Sound(Promote(x, p), r) /\ Sound(Recover(x, p), r)
  BY PromoteIsSound, RecoverIsSound
<1>3. \A s \in States, c \in Nat : At(r, s, c) \in Same
  BY AtRow
<1>4. r \in Same /\ Adopted(r) \in Same
  <2>a. Adopted(r) \in Rows /\ Adopted(r).notifyCount = 0
    BY AdoptedRow
  <2>1. Adopted(r) \in Rows /\ ~(Adopted(r).notifyCount > 0)
    BY <2>a
  <2> QED BY <2>1
<1>5. r.consecutive + 1 \in Nat
  BY DEF Rows
<1> HIDE DEF Same
<1>6. Sound(FromAbsent(r), r)
  BY <1>1, <1>3, <1>4 DEF FromAbsent, States
<1>7. Sound(FromUnknown(r, reading), r)
  BY <1>1, <1>3, <1>4 DEF FromUnknown, States
<1>8. Sound(FromOk(r, reading, p), r)
  BY <1>1, <1>2, <1>3 DEF FromOk, States
<1>9. Sound(FromPending(r, reading, p), r)
  BY <1>1, <1>2, <1>3, <1>5 DEF FromPending, States
<1>10. Sound(FromAlerting(r, reading, p), r)
  BY <1>1, <1>2, <1>3 DEF FromAlerting, States
<1>11. Sound(FromRecovering(r, reading, p), r)
  BY <1>1, <1>2, <1>3, <1>5 DEF FromRecovering, States
<1> QED BY <1>6, <1>7, <1>8, <1>9, <1>10, <1>11 DEF Evaluate

-------------------------------------------------------------------------------

(***************************************************************************)
(* Tables, and the row a rule starts with.                                 *)
(***************************************************************************)
LEMMA UpsertedTable ==
  ASSUME NEW new, NEW table
  PROVE  /\ DOMAIN Upserted(new, table) = DOMAIN new \union DOMAIN table
         /\ \A k \in DOMAIN new : Upserted(new, table)[k] = new[k]
         /\ \A k \in DOMAIN table : k \notin DOMAIN new => Upserted(new, table)[k] = table[k]
  BY DEF Upserted

LEMMA WithoutTable ==
  ASSUME NEW table, NEW gone
  PROVE  /\ DOMAIN Without(table, gone) = DOMAIN table \ gone
         /\ \A k \in DOMAIN table \ gone : Without(table, gone)[k] = table[k]
  BY DEF Without

LEMMA EmptyTable == DOMAIN Nothing = {}
  BY DEF Nothing

LEMMA SeedRowIsARow ==
  ASSUME NEW reading \in Readings
  PROVE  SeedRow(reading) \in Rows /\ SeedRow(reading).notifyCount = 0
  BY DEF SeedRow, Readings, Rows, States

LEMMA UnknownRowIsARow == UnknownRow \in Rows /\ UnknownRow.notifyCount = 0
  BY DEF UnknownRow, Rows, States

LEMMA KeyIsAPair == ASSUME NEW k \in RowKeys PROVE k = <<k[1], k[2]>> /\ k[1] \in WatchIds /\ k[2] \in RuleIds
  BY DEF RowKeys

Inv == TypeOK /\ IInv

LEMMA InitInv == Init => Inv
<1> SUFFICES ASSUME Init
             PROVE  Inv
  OBVIOUS
<1>1. /\ DOMAIN watches = {} /\ DOMAIN ruleOf = {} /\ DOMAIN rows = {} /\ DOMAIN seen = {}
      /\ DOMAIN held = {} /\ DOMAIN plan = {} /\ DOMAIN told = {}
      /\ queued = {} /\ inherited = {} /\ phase = "idle"
  BY EmptyTable DEF Init
<1>2. TypeOK
  BY <1>1 DEF TypeOK, Phases
<1>3. StoreIsWhole /\ CountedMeansTold
  BY <1>1 DEF StoreIsWhole, CountedMeansTold
<1>4. HeldAgrees /\ PlanAgrees /\ PlanIsOutcomes
  BY <1>1 DEF HeldAgrees, PlanAgrees, PlanIsOutcomes
<1> QED BY <1>2, <1>3, <1>4 DEF Inv, IInv

-------------------------------------------------------------------------------
(***************************************************************************)
(* New rules: whatever the evaluation in progress remembers under their    *)
(* ids, they are marked as having inherited it.                            *)
(***************************************************************************)
LEMMA InsertEffect ==
  ASSUME NEW w \in WatchIds, NEW n \in Nat, NEW seeds \in Seeds(n), InsertRules(w, seeds)
  PROVE  LET new == DOMAIN seeds
         IN  /\ new \subseteq RuleIds
             /\ DOMAIN ruleOf' = new \union DOMAIN ruleOf
             /\ \A r \in new : ruleOf'[r] = w
             /\ \A r \in DOMAIN ruleOf : r \notin new => ruleOf'[r] = ruleOf[r]
             /\ DOMAIN rows' = ({w} \X new) \union DOMAIN rows
             /\ \A r \in new : rows'[<<w, r>>] \in Rows /\ rows'[<<w, r>>].notifyCount = 0
             /\ \A k \in DOMAIN rows : k \notin {w} \X new => rows'[k] = rows[k]
             /\ DOMAIN told' = new \union DOMAIN told
             /\ \A r \in new : told'[r] = "none"
             /\ \A r \in DOMAIN told : r \notin new => told'[r] = told[r]
             /\ inherited' = (inherited \ new) \union {r \in new : Remembered(w, r)}
<1> DEFINE new == DOMAIN seeds
<1> DEFINE newRule == [r \in new |-> w]
<1> DEFINE newRows == [k \in {w} \X new |-> SeedRow(seeds[k[2]])]
<1> DEFINE newTold == [r \in new |-> "none"]
<1>1. /\ new \subseteq RuleIds
      /\ ruleOf' = Upserted(newRule, ruleOf)
      /\ rows' = Upserted(newRows, rows)
      /\ told' = Upserted(newTold, told)
      /\ inherited' = (inherited \ new) \union {r \in new : Remembered(w, r)}
  BY DEF InsertRules
<1>2. /\ DOMAIN ruleOf' = new \union DOMAIN ruleOf
      /\ \A r \in new : ruleOf'[r] = w
      /\ \A r \in DOMAIN ruleOf : r \notin new => ruleOf'[r] = ruleOf[r]
  BY <1>1 DEF Upserted
<1>3. /\ DOMAIN told' = new \union DOMAIN told
      /\ \A r \in new : told'[r] = "none"
      /\ \A r \in DOMAIN told : r \notin new => told'[r] = told[r]
  BY <1>1 DEF Upserted
<1>4. /\ DOMAIN rows' = ({w} \X new) \union DOMAIN rows
      /\ \A k \in {w} \X new : rows'[k] = SeedRow(seeds[k[2]])
      /\ \A k \in DOMAIN rows : k \notin {w} \X new => rows'[k] = rows[k]
  BY <1>1 DEF Upserted
<1>5. \A r \in new : rows'[<<w, r>>] \in Rows /\ rows'[<<w, r>>].notifyCount = 0
  <2> SUFFICES ASSUME NEW r \in new
               PROVE  rows'[<<w, r>>] \in Rows /\ rows'[<<w, r>>].notifyCount = 0
    OBVIOUS
  <2>1. seeds[r] \in Readings
    BY DEF Seeds
  <2>2. rows'[<<w, r>>] = SeedRow(seeds[r])
    BY <1>4
  <2> QED BY <2>1, <2>2, SeedRowIsARow
<1> QED BY <1>1, <1>2, <1>3, <1>4, <1>5

LEMMA InsertKeeps ==
  ASSUME Inv, NEW w \in WatchIds, NEW n \in Nat, NEW seeds \in Seeds(n), InsertRules(w, seeds),
         w \in DOMAIN watches', DOMAIN watches \subseteq DOMAIN watches',
         DOMAIN watches' \subseteq WatchIds, \A x \in DOMAIN watches' : watches'[x] \in Prefs,
         UNCHANGED <<memory, queued>>
  PROVE  Inv'
<1> DEFINE new == DOMAIN seeds
<1>1. /\ new \subseteq RuleIds
      /\ DOMAIN ruleOf' = new \union DOMAIN ruleOf
      /\ \A r \in new : ruleOf'[r] = w
      /\ \A r \in DOMAIN ruleOf : r \notin new => ruleOf'[r] = ruleOf[r]
      /\ DOMAIN rows' = ({w} \X new) \union DOMAIN rows
      /\ \A r \in new : rows'[<<w, r>>] \in Rows /\ rows'[<<w, r>>].notifyCount = 0
      /\ \A k \in DOMAIN rows : k \notin {w} \X new => rows'[k] = rows[k]
      /\ DOMAIN told' = new \union DOMAIN told
      /\ \A r \in new : told'[r] = "none"
      /\ \A r \in DOMAIN told : r \notin new => told'[r] = told[r]
      /\ inherited' = (inherited \ new) \union {r \in new : Remembered(w, r)}
  BY InsertEffect
<1> HIDE DEF new
<1>2. /\ phase' = phase /\ seen' = seen /\ held' = held /\ plan' = plan /\ queued' = queued
  BY DEF memory
<1>3. TypeOK'
  <2>1. DOMAIN ruleOf' \subseteq RuleIds /\ \A r \in DOMAIN ruleOf' : ruleOf'[r] \in WatchIds
    BY <1>1 DEF Inv, TypeOK
  <2>2. DOMAIN rows' \subseteq RowKeys
    BY <1>1 DEF Inv, TypeOK, RowKeys
  <2>3. \A k \in DOMAIN rows' : rows'[k] \in Rows
    BY <1>1 DEF Inv, TypeOK
  <2>4. DOMAIN told' = DOMAIN ruleOf' /\ \A r \in DOMAIN told' : told'[r] \in Kinds
    BY <1>1 DEF Inv, TypeOK, Kinds
  <2>5. inherited' \subseteq DOMAIN ruleOf'
    BY <1>1 DEF Inv, TypeOK
  <2> QED BY <1>2, <2>1, <2>2, <2>3, <2>4, <2>5 DEF Inv, TypeOK
<1>4. StoreIsWhole'
  <2>1. \A r \in DOMAIN ruleOf' : ruleOf'[r] \in DOMAIN watches'
    BY <1>1 DEF Inv, IInv, StoreIsWhole
  <2>2. \A r \in DOMAIN ruleOf' : <<ruleOf'[r], r>> \in DOMAIN rows'
    BY <1>1 DEF Inv, IInv, StoreIsWhole
  <2>3. \A k \in DOMAIN rows' : k[1] \in DOMAIN watches' /\ k[2] \in DOMAIN ruleOf'
    BY <1>1 DEF Inv, IInv, StoreIsWhole
  <2> QED BY <2>1, <2>2, <2>3 DEF StoreIsWhole
<1>5. CountedMeansTold'
  <2> SUFFICES ASSUME NEW r \in DOMAIN ruleOf', r \notin inherited',
                      rows'[<<ruleOf'[r], r>>].notifyCount > 0
               PROVE  told'[r] = "alert"
    BY DEF CountedMeansTold
  <2>1. r \notin new
    <3> SUFFICES ASSUME r \in new
                 PROVE  FALSE
      OBVIOUS
    <3>1. rows'[<<ruleOf'[r], r>>].notifyCount = 0
      BY <1>1
    <3> QED BY <3>1
  <2>2. r \in DOMAIN ruleOf \ inherited /\ ruleOf'[r] = ruleOf[r]
    BY <1>1, <2>1
  <2>3. <<ruleOf[r], r>> \in DOMAIN rows /\ <<ruleOf[r], r>> \notin {w} \X new
    BY <2>1, <2>2 DEF Inv, IInv, StoreIsWhole
  <2>4. rows'[<<ruleOf'[r], r>>] = rows[<<ruleOf[r], r>>]
    BY <1>1, <2>2, <2>3
  <2>5. told[r] = "alert"
    BY <2>2, <2>4 DEF Inv, IInv, CountedMeansTold
  <2> QED BY <1>1, <2>1, <2>2, <2>5 DEF Inv, TypeOK
<1>6. HeldAgrees'
  <2> SUFFICES ASSUME NEW k \in DOMAIN held, k[2] \in DOMAIN ruleOf', k[2] \notin inherited',
                      ruleOf'[k[2]] = k[1]
               PROVE  held[k] = rows'[k]
    BY <1>2 DEF HeldAgrees
  <2>1. k = <<k[1], k[2]>>
    BY KeyIsAPair DEF Inv, TypeOK
  <2>2. k[2] \notin new
    <3> SUFFICES ASSUME k[2] \in new
                 PROVE  FALSE
      OBVIOUS
    <3>1. ruleOf'[k[2]] = w
      BY <1>1
    <3>2. Remembered(w, k[2])
      BY <2>1, <3>1 DEF Remembered
    <3> QED BY <1>1, <3>2
  <2>3. k[2] \in DOMAIN ruleOf \ inherited /\ ruleOf[k[2]] = k[1]
    BY <1>1, <2>2
  <2>4. held[k] = rows[k]
    BY <2>3 DEF Inv, IInv, HeldAgrees
  <2>5. k \in DOMAIN rows
    BY <2>1, <2>3 DEF Inv, IInv, StoreIsWhole
  <2>6. k \notin {w} \X new
    BY <2>2
  <2> QED BY <1>1, <2>4, <2>5, <2>6
<1>7. PlanAgrees'
  <2> SUFFICES ASSUME NEW r \in DOMAIN plan, r \in DOMAIN ruleOf', r \notin inherited'
               PROVE  /\ plan[r].live /\ plan[r].watch = ruleOf'[r]
                      /\ plan[r].out.row.notifyCount > 0 =>
                            \/ plan[r].out.kind = "alert"
                            \/ plan[r].out.kind = "none" /\ told'[r] = "alert"
    BY <1>2 DEF PlanAgrees
  <2>1. r \notin new
    BY <1>1 DEF Remembered
  <2>2. r \in DOMAIN ruleOf \ inherited /\ ruleOf'[r] = ruleOf[r] /\ told'[r] = told[r]
    BY <1>1, <2>1 DEF Inv, TypeOK
  <2> QED BY <2>2 DEF Inv, IInv, PlanAgrees
<1>8. PlanIsOutcomes'
  BY <1>2 DEF Inv, IInv, PlanIsOutcomes
<1> QED BY <1>3, <1>4, <1>5, <1>6, <1>7, <1>8 DEF Inv, IInv

LEMMA CreateWatchKeeps ==
  ASSUME Inv, NEW prefs \in PrefChoices, NEW n \in RuleIds, NEW seeds \in Seeds(n),
         CreateWatch(prefs, seeds)
  PROVE  Inv'
<1> DEFINE w == NextId(DOMAIN watches)
<1>1. /\ w \in WatchIds
      /\ watches' = Upserted([x \in {w} |-> prefs], watches)
      /\ InsertRules(w, seeds)
      /\ UNCHANGED <<memory, queued>>
  BY DEF CreateWatch
<1> HIDE DEF w
<1>2. prefs \in Prefs /\ n \in Nat
  BY PollerAssumption DEF RuleIds
<1>3. /\ w \in DOMAIN watches' /\ DOMAIN watches \subseteq DOMAIN watches'
      /\ DOMAIN watches' \subseteq WatchIds /\ \A x \in DOMAIN watches' : watches'[x] \in Prefs
  BY <1>1, <1>2 DEF Upserted, Inv, TypeOK
<1> QED BY <1>1, <1>2, <1>3, InsertKeeps

LEMMA AddRuleKeeps ==
  ASSUME Inv, NEW w \in DOMAIN watches, NEW seeds \in Seeds(1), AddRule(w, seeds)
  PROVE  Inv'
<1>1. InsertRules(w, seeds) /\ watches' = watches /\ UNCHANGED <<memory, queued>>
  BY DEF AddRule
<1>2. /\ DOMAIN watches \subseteq WatchIds /\ \A x \in DOMAIN watches : watches[x] \in Prefs
      /\ w \in WatchIds
  BY DEF Inv, TypeOK
<1>3. w \in DOMAIN watches' /\ DOMAIN watches \subseteq DOMAIN watches'
  BY <1>1
<1>4. DOMAIN watches' \subseteq WatchIds /\ \A x \in DOMAIN watches' : watches'[x] \in Prefs
  BY <1>1, <1>2
<1> QED BY <1>1, <1>2, <1>3, <1>4, InsertKeeps

(***************************************************************************)
(* Deletions: what remains is untouched, and has its watch.                *)
(***************************************************************************)
LEMMA CascadeKeeps ==
  ASSUME Inv, NEW gone, Cascade(gone),
         DOMAIN watches' \subseteq DOMAIN watches, \A x \in DOMAIN watches' : watches'[x] \in Prefs,
         \A r \in DOMAIN ruleOf \ gone : ruleOf[r] \in DOMAIN watches'
  PROVE  Inv'
<1>1. DOMAIN ruleOf' = DOMAIN ruleOf \ gone /\ \A r \in DOMAIN ruleOf' : ruleOf'[r] = ruleOf[r]
  BY DEF Cascade, Without
<1>2. /\ DOMAIN rows' = {k \in DOMAIN rows : ~(k[2] \in gone \/ k[1] \notin DOMAIN watches')}
      /\ \A k \in DOMAIN rows' : rows'[k] = rows[k]
  BY DEF Cascade, Without
<1>3. DOMAIN told' = DOMAIN told \ gone /\ \A r \in DOMAIN told' : told'[r] = told[r]
  BY DEF Cascade, Without
<1>4. /\ inherited' = inherited \ gone
      /\ phase' = phase /\ seen' = seen /\ held' = held /\ queued' = queued
  BY DEF Cascade
<1>5. DOMAIN plan' = DOMAIN plan
  BY DEF Cascade
<1>6. \A r \in DOMAIN plan' :
         /\ plan'[r] \in Planned
         /\ plan'[r].watch = plan[r].watch /\ plan'[r].out = plan[r].out
         /\ plan'[r].live = (plan[r].live /\ r \notin gone)
  <2> SUFFICES ASSUME NEW r \in DOMAIN plan
               PROVE  /\ plan'[r] \in Planned
                      /\ plan'[r].watch = plan[r].watch /\ plan'[r].out = plan[r].out
                      /\ plan'[r].live = (plan[r].live /\ r \notin gone)
    BY <1>5
  <2>1. plan'[r] = [plan[r] EXCEPT !.live = @ /\ r \notin gone]
    BY DEF Cascade
  <2>2. plan[r] \in Planned
    BY DEF Inv, TypeOK
  <2> QED BY <2>1, <2>2 DEF Planned
<1>7. TypeOK'
  <2>1. DOMAIN watches' \subseteq WatchIds /\ DOMAIN ruleOf' \subseteq RuleIds
        /\ \A r \in DOMAIN ruleOf' : ruleOf'[r] \in WatchIds
    BY <1>1 DEF Inv, TypeOK
  <2>2. DOMAIN rows' \subseteq RowKeys /\ \A k \in DOMAIN rows' : rows'[k] \in Rows
    BY <1>2 DEF Inv, TypeOK
  <2>3. DOMAIN told' = DOMAIN ruleOf' /\ \A r \in DOMAIN told' : told'[r] \in Kinds
    BY <1>1, <1>3 DEF Inv, TypeOK
  <2>4. inherited' \subseteq DOMAIN ruleOf'
    BY <1>1, <1>4 DEF Inv, TypeOK
  <2>5. DOMAIN plan' \subseteq RuleIds /\ \A r \in DOMAIN plan' : plan'[r] \in Planned
    BY <1>5, <1>6 DEF Inv, TypeOK
  <2> QED BY <1>4, <2>1, <2>2, <2>3, <2>4, <2>5 DEF Inv, TypeOK
<1>8. StoreIsWhole'
  <2>1. \A r \in DOMAIN ruleOf' : ruleOf'[r] \in DOMAIN watches'
    BY <1>1
  <2>2. \A r \in DOMAIN ruleOf' : <<ruleOf'[r], r>> \in DOMAIN rows'
    BY <1>1, <1>2 DEF Inv, IInv, StoreIsWhole
  <2>3. \A k \in DOMAIN rows' : k[1] \in DOMAIN watches' /\ k[2] \in DOMAIN ruleOf'
    BY <1>1, <1>2 DEF Inv, IInv, StoreIsWhole
  <2> QED BY <2>1, <2>2, <2>3 DEF StoreIsWhole
<1>9. CountedMeansTold'
  <2> SUFFICES ASSUME NEW r \in DOMAIN ruleOf', r \notin inherited',
                      rows'[<<ruleOf'[r], r>>].notifyCount > 0
               PROVE  told'[r] = "alert"
    BY DEF CountedMeansTold
  <2>1. r \in DOMAIN ruleOf \ inherited /\ ruleOf'[r] = ruleOf[r] /\ r \in DOMAIN told'
    BY <1>1, <1>3, <1>4 DEF Inv, TypeOK
  <2>2. rows'[<<ruleOf'[r], r>>] = rows[<<ruleOf[r], r>>]
    BY <1>2, <1>8, <2>1 DEF StoreIsWhole
  <2> QED BY <1>3, <2>1, <2>2 DEF Inv, IInv, CountedMeansTold
<1>10. HeldAgrees'
  <2> SUFFICES ASSUME NEW k \in DOMAIN held, k[2] \in DOMAIN ruleOf', k[2] \notin inherited',
                      ruleOf'[k[2]] = k[1]
               PROVE  held[k] = rows'[k]
    BY <1>4 DEF HeldAgrees
  <2>1. k = <<k[1], k[2]>>
    BY KeyIsAPair DEF Inv, TypeOK
  <2>2. k[2] \in DOMAIN ruleOf \ inherited /\ ruleOf[k[2]] = k[1]
    BY <1>1, <1>4
  <2>3. k \in DOMAIN rows'
    BY <1>8, <2>1 DEF StoreIsWhole
  <2> QED BY <1>2, <2>2, <2>3 DEF Inv, IInv, HeldAgrees
<1>11. PlanAgrees'
  <2> SUFFICES ASSUME NEW r \in DOMAIN plan', r \in DOMAIN ruleOf', r \notin inherited'
               PROVE  /\ plan'[r].live /\ plan'[r].watch = ruleOf'[r]
                      /\ plan'[r].out.row.notifyCount > 0 =>
                            \/ plan'[r].out.kind = "alert"
                            \/ plan'[r].out.kind = "none" /\ told'[r] = "alert"
    BY DEF PlanAgrees
  <2>1. /\ r \in DOMAIN plan /\ r \in DOMAIN ruleOf /\ r \notin inherited /\ r \notin gone
        /\ ruleOf'[r] = ruleOf[r] /\ told'[r] = told[r]
    BY <1>1, <1>3, <1>4, <1>5 DEF Inv, TypeOK
  <2>2. /\ plan'[r].watch = plan[r].watch /\ plan'[r].out = plan[r].out
        /\ plan'[r].live = plan[r].live
    BY <1>6, <2>1 DEF Inv, TypeOK, Planned
  <2> QED BY <2>1, <2>2 DEF Inv, IInv, PlanAgrees
<1>12. PlanIsOutcomes'
  BY <1>5, <1>6 DEF Inv, IInv, PlanIsOutcomes
<1> QED BY <1>7, <1>8, <1>9, <1>10, <1>11, <1>12 DEF Inv, IInv

LEMMA DeleteRuleKeeps ==
  ASSUME Inv, NEW r \in DOMAIN ruleOf, DeleteRule(r)
  PROVE  Inv'
<1>1. watches' = watches /\ Cascade({r})
  BY DEF DeleteRule
<1>2. \A x \in DOMAIN ruleOf : ruleOf[x] \in DOMAIN watches
  BY DEF Inv, IInv, StoreIsWhole
<1>3. \A x \in DOMAIN watches' : watches'[x] \in Prefs
  BY <1>1 DEF Inv, TypeOK
<1> QED BY <1>1, <1>2, <1>3, CascadeKeeps

LEMMA DeleteWatchKeeps ==
  ASSUME Inv, NEW w \in DOMAIN watches, DeleteWatch(w)
  PROVE  Inv'
<1>1. watches' = Without(watches, {w}) /\ Cascade(RulesOf(w))
  BY DEF DeleteWatch
<1>2. DOMAIN watches' = DOMAIN watches \ {w} /\ \A x \in DOMAIN watches' : watches'[x] \in Prefs
  BY <1>1 DEF Without, Inv, TypeOK
<1>3. \A r \in DOMAIN ruleOf \ RulesOf(w) : ruleOf[r] \in DOMAIN watches'
  BY <1>2 DEF RulesOf, Inv, IInv, StoreIsWhole
<1> QED BY <1>1, <1>2, <1>3, CascadeKeeps

LEMMA SetPrefsKeeps ==
  ASSUME Inv, NEW w \in DOMAIN watches, NEW prefs \in PrefChoices, SetPrefs(w, prefs)
  PROVE  Inv'
<1>1. /\ DOMAIN watches' = DOMAIN watches
      /\ \A x \in DOMAIN watches' : watches'[x] = IF x = w THEN prefs ELSE watches[x]
      /\ UNCHANGED <<ruleOf, rows, phase, seen, held, plan, queued, told, inherited>>
  BY DEF SetPrefs, memory, history
<1>2. TypeOK'
  BY <1>1, PollerAssumption DEF Inv, TypeOK
<1>3. StoreIsWhole' /\ CountedMeansTold'
  BY <1>1 DEF Inv, IInv, StoreIsWhole, CountedMeansTold
<1>4. HeldAgrees' /\ PlanAgrees' /\ PlanIsOutcomes'
  BY <1>1 DEF Inv, IInv, HeldAgrees, PlanAgrees, PlanIsOutcomes
<1> QED BY <1>2, <1>3, <1>4 DEF Inv, IInv

LEMMA EditKeeps == Inv /\ Edit => Inv'
<1> SUFFICES ASSUME Inv, Edit
             PROVE  Inv'
  OBVIOUS
<1>1. ASSUME NEW prefs \in PrefChoices, NEW n \in RuleIds, NEW seeds \in Seeds(n),
             CreateWatch(prefs, seeds)
      PROVE  Inv'
  BY <1>1, CreateWatchKeeps
<1>2. ASSUME NEW w \in DOMAIN watches, NEW seeds \in Seeds(1), AddRule(w, seeds)
      PROVE  Inv'
  BY <1>2, AddRuleKeeps
<1>3. ASSUME NEW r \in DOMAIN ruleOf, DeleteRule(r)
      PROVE  Inv'
  BY <1>3, DeleteRuleKeeps
<1>4. ASSUME NEW w \in DOMAIN watches, DeleteWatch(w)
      PROVE  Inv'
  BY <1>4, DeleteWatchKeeps
<1>5. ASSUME NEW w \in DOMAIN watches, NEW prefs \in PrefChoices, SetPrefs(w, prefs)
      PROVE  Inv'
  BY <1>5, SetPrefsKeeps
<1> QED BY <1>1, <1>2, <1>3, <1>4, <1>5 DEF Edit

-------------------------------------------------------------------------------
(***************************************************************************)
(* The evaluation.  One that ends without writing leaves nothing behind.   *)
(***************************************************************************)
LEMMA DoneEffect ==
  ASSUME Done
  PROVE  phase' = "idle" /\ DOMAIN seen' = {} /\ DOMAIN held' = {} /\ DOMAIN plan' = {}
  BY EmptyTable DEF Done

LEMMA AbandonKeeps ==
  ASSUME Inv, Done, UNCHANGED <<store, queued, history>>
  PROVE  Inv'
<1>1. phase' = "idle" /\ DOMAIN seen' = {} /\ DOMAIN held' = {} /\ DOMAIN plan' = {}
  BY DoneEffect
<1>2. UNCHANGED <<watches, ruleOf, rows, queued, told, inherited>>
  BY DEF store, history
<1>3. TypeOK'
  BY <1>1, <1>2 DEF Inv, TypeOK, Phases
<1>4. StoreIsWhole' /\ CountedMeansTold'
  BY <1>2 DEF Inv, IInv, StoreIsWhole, CountedMeansTold
<1>5. HeldAgrees' /\ PlanAgrees' /\ PlanIsOutcomes'
  BY <1>1 DEF HeldAgrees, PlanAgrees, PlanIsOutcomes
<1> QED BY <1>3, <1>4, <1>5 DEF Inv, IInv

LEMMA ReadWatchesKeeps == Inv /\ ReadWatches => Inv'
<1> SUFFICES ASSUME Inv, ReadWatches
             PROVE  Inv'
  OBVIOUS
<1>1. /\ phase' = "watches" /\ seen' = watches /\ queued' = {}
      /\ UNCHANGED <<watches, ruleOf, rows, held, plan, told, inherited>>
  BY DEF ReadWatches, store, history
<1>2. TypeOK'
  BY <1>1 DEF Inv, TypeOK, Phases
<1>3. StoreIsWhole' /\ CountedMeansTold'
  BY <1>1 DEF Inv, IInv, StoreIsWhole, CountedMeansTold
<1>4. HeldAgrees' /\ PlanAgrees' /\ PlanIsOutcomes'
  BY <1>1 DEF Inv, IInv, HeldAgrees, PlanAgrees, PlanIsOutcomes
<1> QED BY <1>2, <1>3, <1>4 DEF Inv, IInv

LEMMA ReadStatesKeeps == Inv /\ ReadStates => Inv'
<1> SUFFICES ASSUME Inv, ReadStates
             PROVE  Inv'
  OBVIOUS
<1>1. /\ phase' = "states" /\ held' = rows
      /\ UNCHANGED <<watches, ruleOf, rows, seen, plan, queued, told, inherited>>
  BY DEF ReadStates, store, history
<1>2. TypeOK'
  BY <1>1 DEF Inv, TypeOK, Phases
<1>3. StoreIsWhole' /\ CountedMeansTold'
  BY <1>1 DEF Inv, IInv, StoreIsWhole, CountedMeansTold
<1>4. HeldAgrees'
  BY <1>1 DEF HeldAgrees
<1>5. PlanAgrees' /\ PlanIsOutcomes'
  BY <1>1 DEF Inv, IInv, PlanAgrees, PlanIsOutcomes
<1> QED BY <1>2, <1>3, <1>4, <1>5 DEF Inv, IInv

(***************************************************************************)
(* The outcomes: a rule not in what was read is judged as new, and one     *)
(* that is has the row it was read with.                                   *)
(***************************************************************************)
LEMMA PriorIsARow ==
  ASSUME TypeOK, NEW w, NEW r
  PROVE  Prior(w, r) \in Rows
  BY UnknownRowIsARow DEF Prior, TypeOK

LEMMA PriorMeansTold ==
  ASSUME Inv, NEW r \in DOMAIN ruleOf \ inherited, Prior(ruleOf[r], r).notifyCount > 0
  PROVE  told[r] = "alert"
<1>1. <<ruleOf[r], r>> \in DOMAIN held
  <2> SUFFICES ASSUME <<ruleOf[r], r>> \notin DOMAIN held
               PROVE  FALSE
    OBVIOUS
  <2>1. Prior(ruleOf[r], r).notifyCount = 0
    BY UnknownRowIsARow DEF Prior
  <2> QED BY <2>1
<1>2. Prior(ruleOf[r], r) = rows[<<ruleOf[r], r>>]
  BY <1>1 DEF Prior, Inv, IInv, HeldAgrees
<1> QED BY <1>2 DEF Inv, IInv, CountedMeansTold

LEMMA ReadRulesKeeps == Inv /\ ReadRules => Inv'
<1> SUFFICES ASSUME Inv, ReadRules
             PROVE  Inv'
  OBVIOUS
<1> DEFINE judged == {r \in DOMAIN ruleOf : ruleOf[r] \in DOMAIN seen}
<1>1. /\ phase' = "planned" /\ DOMAIN seen' = {} /\ DOMAIN held' = {}
      /\ UNCHANGED <<watches, ruleOf, rows, queued, told, inherited>>
  BY EmptyTable DEF ReadRules, store
<1>2. PICK now \in [judged -> Readings] :
         plan' = [r \in judged |->
                    [watch |-> ruleOf[r],
                     out   |-> Evaluate(now[r], Prior(ruleOf[r], r), seen[ruleOf[r]]),
                     live  |-> TRUE]]
  BY DEF ReadRules
<1>3. ASSUME NEW r \in judged
      PROVE  /\ plan'[r].watch = ruleOf[r] /\ plan'[r].live = TRUE
             /\ plan'[r] \in Planned
             /\ Sound(plan'[r].out, Prior(ruleOf[r], r))
  <2> DEFINE out == Evaluate(now[r], Prior(ruleOf[r], r), seen[ruleOf[r]])
  <2>1. now[r] \in Readings /\ Prior(ruleOf[r], r) \in Rows /\ seen[ruleOf[r]] \in Prefs
    BY <1>2, PriorIsARow DEF Inv, TypeOK
  <2>2. Sound(out, Prior(ruleOf[r], r))
    BY <2>1, EvaluateIsSound
  <2>3. plan'[r] = [watch |-> ruleOf[r], out |-> out, live |-> TRUE]
    BY <1>2
  <2> HIDE DEF out
  <2>4. out \in Outcomes
    BY <2>2 DEF Sound
  <2>5. ruleOf[r] \in WatchIds
    BY DEF Inv, TypeOK
  <2> QED BY <2>2, <2>3, <2>4, <2>5 DEF Planned
<1>4. DOMAIN plan' = judged
  BY <1>2
<1>5. TypeOK'
  BY <1>1, <1>3, <1>4 DEF Inv, TypeOK, Phases
<1>6. StoreIsWhole' /\ CountedMeansTold'
  BY <1>1 DEF Inv, IInv, StoreIsWhole, CountedMeansTold
<1>7. HeldAgrees'
  BY <1>1 DEF HeldAgrees
<1>8. PlanAgrees'
  <2> SUFFICES ASSUME NEW r \in judged, r \notin inherited
               PROVE  /\ plan'[r].live /\ plan'[r].watch = ruleOf[r]
                      /\ plan'[r].out.row.notifyCount > 0 =>
                            \/ plan'[r].out.kind = "alert"
                            \/ plan'[r].out.kind = "none" /\ told[r] = "alert"
    BY <1>1, <1>4 DEF PlanAgrees
  <2>1. Prior(ruleOf[r], r).notifyCount > 0 => told[r] = "alert"
    BY PriorMeansTold
  <2> QED BY <1>3, <2>1 DEF Sound
<1>9. PlanIsOutcomes'
  BY <1>3, <1>4 DEF PlanIsOutcomes, Sound
<1> QED BY <1>5, <1>6, <1>7, <1>8, <1>9 DEF Inv, IInv

(***************************************************************************)
(* The commit: it writes under keys that are there, and what it writes of  *)
(* a rule is what it says of it.                                           *)
(***************************************************************************)
LEMMA SavedRows ==
  ASSUME Inv, NEW written \in SUBSET DOMAIN plan, rows' = Saved(written)
  PROVE  /\ DOMAIN rows' = {<<plan[r].watch, r>> : r \in written} \union DOMAIN rows
         /\ \A r \in written : rows'[<<plan[r].watch, r>>] = plan[r].out.row
         /\ \A k \in DOMAIN rows : k[2] \notin written => rows'[k] = rows[k]
         /\ \A k \in DOMAIN rows' : \/ k \in DOMAIN rows /\ rows'[k] = rows[k]
                                    \/ \E r \in written : rows'[k] = plan[r].out.row
<1> DEFINE keys == {<<plan[r].watch, r>> : r \in written}
<1>1. rows' = [k \in keys \union DOMAIN rows |-> IF k \in keys THEN plan[k[2]].out.row ELSE rows[k]]
  BY DEF Saved, Upserted
<1>2. \A r \in written : <<plan[r].watch, r>> \in keys /\ <<plan[r].watch, r>>[2] = r
  OBVIOUS
<1>3. \A k \in DOMAIN rows : k[2] \notin written => k \notin keys
  OBVIOUS
<1>4a. \A k \in keys : \E r \in written : k[2] = r
  OBVIOUS
<1> HIDE DEF keys
<1>4. \A r \in written : rows'[<<plan[r].watch, r>>] = plan[r].out.row
  BY <1>1, <1>2
<1>6. \A k \in DOMAIN rows' : \/ k \in DOMAIN rows /\ rows'[k] = rows[k]
                              \/ \E r \in written : rows'[k] = plan[r].out.row
  BY <1>1, <1>4a
<1>5. \A k \in DOMAIN rows : k[2] \notin written => rows'[k] = rows[k]
  BY <1>1, <1>3
<1> QED BY <1>1, <1>4, <1>5, <1>6 DEF keys

LEMMA CommitKeeps ==
  ASSUME Inv, NEW moved \in SUBSET DOMAIN plan, Commit(moved)
  PROVE  Inv'
<1> DEFINE written == Written(moved)
<1> DEFINE named == {r \in DOMAIN plan : plan[r].out.kind # "none" /\ plan[r].live}
<1>1. /\ phase' = "idle" /\ DOMAIN seen' = {} /\ DOMAIN held' = {} /\ DOMAIN plan' = {}
      /\ UNCHANGED <<watches, ruleOf, inherited>>
  BY DoneEffect DEF Commit
<1>2. \A r \in written : plan[r].watch \in DOMAIN watches /\ r \in DOMAIN ruleOf
  BY DEF Commit, Savable
<1>3. /\ written \in SUBSET DOMAIN plan
      /\ \A r \in DOMAIN plan : plan[r].out.kind # "none" => r \in written
  BY DEF Written, Inv, IInv, PlanIsOutcomes
<1>4. /\ DOMAIN rows' = {<<plan[r].watch, r>> : r \in written} \union DOMAIN rows
      /\ \A r \in written : rows'[<<plan[r].watch, r>>] = plan[r].out.row
      /\ \A k \in DOMAIN rows : k[2] \notin written => rows'[k] = rows[k]
      /\ \A k \in DOMAIN rows' : \/ k \in DOMAIN rows /\ rows'[k] = rows[k]
                                 \/ \E r \in written : rows'[k] = plan[r].out.row
  <2>1. rows' = Saved(written)
    BY DEF Commit
  <2> HIDE DEF written
  <2> QED BY <1>3, <2>1, SavedRows
<1>5. /\ DOMAIN told' = named \union DOMAIN told
      /\ \A r \in DOMAIN told' : told'[r] = IF r \in named THEN plan[r].out.kind ELSE told[r]
  BY DEF Commit, Upserted
<1>6. queued' = Messages(plan)
  BY DEF Commit
<1> HIDE DEF written
<1>7. TypeOK'
  <2>1. DOMAIN rows' \subseteq RowKeys
    BY <1>3, <1>4 DEF Inv, TypeOK, RowKeys, Planned
  <2>2. \A k \in DOMAIN rows' : rows'[k] \in Rows
    BY <1>3, <1>4 DEF Inv, TypeOK, Planned, Outcomes
  <2>3. \A m \in queued' : m.watch \in WatchIds /\ m.kind \in Kinds /\ m.rules \subseteq RuleIds
    BY <1>6 DEF Messages, Inv, TypeOK, Planned, Outcomes
  <2>4. named \subseteq DOMAIN ruleOf
    BY <1>2, <1>3
  <2>5. DOMAIN told' = DOMAIN ruleOf /\ \A r \in DOMAIN told' : told'[r] \in Kinds
    BY <1>5, <2>4 DEF Inv, TypeOK, Planned, Outcomes
  <2> QED BY <1>1, <2>1, <2>2, <2>3, <2>5 DEF Inv, TypeOK, Phases
<1>8. StoreIsWhole'
  <2>1. \A k \in DOMAIN rows' : k[1] \in DOMAIN watches /\ k[2] \in DOMAIN ruleOf
    BY <1>2, <1>4 DEF Inv, IInv, StoreIsWhole
  <2>2. \A r \in DOMAIN ruleOf : ruleOf[r] \in DOMAIN watches /\ <<ruleOf[r], r>> \in DOMAIN rows'
    BY <1>4 DEF Inv, IInv, StoreIsWhole
  <2> QED BY <1>1, <2>1, <2>2 DEF StoreIsWhole
<1>9. CountedMeansTold'
  <2> SUFFICES ASSUME NEW r \in DOMAIN ruleOf, r \notin inherited,
                      rows'[<<ruleOf[r], r>>].notifyCount > 0
               PROVE  told'[r] = "alert"
    BY <1>1 DEF CountedMeansTold
  <2>1. r \in DOMAIN told'
    BY <1>5 DEF Inv, TypeOK
  <2>2. CASE r \in written
    <3>1. /\ plan[r].live /\ plan[r].watch = ruleOf[r]
          /\ plan[r].out.row.notifyCount > 0 =>
                \/ plan[r].out.kind = "alert"
                \/ plan[r].out.kind = "none" /\ told[r] = "alert"
      BY <1>3, <2>2 DEF Inv, IInv, PlanAgrees
    <3>2. rows'[<<ruleOf[r], r>>] = plan[r].out.row
      BY <1>4, <2>2, <3>1
    <3>3. \/ plan[r].out.kind = "alert"
          \/ plan[r].out.kind = "none" /\ told[r] = "alert"
      BY <3>1, <3>2
    <3> QED BY <1>3, <1>5, <2>1, <2>2, <3>1, <3>3
  <2>3. CASE r \notin written
    <3>1. <<ruleOf[r], r>> \in DOMAIN rows
      BY DEF Inv, IInv, StoreIsWhole
    <3>2. rows'[<<ruleOf[r], r>>] = rows[<<ruleOf[r], r>>]
      BY <1>4, <2>3, <3>1
    <3>3. told[r] = "alert"
      BY <3>2 DEF Inv, IInv, CountedMeansTold
    <3> QED BY <1>3, <1>5, <2>1, <2>3, <3>3
  <2> QED BY <2>2, <2>3
<1>10. HeldAgrees' /\ PlanAgrees' /\ PlanIsOutcomes'
  BY <1>1 DEF HeldAgrees, PlanAgrees, PlanIsOutcomes
<1> QED BY <1>7, <1>8, <1>9, <1>10 DEF Inv, IInv

(***************************************************************************)
(* The theorems.  TypeOK: every variable keeps its type.                   *)
(***************************************************************************)
LEMMA StepKeeps == Inv /\ [Next]_vars => Inv'
<1> SUFFICES ASSUME Inv, [Next]_vars
             PROVE  Inv'
  OBVIOUS
<1>1. CASE Edit
  BY <1>1, EditKeeps
<1>2. CASE ReadWatches \/ ReadStates \/ ReadRules
  BY <1>2, ReadWatchesKeeps, ReadStatesKeeps, ReadRulesKeeps
<1>3. CASE Withhold
  <2>1. Done /\ UNCHANGED <<store, queued, history>>
    BY <1>3 DEF Withhold
  <2> QED BY <2>1, AbandonKeeps
<1>4. ASSUME NEW moved \in SUBSET DOMAIN plan, Commit(moved)
      PROVE  Inv'
  BY <1>4, CommitKeeps
<1>5. ASSUME NEW moved \in SUBSET DOMAIN plan, Rollback(moved)
      PROVE  Inv'
  <2>1. Done /\ UNCHANGED <<store, queued, history>>
    BY <1>5 DEF Rollback
  <2> QED BY <2>1, AbandonKeeps
<1>6. CASE Crash
  <2>1. Done /\ UNCHANGED <<store, queued, history>>
    BY <1>6 DEF Crash
  <2> QED BY <2>1, AbandonKeeps
<1>7. CASE UNCHANGED vars
  <2>1. UNCHANGED <<watches, ruleOf, rows, phase, seen, held, plan, queued, told, inherited>>
    BY <1>7 DEF vars, store, memory, history
  <2>2. TypeOK' /\ StoreIsWhole' /\ CountedMeansTold'
    BY <2>1 DEF Inv, IInv, TypeOK, StoreIsWhole, CountedMeansTold
  <2>3. HeldAgrees' /\ PlanAgrees' /\ PlanIsOutcomes'
    BY <2>1 DEF Inv, IInv, HeldAgrees, PlanAgrees, PlanIsOutcomes
  <2> QED BY <2>2, <2>3 DEF Inv, IInv
<1> QED BY <1>1, <1>2, <1>3, <1>4, <1>5, <1>6, <1>7 DEF Next, Evaluation

LEMMA AlwaysInv == Spec => []Inv
  BY InitInv, StepKeeps, PTL DEF Spec

(***************************************************************************)
(* The tables stay well-formed, and so does what an evaluation holds in    *)
(* memory (evaluate of poller.go).                                         *)
(***************************************************************************)
THEOREM TypeCorrect == Spec => []TypeOK
<1>1. Inv => TypeOK
  BY DEF Inv
<1> QED BY <1>1, AlwaysInv, PTL

(***************************************************************************)
(* The invariant of the commit: evaluate's memory agrees with the store    *)
(* about every rule that has not taken over a remembered id.               *)
(***************************************************************************)
THEOREM Inductive == Spec => []IInv
<1>1. Inv => IInv
  BY DEF Inv
<1> QED BY <1>1, AlwaysInv, PTL

(***************************************************************************)
(* The foreign keys hold whatever is edited while an evaluation runs.      *)
(***************************************************************************)
THEOREM StoreStaysWhole == Spec => []StoreIsWhole
<1>1. Inv => StoreIsWhole
  BY DEF Inv, IInv
<1> QED BY <1>1, AlwaysInv, PTL

(***************************************************************************)
(* Row and message are one commit: a counted row was told.                 *)
(***************************************************************************)
THEOREM CountedMeansToldHolds == Spec => []CountedMeansTold
<1>1. Inv => CountedMeansTold
  BY DEF Inv, IInv
<1> QED BY <1>1, AlwaysInv, PTL

-------------------------------------------------------------------------------
(***************************************************************************)
(* Only a commit queues messages, and each of them is about rows it wrote. *)
(***************************************************************************)
LEMMA OnlyCommitQueues ==
  ASSUME [Next]_vars, queued' \ queued # {}
  PROVE  \E moved \in SUBSET DOMAIN plan : Commit(moved)
<1> SUFFICES ASSUME ~\E moved \in SUBSET DOMAIN plan : Commit(moved)
             PROVE  queued' = queued \/ queued' = {}
  OBVIOUS
<1>1. CASE Edit
  BY <1>1 DEF Edit, CreateWatch, AddRule, DeleteRule, DeleteWatch, Cascade, SetPrefs
<1>2. CASE ReadWatches \/ ReadStates \/ ReadRules
  BY <1>2 DEF ReadWatches, ReadStates, ReadRules
<1>3. CASE Withhold \/ (\E moved \in SUBSET DOMAIN plan : Rollback(moved)) \/ Crash
  BY <1>3 DEF Withhold, Rollback, Crash
<1>4. CASE UNCHANGED vars
  BY <1>4 DEF vars
<1> QED BY <1>1, <1>2, <1>3, <1>4 DEF Next, Evaluation

LEMMA MessagesNamePlanned ==
  ASSUME NEW p, NEW m \in Messages(p)
  PROVE  /\ \E r \in DOMAIN p : p[r].out.kind # "none" /\ m.watch = p[r].watch
         /\ \A r \in m.rules : r \in DOMAIN p /\ p[r].out.kind = m.kind /\ m.kind # "none"
  BY DEF Messages

(***************************************************************************)
(* Nothing is said of a watch or a rule that has been deleted.             *)
(***************************************************************************)
THEOREM NoMessageAboutTheDeletedHolds == Spec => NoMessageAboutTheDeleted
<1>1. Inv /\ [Next]_vars =>
        [\A m \in queued' \ queued : m.watch \in DOMAIN watches /\ m.rules \subseteq DOMAIN ruleOf]_vars
  <2> SUFFICES ASSUME Inv, [Next]_vars, NEW m \in queued' \ queued
               PROVE  m.watch \in DOMAIN watches /\ m.rules \subseteq DOMAIN ruleOf
    OBVIOUS
  <2>1. PICK moved \in SUBSET DOMAIN plan : Commit(moved)
    BY OnlyCommitQueues
  <2>2. m \in Messages(plan)
    BY <2>1 DEF Commit
  <2>3. \A r \in DOMAIN plan :
           plan[r].out.kind # "none" => plan[r].watch \in DOMAIN watches /\ r \in DOMAIN ruleOf
    BY <2>1 DEF Commit, Written, Savable, Inv, IInv, PlanIsOutcomes
  <2> QED BY <2>2, <2>3, MessagesNamePlanned
<1> QED BY <1>1, AlwaysInv, PTL DEF Spec, NoMessageAboutTheDeleted

(***************************************************************************)
(* No poll announces more outages than the breaker allows.                 *)
(***************************************************************************)
LEMMA ProductsGrow ==
  ASSUME NEW a \in Nat, NEW b \in Nat, NEW d \in Nat, a <= b
  PROVE  a * d <= b * d
  OBVIOUS

LEMMA PlanIsFinite ==
  ASSUME TypeOK
  PROVE  IsFiniteSet(DOMAIN plan)
<1>1. IsFiniteSet(RuleIds)
  BY FS_Interval, PollerAssumption DEF RuleIds
<1>2. DOMAIN plan \in SUBSET RuleIds
  BY DEF TypeOK
<1> QED BY <1>1, <1>2, FS_Subset

(***************************************************************************)
(* However the outages are spread over watches and rules, a poll announces *)
(* no more of them than the breaker lets it (TripBreaker of alert.go).     *)
(***************************************************************************)
THEOREM BreakerBoundsAlertsHolds == Spec => BreakerBoundsAlerts
<1> DEFINE n == Cardinality(Announced(queued' \ queued))
<1> DEFINE active == Cardinality(DOMAIN plan)
<1> DEFINE Bounded == n > 0 => /\ MaxPerPoll > 0 => n <= MaxPerPoll
                               /\ FractionNum > 0 /\ active >= MinSignalsForFraction
                                     => n * FractionDen <= FractionNum * active
<1>1. Inv /\ [Next]_vars => Bounded
  <2> SUFFICES ASSUME Inv, [Next]_vars, n > 0
               PROVE  /\ MaxPerPoll > 0 => n <= MaxPerPoll
                      /\ FractionNum > 0 /\ active >= MinSignalsForFraction
                            => n * FractionDen <= FractionNum * active
    OBVIOUS
  <2> DEFINE entering == {r \in DOMAIN plan : plan[r].out.entering}
  <2>1. queued' \ queued # {}
    <3> SUFFICES ASSUME queued' \ queued = {}
                 PROVE  FALSE
      OBVIOUS
    <3>1. Announced(queued' \ queued) = {}
      BY DEF Announced
    <3>2. n = 0
      BY <3>1, FS_EmptySet
    <3> QED BY <3>2
  <2>2. PICK moved \in SUBSET DOMAIN plan : Commit(moved)
    BY <2>1, OnlyCommitQueues
  <2>3. Announced(queued' \ queued) \in SUBSET entering
    <3> SUFFICES ASSUME NEW m \in queued', m.kind = "alert", NEW r \in m.rules
                 PROVE  r \in entering
      BY DEF Announced
    <3>1. m \in Messages(plan)
      BY <2>2 DEF Commit
    <3>2. r \in DOMAIN plan /\ plan[r].out.kind = "alert"
      BY <3>1, MessagesNamePlanned
    <3> QED BY <3>2 DEF Inv, IInv, PlanIsOutcomes
  <2>4. IsFiniteSet(entering) /\ Cardinality(entering) \in Nat /\ active \in Nat
    <3>1. IsFiniteSet(DOMAIN plan)
      BY PlanIsFinite DEF Inv
    <3>2. IsFiniteSet(entering)
      BY <3>1, FS_Subset
    <3> QED BY <3>1, <3>2, FS_CardinalityType
  <2>5. n \in Nat /\ n <= Cardinality(entering)
    <3>1. IsFiniteSet(Announced(queued' \ queued)) /\ n <= Cardinality(entering)
      BY <2>3, <2>4, FS_Subset
    <3> QED BY <3>1, FS_CardinalityType
  <2>6. ~TripBreaker(active) /\ Entering = Cardinality(entering)
    BY <2>2 DEF Commit, Tripped, Entering
  <2> HIDE DEF n, active, entering
  <2>7. Entering \in Nat /\ Entering > 0 /\ n <= Entering
    BY <2>4, <2>5, <2>6
  <2>8. MaxPerPoll > 0 => Entering <= MaxPerPoll
    BY <2>6, <2>7, PollerAssumption DEF TripBreaker, Exceeds
  <2>9. ASSUME FractionNum > 0, active >= MinSignalsForFraction
        PROVE  n * FractionDen <= FractionNum * active
    <3>1. ~(Entering * FractionDen > FractionNum * active)
      BY <2>6, <2>7, <2>9 DEF TripBreaker, Exceeds
    <3>2. n * FractionDen <= Entering * FractionDen
      BY <2>5, <2>7, ProductsGrow, PollerAssumption
    <3>3. /\ n * FractionDen \in Nat /\ Entering * FractionDen \in Nat
          /\ FractionNum * active \in Nat
      BY <2>4, <2>5, <2>7, PollerAssumption
    <3> QED BY <3>1, <3>2, <3>3
  <2> QED BY <2>5, <2>7, <2>8, <2>9, PollerAssumption
<1>2. Inv /\ [Next]_vars => [Bounded]_vars
  BY <1>1
<1> QED BY <1>2, AlwaysInv, PTL DEF Spec, BreakerBoundsAlerts

-------------------------------------------------------------------------------
(***************************************************************************)
(* Every rule lives as if it were alone.  An id that is handed out is not  *)
(* in use.                                                                 *)
(***************************************************************************)
LEMMA GreatestIsThere ==
  ASSUME NEW n \in Nat, NEW S, S \subseteq 1..n, S # {}
  PROVE  Max(S) \in S /\ \A y \in S : Max(S) >= y
<1> DEFINE T == {n - x : x \in S}
           R == OpToRel(<, Nat)
<1>1. \A x \in S : n - x \in Nat
  OBVIOUS
<1>2. T \subseteq Nat /\ T # {}
  BY <1>1
<1>3. IsWellFoundedOn(R, Nat)
  BY NatLessThanWellFounded
<1>4. \A x, y \in Nat : x < y => <<x, y>> \in R
  BY DEF OpToRel
<1>5. \A x \in S : n - x \in T
  OBVIOUS
<1>6. \A y \in T : \E x \in S : y = n - x
  OBVIOUS
<1> HIDE DEF R, T
<1>7. PICK least \in T : \A y \in T : ~ (<<y, least>> \in R)
  BY <1>2, <1>3, WFMin
<1>8. PICK m \in S : least = n - m
  BY <1>6, <1>7
<1>9. ASSUME NEW k \in S PROVE m >= k
  <2>1. n - k \in T /\ n - k \in Nat /\ n - m \in Nat
    BY <1>1, <1>5, <1>9
  <2>2. ~(n - k < n - m)
    BY <1>4, <1>7, <1>8, <2>1
  <2> QED BY <2>2
<1>10. \E x \in S : \A y \in S : x >= y
  BY <1>9
<1> QED BY <1>10 DEF Max

LEMMA NewIdsAreNew ==
  ASSUME TypeOK, NEW n \in Nat, NEW seeds \in Seeds(n)
  PROVE  DOMAIN seeds \intersect DOMAIN ruleOf = {}
<1> DEFINE first == NextId(DOMAIN ruleOf)
<1>1. DOMAIN seeds = first..(first + n - 1)
  BY DEF Seeds
<1>2. DOMAIN ruleOf \subseteq 1..MaxRule /\ MaxRule \in Nat
  BY PollerAssumption DEF TypeOK, RuleIds
<1>3. first \in Nat /\ \A r \in DOMAIN ruleOf : r < first
  <2>1. CASE DOMAIN ruleOf = {}
    BY <2>1 DEF NextId
  <2>2. CASE DOMAIN ruleOf # {}
    <3>1. Max(DOMAIN ruleOf) \in DOMAIN ruleOf /\ \A y \in DOMAIN ruleOf : Max(DOMAIN ruleOf) >= y
      BY <1>2, <2>2, GreatestIsThere
    <3>2. first = Max(DOMAIN ruleOf) + 1
      BY <2>2 DEF NextId
    <3> QED BY <1>2, <3>1, <3>2
  <2> QED BY <2>1, <2>2
<1> HIDE DEF first
<1>4. \A r \in DOMAIN ruleOf : ~(r >= first) /\ r \in Nat
  BY <1>2, <1>3
<1> QED BY <1>1, <1>3, <1>4

(***************************************************************************)
(* What an evaluation is about to write of a rule follows from the row it  *)
(* has now.  A rule that the read of the states missed was created since,  *)
(* and nothing has been said of it yet.                                    *)
(***************************************************************************)
RowOf(r) == rows[<<ruleOf[r], r>>]

FollowsFrom(out, row, toldOf) ==
    \E reading \in Readings, prefs \in Prefs :
        \/ out = Evaluate(reading, row, prefs)
        \/ toldOf = "none" /\ out = Evaluate(reading, UnknownRow, prefs)

HeldIsWhole ==
    phase = "states" =>
        \A r \in DOMAIN ruleOf \ inherited : <<ruleOf[r], r>> \notin DOMAIN held => told[r] = "none"

PlanFollows ==
    \A r \in (DOMAIN plan \intersect DOMAIN ruleOf) \ inherited :
        FollowsFrom(plan[r].out, RowOf(r), told[r])

Life == HeldIsWhole /\ PlanFollows

\* An edit leaves the rules that it does not create or delete as they are.
EditSpares ==
    \A r \in DOMAIN ruleOf \intersect DOMAIN ruleOf' :
        /\ ruleOf'[r] = ruleOf[r] /\ RowOf(r)' = RowOf(r) /\ told'[r] = told[r]
        /\ r \notin inherited' => r \notin inherited

LEMMA InsertSpares ==
  ASSUME Inv, NEW w \in WatchIds, NEW n \in Nat, NEW seeds \in Seeds(n), InsertRules(w, seeds),
         UNCHANGED <<memory, queued>>
  PROVE  /\ EditSpares
         /\ \A r \in DOMAIN ruleOf' \ DOMAIN ruleOf :
               told'[r] = "none" /\ (r \in DOMAIN plan => r \in inherited')
<1> DEFINE new == DOMAIN seeds
<1>1. /\ new \subseteq RuleIds
      /\ DOMAIN ruleOf' = new \union DOMAIN ruleOf
      /\ \A r \in new : ruleOf'[r] = w
      /\ \A r \in DOMAIN ruleOf : r \notin new => ruleOf'[r] = ruleOf[r]
      /\ DOMAIN rows' = ({w} \X new) \union DOMAIN rows
      /\ \A r \in new : rows'[<<w, r>>] \in Rows /\ rows'[<<w, r>>].notifyCount = 0
      /\ \A k \in DOMAIN rows : k \notin {w} \X new => rows'[k] = rows[k]
      /\ DOMAIN told' = new \union DOMAIN told
      /\ \A r \in new : told'[r] = "none"
      /\ \A r \in DOMAIN told : r \notin new => told'[r] = told[r]
      /\ inherited' = (inherited \ new) \union {r \in new : Remembered(w, r)}
  BY InsertEffect
<1>2. new \intersect DOMAIN ruleOf = {}
  BY NewIdsAreNew DEF Inv
<1> HIDE DEF new
<1>3. ASSUME NEW r \in DOMAIN ruleOf
      PROVE  /\ ruleOf'[r] = ruleOf[r] /\ RowOf(r)' = RowOf(r) /\ told'[r] = told[r]
             /\ r \notin inherited' => r \notin inherited
  <2>1. r \notin new /\ ruleOf'[r] = ruleOf[r]
    BY <1>1, <1>2
  <2>2. <<ruleOf[r], r>> \in DOMAIN rows /\ r \in DOMAIN told
    BY DEF Inv, IInv, TypeOK, StoreIsWhole
  <2>3. <<ruleOf[r], r>> \notin {w} \X new
    BY <2>1
  <2>4. rows'[<<ruleOf[r], r>>] = rows[<<ruleOf[r], r>>] /\ told'[r] = told[r]
    BY <1>1, <2>1, <2>2, <2>3
  <2> QED BY <1>1, <2>1, <2>4 DEF RowOf
<1>4. \A r \in DOMAIN ruleOf' \ DOMAIN ruleOf :
         told'[r] = "none" /\ (r \in DOMAIN plan => r \in inherited')
  BY <1>1 DEF Remembered
<1> QED BY <1>3, <1>4 DEF EditSpares

LEMMA CascadeSpares ==
  ASSUME Inv, NEW gone, Cascade(gone),
         \A r \in DOMAIN ruleOf \ gone : ruleOf[r] \in DOMAIN watches'
  PROVE  EditSpares /\ DOMAIN ruleOf' \subseteq DOMAIN ruleOf
<1>1. /\ DOMAIN ruleOf' = DOMAIN ruleOf \ gone
      /\ \A r \in DOMAIN ruleOf' : ruleOf'[r] = ruleOf[r]
      /\ DOMAIN rows' = {k \in DOMAIN rows : ~(k[2] \in gone \/ k[1] \notin DOMAIN watches')}
      /\ \A k \in DOMAIN rows' : rows'[k] = rows[k]
      /\ \A r \in DOMAIN told \ gone : told'[r] = told[r]
      /\ inherited' = inherited \ gone
  BY DEF Cascade, Without
<1>2. ASSUME NEW r \in DOMAIN ruleOf'
      PROVE  /\ ruleOf'[r] = ruleOf[r] /\ RowOf(r)' = RowOf(r) /\ told'[r] = told[r]
             /\ r \notin inherited' => r \notin inherited
  <2>1. /\ r \in DOMAIN ruleOf /\ r \notin gone /\ r \in DOMAIN told
        /\ <<ruleOf[r], r>> \in DOMAIN rows /\ ruleOf[r] \in DOMAIN watches'
    BY <1>1 DEF Inv, IInv, TypeOK, StoreIsWhole
  <2>2. <<ruleOf[r], r>> \in DOMAIN rows'
    BY <1>1, <2>1
  <2> QED BY <1>1, <2>1, <2>2 DEF RowOf
<1> QED BY <1>1, <1>2 DEF EditSpares

LEMMA EditEffect ==
  ASSUME Inv, Edit
  PROVE  /\ EditSpares
         /\ \A r \in DOMAIN ruleOf' \ DOMAIN ruleOf :
               told'[r] = "none" /\ (r \in DOMAIN plan => r \in inherited')
         /\ phase' = phase /\ held' = held /\ queued' = queued /\ DOMAIN plan' = DOMAIN plan
         /\ \A r \in DOMAIN plan : plan'[r].out = plan[r].out
<1>1. ASSUME NEW prefs \in PrefChoices, NEW n \in RuleIds, NEW seeds \in Seeds(n),
             CreateWatch(prefs, seeds)
      PROVE  /\ EditSpares /\ UNCHANGED <<memory, queued>>
             /\ \A r \in DOMAIN ruleOf' \ DOMAIN ruleOf :
                   told'[r] = "none" /\ (r \in DOMAIN plan => r \in inherited')
  <2> DEFINE w == NextId(DOMAIN watches)
  <2>1. w \in WatchIds /\ InsertRules(w, seeds) /\ UNCHANGED <<memory, queued>>
    BY <1>1 DEF CreateWatch
  <2>2. n \in Nat
    BY PollerAssumption DEF RuleIds
  <2> HIDE DEF w
  <2> QED BY <2>1, <2>2, InsertSpares
<1>2. ASSUME NEW w \in DOMAIN watches, NEW seeds \in Seeds(1), AddRule(w, seeds)
      PROVE  /\ EditSpares /\ UNCHANGED <<memory, queued>>
             /\ \A r \in DOMAIN ruleOf' \ DOMAIN ruleOf :
                   told'[r] = "none" /\ (r \in DOMAIN plan => r \in inherited')
  <2>1. InsertRules(w, seeds) /\ UNCHANGED <<memory, queued>> /\ w \in WatchIds /\ 1 \in Nat
    BY <1>2 DEF AddRule, Inv, TypeOK
  <2> QED BY <2>1, InsertSpares
<1>3. ASSUME NEW gone, Cascade(gone),
             \A r \in DOMAIN ruleOf \ gone : ruleOf[r] \in DOMAIN watches'
      PROVE  /\ EditSpares /\ DOMAIN ruleOf' \subseteq DOMAIN ruleOf
             /\ phase' = phase /\ held' = held /\ queued' = queued /\ DOMAIN plan' = DOMAIN plan
             /\ \A r \in DOMAIN plan : plan'[r].out = plan[r].out
  <2>1. EditSpares /\ DOMAIN ruleOf' \subseteq DOMAIN ruleOf
    BY <1>3, CascadeSpares
  <2>2. /\ phase' = phase /\ held' = held /\ queued' = queued
        /\ plan' = [r \in DOMAIN plan |-> [plan[r] EXCEPT !.live = @ /\ r \notin gone]]
    BY <1>3 DEF Cascade
  <2>3. ASSUME NEW r \in DOMAIN plan PROVE plan'[r].out = plan[r].out
    <3>1. plan[r] \in Planned /\ plan'[r] = [plan[r] EXCEPT !.live = @ /\ r \notin gone]
      BY <2>2 DEF Inv, TypeOK
    <3> QED BY <3>1 DEF Planned
  <2> QED BY <2>1, <2>2, <2>3
<1>4. ASSUME NEW r \in DOMAIN ruleOf, DeleteRule(r)
      PROVE  Cascade({r}) /\ \A x \in DOMAIN ruleOf \ {r} : ruleOf[x] \in DOMAIN watches'
  BY <1>4 DEF DeleteRule, Inv, IInv, StoreIsWhole
<1>5. ASSUME NEW w \in DOMAIN watches, DeleteWatch(w)
      PROVE  Cascade(RulesOf(w)) /\ \A x \in DOMAIN ruleOf \ RulesOf(w) : ruleOf[x] \in DOMAIN watches'
  BY <1>5 DEF DeleteWatch, Without, RulesOf, Inv, IInv, StoreIsWhole
<1>6. ASSUME NEW w \in DOMAIN watches, NEW prefs \in PrefChoices, SetPrefs(w, prefs)
      PROVE  UNCHANGED <<ruleOf, rows, phase, held, plan, queued, told, inherited>>
  BY <1>6 DEF SetPrefs, memory, history
<1>7. CASE UNCHANGED <<ruleOf, rows, phase, held, plan, queued, told, inherited>>
  BY <1>7 DEF EditSpares, RowOf
<1>8. CASE (\E r \in DOMAIN ruleOf : DeleteRule(r)) \/ (\E w \in DOMAIN watches : DeleteWatch(w))
  <2>1. PICK gone : Cascade(gone) /\ \A r \in DOMAIN ruleOf \ gone : ruleOf[r] \in DOMAIN watches'
    BY <1>4, <1>5, <1>8
  <2> QED BY <1>3, <2>1
<1>9. CASE \/ \E prefs \in PrefChoices, n \in RuleIds : \E seeds \in Seeds(n) : CreateWatch(prefs, seeds)
           \/ \E w \in DOMAIN watches, seeds \in Seeds(1) : AddRule(w, seeds)
  BY <1>1, <1>2, <1>9 DEF memory
<1> QED BY <1>6, <1>7, <1>8, <1>9 DEF Edit

LEMMA InitLife == Init => Life
<1> SUFFICES ASSUME Init
             PROVE  Life
  OBVIOUS
<1>1. phase = "idle" /\ DOMAIN plan = {}
  BY EmptyTable DEF Init
<1> QED BY <1>1 DEF Life, HeldIsWhole, PlanFollows

LEMMA EditKeepsLife ==
  ASSUME Inv, Life, Edit
  PROVE  Life'
<1>1. /\ EditSpares
      /\ \A r \in DOMAIN ruleOf' \ DOMAIN ruleOf :
            told'[r] = "none" /\ (r \in DOMAIN plan => r \in inherited')
      /\ phase' = phase /\ held' = held /\ DOMAIN plan' = DOMAIN plan
      /\ \A r \in DOMAIN plan : plan'[r].out = plan[r].out
  BY EditEffect
<1>2. HeldIsWhole'
  <2> SUFFICES ASSUME phase = "states", NEW r \in DOMAIN ruleOf', r \notin inherited',
                      <<ruleOf'[r], r>> \notin DOMAIN held
               PROVE  told'[r] = "none"
    BY <1>1 DEF HeldIsWhole
  <2>1. CASE r \in DOMAIN ruleOf
    BY <1>1, <2>1 DEF EditSpares, Life, HeldIsWhole
  <2>2. CASE r \notin DOMAIN ruleOf
    BY <1>1, <2>2
  <2> QED BY <2>1, <2>2
<1>3. PlanFollows'
  <2> SUFFICES ASSUME NEW r \in DOMAIN plan, r \in DOMAIN ruleOf', r \notin inherited'
               PROVE  FollowsFrom(plan'[r].out, RowOf(r)', told'[r])
    BY <1>1 DEF PlanFollows
  <2>1. r \in DOMAIN ruleOf
    BY <1>1
  <2>2. r \notin inherited /\ RowOf(r)' = RowOf(r) /\ told'[r] = told[r] /\ plan'[r].out = plan[r].out
    BY <1>1, <2>1 DEF EditSpares
  <2>3. FollowsFrom(plan[r].out, RowOf(r), told[r])
    BY <2>1, <2>2 DEF Life, PlanFollows
  <2> QED BY <2>2, <2>3
<1> QED BY <1>2, <1>3 DEF Life

LEMMA ReadRulesKeepsLife ==
  ASSUME Inv, Life, ReadRules
  PROVE  Life'
<1> DEFINE judged == {r \in DOMAIN ruleOf : ruleOf[r] \in DOMAIN seen}
<1>1. /\ phase = "states" /\ phase' = "planned"
      /\ UNCHANGED <<watches, ruleOf, rows, told, inherited>>
  BY DEF ReadRules, store
<1>2. PICK now \in [judged -> Readings] :
         plan' = [r \in judged |->
                    [watch |-> ruleOf[r],
                     out   |-> Evaluate(now[r], Prior(ruleOf[r], r), seen[ruleOf[r]]),
                     live  |-> TRUE]]
  BY DEF ReadRules
<1>3. ASSUME NEW r \in judged, r \notin inherited
      PROVE  FollowsFrom(plan'[r].out, RowOf(r), told[r])
  <2> DEFINE prior == Prior(ruleOf[r], r)
             prefs == seen[ruleOf[r]]
  <2>1. plan'[r].out = Evaluate(now[r], prior, prefs)
    BY <1>2
  <2>2. now[r] \in Readings /\ prefs \in Prefs
    BY <1>2 DEF Inv, TypeOK
  <2>3. prior = RowOf(r) \/ (told[r] = "none" /\ prior = UnknownRow)
    <3>1. CASE <<ruleOf[r], r>> \in DOMAIN held
      BY <1>3, <3>1 DEF Prior, RowOf, Inv, IInv, HeldAgrees
    <3>2. CASE <<ruleOf[r], r>> \notin DOMAIN held
      BY <1>1, <1>3, <3>2 DEF Prior, Life, HeldIsWhole
    <3> QED BY <3>1, <3>2
  <2> HIDE DEF prior, prefs
  <2> QED BY <2>1, <2>2, <2>3 DEF FollowsFrom
<1>5. DOMAIN plan' = judged
  BY <1>2
<1>6. PlanFollows'
  BY <1>1, <1>3, <1>5 DEF PlanFollows, RowOf
<1>7. HeldIsWhole'
  BY <1>1 DEF HeldIsWhole
<1> QED BY <1>6, <1>7 DEF Life

LEMMA StepKeepsLife == Inv /\ Life /\ [Next]_vars => Life'
<1> SUFFICES ASSUME Inv, Life, [Next]_vars
             PROVE  Life'
  OBVIOUS
<1>1. CASE Edit
  BY <1>1, EditKeepsLife
<1>2. CASE ReadRules
  BY <1>2, ReadRulesKeepsLife
<1>3. CASE ReadStates
  <2>1. phase' = "states" /\ held' = rows /\ UNCHANGED <<watches, ruleOf, rows, plan, told, inherited>>
    BY <1>3 DEF ReadStates, store, history
  <2>2. HeldIsWhole'
    BY <2>1 DEF HeldIsWhole, Inv, IInv, StoreIsWhole
  <2>3. PlanFollows'
    BY <2>1 DEF Life, PlanFollows, RowOf
  <2> QED BY <2>2, <2>3 DEF Life
<1>4. CASE ReadWatches
  <2>1. phase' = "watches" /\ UNCHANGED <<watches, ruleOf, rows, plan, told, inherited>>
    BY <1>4 DEF ReadWatches, store, history
  <2> QED BY <2>1 DEF Life, HeldIsWhole, PlanFollows, RowOf
<1>5. ASSUME Done
      PROVE  Life'
  <2>1. phase' = "idle" /\ DOMAIN plan' = {}
    BY <1>5, DoneEffect
  <2> QED BY <2>1 DEF Life, HeldIsWhole, PlanFollows
<1>6. CASE Withhold \/ Crash \/ \E moved \in SUBSET DOMAIN plan : Commit(moved) \/ Rollback(moved)
  BY <1>5, <1>6 DEF Withhold, Crash, Commit, Rollback
<1>7. CASE UNCHANGED vars
  <2>1. UNCHANGED <<ruleOf, rows, phase, held, plan, told, inherited>>
    BY <1>7 DEF vars, store, memory, history
  <2> QED BY <2>1 DEF Life, HeldIsWhole, PlanFollows, RowOf
<1> QED BY <1>1, <1>2, <1>3, <1>4, <1>6, <1>7 DEF Next, Evaluation

LEMMA AlwaysLife == Spec => [](Inv /\ Life)
<1>1. Init => Inv /\ Life
  BY InitInv, InitLife
<1>2. Inv /\ Life /\ [Next]_vars => Inv' /\ Life'
  BY StepKeeps, StepKeepsLife
<1> QED BY <1>1, <1>2, PTL DEF Spec

(***************************************************************************)
(* A rule the evaluation has no row of gets the row it would be created    *)
(* with, and nothing is said of it (the unknown state of alert.go).        *)
(***************************************************************************)
LEMMA UnknownIsSeeded ==
  ASSUME NEW reading \in Readings, NEW prefs \in Prefs
  PROVE  LET out == Evaluate(reading, UnknownRow, prefs)
         IN  out.row = SeedRow(reading) /\ out.kind = "none"
<1>1. UnknownRow.state = "unknown"
  BY DEF UnknownRow
<1>2. CASE reading = "absent"
  BY <1>1, <1>2 DEF Evaluate, FromAbsent, Quiet, Outcome, UnknownRow, SeedRow
<1>3. CASE reading = "over"
  BY <1>1, <1>3 DEF Evaluate, FromUnknown, Silently, Outcome, Adopted, UnknownRow, SeedRow
<1>4. CASE reading = "under"
  BY <1>1, <1>4 DEF Evaluate, FromUnknown, Silently, Outcome, At, UnknownRow, SeedRow
<1> QED BY <1>2, <1>3, <1>4 DEF Readings

(***************************************************************************)
(* What a commit does to one rule: nothing, or what was planned of it.     *)
(***************************************************************************)
LEMMA CommitOnRule ==
  ASSUME Inv, NEW moved \in SUBSET DOMAIN plan, Commit(moved),
         NEW r \in DOMAIN ruleOf, r \notin inherited
  PROVE  \/ /\ RowOf(r)' = RowOf(r) /\ told'[r] = told[r]
            /\ r \in DOMAIN plan => plan[r].out.kind = "none"
         \/ /\ r \in DOMAIN plan /\ plan[r].watch = ruleOf[r] /\ RowOf(r)' = plan[r].out.row
            /\ told'[r] = IF plan[r].out.kind = "none" THEN told[r] ELSE plan[r].out.kind
<1> DEFINE written == Written(moved)
           named   == {x \in DOMAIN plan : plan[x].out.kind # "none" /\ plan[x].live}
<1>1. rows' = Saved(written) /\ ruleOf' = ruleOf
  BY DEF Commit
<1>2. /\ written \in SUBSET DOMAIN plan
      /\ \A x \in DOMAIN plan : plan[x].out.kind # "none" => x \in written
  BY DEF Written, Inv, IInv, PlanIsOutcomes
<1>3. <<ruleOf[r], r>> \in DOMAIN rows /\ r \in DOMAIN told
  BY DEF Inv, IInv, TypeOK, StoreIsWhole
<1>4. told'[r] = IF r \in named THEN plan[r].out.kind ELSE told[r]
  BY <1>3 DEF Commit, Upserted
<1> HIDE DEF written
<1>5. /\ \A x \in written : rows'[<<plan[x].watch, x>>] = plan[x].out.row
      /\ \A k \in DOMAIN rows : k[2] \notin written => rows'[k] = rows[k]
  BY <1>1, <1>2, SavedRows
<1>6. CASE r \in written
  <2>1. r \in DOMAIN plan /\ plan[r].live /\ plan[r].watch = ruleOf[r]
    BY <1>2, <1>6 DEF Inv, IInv, PlanAgrees
  <2>2. RowOf(r)' = plan[r].out.row
    BY <1>1, <1>5, <1>6, <2>1 DEF RowOf
  <2> QED BY <1>4, <2>1, <2>2
<1>7. CASE r \notin written
  <2>1. RowOf(r)' = RowOf(r)
    BY <1>1, <1>3, <1>5, <1>7 DEF RowOf
  <2>2. r \in DOMAIN plan => plan[r].out.kind = "none"
    BY <1>2, <1>7
  <2> QED BY <1>4, <2>1, <2>2
<1> QED BY <1>6, <1>7

LEMMA OnlyEditsAndCommits ==
  ASSUME [Next]_vars, ~Edit, ~\E moved \in SUBSET DOMAIN plan : Commit(moved)
  PROVE  UNCHANGED <<ruleOf, rows, told, inherited>>
  BY DEF Next, Evaluation, ReadWatches, ReadStates, ReadRules, Withhold, Rollback, Crash,
         vars, store, history

(***************************************************************************)
(* Every rule lives as if it were alone and each poll judged it at once    *)
(* (evaluate of poller.go, Evaluate of alert.go): of reads that straddle   *)
(* other transactions, of late writes, crashes and rollbacks, nothing      *)
(* shows in its row and its messages.                                      *)
(***************************************************************************)
THEOREM AsIfAloneHolds == Spec => AsIfAlone
<1> DEFINE Alone == \A r \in (DOMAIN ruleOf \intersect DOMAIN ruleOf') \ inherited' :
                       ruleOf'[r] = ruleOf[r] /\ JudgedAtOnce(r)
<1>1. Inv /\ Life /\ [Next]_vars => Alone
  <2> SUFFICES ASSUME Inv, Life, [Next]_vars,
                      NEW r \in DOMAIN ruleOf, r \in DOMAIN ruleOf', r \notin inherited'
               PROVE  ruleOf'[r] = ruleOf[r] /\ JudgedAtOnce(r)
    OBVIOUS
  <2>1. ASSUME ruleOf'[r] = ruleOf[r], RowOf(r)' = RowOf(r), told'[r] = told[r]
        PROVE  JudgedAtOnce(r)
    BY <2>1 DEF RowOf, JudgedAtOnce
  <2>2. CASE Edit
    BY <2>1, <2>2, EditEffect DEF EditSpares
  <2>3. ASSUME NEW moved \in SUBSET DOMAIN plan, Commit(moved)
        PROVE  ruleOf'[r] = ruleOf[r] /\ JudgedAtOnce(r)
    <3>1. ruleOf' = ruleOf /\ inherited' = inherited
      BY <2>3 DEF Commit
    <3>2. CASE RowOf(r)' = RowOf(r) /\ told'[r] = told[r]
      BY <2>1, <3>1, <3>2
    <3>3. CASE /\ r \in DOMAIN plan /\ plan[r].watch = ruleOf[r] /\ RowOf(r)' = plan[r].out.row
               /\ told'[r] = IF plan[r].out.kind = "none" THEN told[r] ELSE plan[r].out.kind
      <4> DEFINE out == plan[r].out
      <4>1. FollowsFrom(out, RowOf(r), told[r])
        BY <3>1, <3>3 DEF Life, PlanFollows
      <4>2. PICK reading \in Readings, prefs \in Prefs :
               \/ out = Evaluate(reading, RowOf(r), prefs)
               \/ told[r] = "none" /\ out = Evaluate(reading, UnknownRow, prefs)
        BY <4>1 DEF FollowsFrom
      <4>3. rows'[<<ruleOf[r], r>>] = out.row
        BY <3>1, <3>3 DEF RowOf
      <4>4. told'[r] = IF out.kind = "none" THEN told[r] ELSE out.kind
        BY <3>3
      <4> HIDE DEF out
      <4>5. CASE out = Evaluate(reading, RowOf(r), prefs)
        BY <3>1, <4>3, <4>4, <4>5 DEF JudgedAtOnce, RowOf
      <4>6. CASE told[r] = "none" /\ out = Evaluate(reading, UnknownRow, prefs)
        <5>1. out.row = SeedRow(reading) /\ out.kind = "none"
          BY <4>6, UnknownIsSeeded
        <5> QED BY <3>1, <4>3, <4>4, <4>6, <5>1 DEF JudgedAtOnce
      <4> QED BY <4>2, <4>5, <4>6
    <3> QED BY <2>3, <3>1, <3>2, <3>3, CommitOnRule
  <2>4. CASE UNCHANGED <<ruleOf, rows, told, inherited>>
    BY <2>1, <2>4 DEF RowOf
  <2> QED BY <2>2, <2>3, <2>4, OnlyEditsAndCommits
<1>2. Inv /\ Life /\ [Next]_vars => [Alone]_vars
  BY <1>1
<1> QED BY <1>2, AlwaysLife, PTL DEF Spec, AsIfAlone

-------------------------------------------------------------------------------
(***************************************************************************)
(* The promise of alert.go, rule by rule.                                  *)
(***************************************************************************)
BeliefOf(state) ==
    IF state = "unknown" THEN "unknown"
    ELSE IF state \in {"ok", "pending"} THEN "up" ELSE "down"

\* An outcome that says something is a change of belief in that direction, and
\* nobody hears of a recovery whose outage was not counted.
Promising(out, row) ==
    /\ out.kind = "alert" => BeliefOf(row.state) = "up" /\ BeliefOf(out.row.state) = "down"
    /\ out.kind = "recovered" =>
          /\ BeliefOf(row.state) = "down" /\ BeliefOf(out.row.state) = "up"
          /\ row.notifyCount > 0

LEMMA SilentIsPromising ==
  ASSUME NEW row, NEW x
  PROVE  Promising(Quiet(x), row) /\ Promising(Silently(x), row)
  BY DEF Promising, Quiet, Silently, Outcome

LEMMA PromoteIsPromising ==
  ASSUME NEW row \in Rows, NEW x \in Rows, NEW p \in Prefs, BeliefOf(row.state) = "up"
  PROVE  Promising(Promote(x, p), row)
<1>1. Down(x) \in Rows /\ Counted(Down(x)).state = "alerting"
  BY DownRow, CountedRow
<1> QED BY <1>1 DEF Promote, Outcome, Promising, BeliefOf

LEMMA RecoverIsPromising ==
  ASSUME NEW row \in Rows, NEW x \in Rows, NEW p \in Prefs, BeliefOf(row.state) = "down",
         x.notifyCount = row.notifyCount
  PROVE  Promising(Recover(x, p), row)
<1>1. Up(x).state = "ok" /\ row.notifyCount \in Nat
  BY UpRow DEF Rows
<1> QED BY <1>1 DEF Recover, Silently, Outcome, Promising, BeliefOf

LEMMA EvaluateIsPromising ==
  ASSUME NEW reading \in Readings, NEW row \in Rows, NEW p \in Prefs
  PROVE  Promising(Evaluate(reading, row, p), row)
<1> DEFINE Counting == {x \in Rows : x.notifyCount = row.notifyCount}
<1>1. \A x : Promising(Quiet(x), row) /\ Promising(Silently(x), row)
  BY SilentIsPromising
<1>2. \A s \in States, c \in Nat : At(row, s, c) \in Counting
  BY AtRow
<1>3. BeliefOf(row.state) = "up" => \A x \in Counting : Promising(Promote(x, p), row)
  BY PromoteIsPromising
<1>4. BeliefOf(row.state) = "down" => \A x \in Counting : Promising(Recover(x, p), row)
  BY RecoverIsPromising
<1>5. row.consecutive + 1 \in Nat /\ row.state \in States
  BY DEF Rows
<1> HIDE DEF Counting
<1>6. Promising(FromAbsent(row), row) /\ Promising(FromUnknown(row, reading), row)
  BY <1>1 DEF FromAbsent, FromUnknown
<1>7. CASE row.state = "ok"
  <2>1. Promising(FromOk(row, reading, p), row)
    BY <1>1, <1>2, <1>3, <1>7 DEF FromOk, States, BeliefOf
  <2> QED BY <1>6, <1>7, <2>1 DEF Evaluate
<1>8. CASE row.state = "pending"
  <2>1. Promising(FromPending(row, reading, p), row)
    BY <1>1, <1>2, <1>3, <1>5, <1>8 DEF FromPending, States, BeliefOf
  <2> QED BY <1>6, <1>8, <2>1 DEF Evaluate
<1>9. CASE row.state = "alerting"
  <2>1. Promising(FromAlerting(row, reading, p), row)
    BY <1>1, <1>2, <1>4, <1>9 DEF FromAlerting, States, BeliefOf
  <2> QED BY <1>6, <1>9, <2>1 DEF Evaluate
<1>10. CASE row.state = "recovering"
  <2>1. Promising(FromRecovering(row, reading, p), row)
    BY <1>1, <1>2, <1>4, <1>5, <1>10 DEF FromRecovering, States, BeliefOf
  <2> QED BY <1>6, <1>10, <2>1 DEF Evaluate
<1>11. CASE row.state = "unknown"
  BY <1>6, <1>11 DEF Evaluate
<1> QED BY <1>5, <1>7, <1>8, <1>9, <1>10, <1>11 DEF States

(***************************************************************************)
(* What is queued about a rule is the kind of its outcome.                 *)
(***************************************************************************)
SaidIn(messages, r) ==
    LET naming == {m \in messages : r \in m.rules}
    IN  IF naming = {} THEN "none" ELSE (CHOOSE m \in naming : TRUE).kind

LEMMA MessagesSayThePlan ==
  ASSUME NEW p, NEW r
  PROVE  SaidIn(Messages(p), r) = IF r \in DOMAIN p THEN p[r].out.kind ELSE "none"
<1> DEFINE naming == {m \in Messages(p) : r \in m.rules}
<1>1. \A m \in naming : r \in DOMAIN p /\ p[r].out.kind = m.kind /\ m.kind # "none"
  BY MessagesNamePlanned
<1>2. ASSUME r \in DOMAIN p, p[r].out.kind # "none"
      PROVE  naming # {}
  <2> DEFINE m == [watch |-> p[r].watch, kind |-> p[r].out.kind,
                   rules |-> {x \in DOMAIN p : p[x].watch = p[r].watch
                                               /\ p[x].out.kind = p[r].out.kind}]
  <2>1. m \in Messages(p)
    <3> DEFINE pair == <<p[r].watch, p[r].out.kind>>
    <3>1. pair \in {<<p[x].watch, p[x].out.kind>> : x \in {y \in DOMAIN p : p[y].out.kind # "none"}}
      BY <1>2
    <3>2. pair[1] = p[r].watch /\ pair[2] = p[r].out.kind
      OBVIOUS
    <3> QED BY <3>1, <3>2 DEF Messages
  <2>2. r \in m.rules
    BY <1>2
  <2> QED BY <2>1, <2>2
<1> HIDE DEF naming
<1>3. CASE naming = {}
  BY <1>2, <1>3 DEF naming, SaidIn
<1>4. CASE naming # {}
  <2>1. (CHOOSE m \in naming : TRUE) \in naming
    BY <1>4
  <2>2. r \in DOMAIN p /\ p[r].out.kind = (CHOOSE m \in naming : TRUE).kind
    BY <1>1, <2>1
  <2> QED BY <1>4, <2>2 DEF naming, SaidIn
<1> QED BY <1>3, <1>4

(***************************************************************************)
(* The poller implements Announcements for every rule, for as long as the  *)
(* rule lives: nobody hears twice of one change of belief, or of the       *)
(* recovery from an outage that was kept from them, whatever is edited,    *)
(* rolled back or restarted in between (the package comment of alert.go).  *)
(***************************************************************************)
THEOREM EveryPromiseIsKeptHolds == Spec => EveryPromiseIsKept
<1> DEFINE Kept == \A r \in (DOMAIN ruleOf \intersect DOMAIN ruleOf') \ inherited' :
                      [Promise(r)!Next]_(<<Belief(r), Said(r), told[r]>>)
<1>1. Inv /\ Life /\ [Next]_vars => Kept
  <2> SUFFICES ASSUME Inv, Life, [Next]_vars,
                      NEW r \in DOMAIN ruleOf, r \in DOMAIN ruleOf', r \notin inherited'
               PROVE  \/ Promise(r)!Next
                      \/ UNCHANGED <<Belief(r), Said(r), told[r]>>
    OBVIOUS
  <2>1. Belief(r) = BeliefOf(RowOf(r).state) /\ Belief(r)' = BeliefOf((RowOf(r)').state)
    BY DEF Belief, BeliefOf, RowOf
  <2>2. Belief(r) \in Promise(r)!Beliefs /\ Belief(r)' \in Promise(r)!Beliefs
    BY <2>1 DEF BeliefOf, Promise!Beliefs
  <2>3. ASSUME RowOf(r)' = RowOf(r), queued' = queued, told'[r] = told[r]
        PROVE  UNCHANGED <<Belief(r), Said(r), told[r]>>
    BY <2>1, <2>3 DEF Said
  <2>4. ASSUME RowOf(r)' = RowOf(r), Said(r)' = "none", told'[r] = told[r]
        PROVE  Promise(r)!Next
    <3>1. Belief(r)' = Belief(r)
      BY <2>1, <2>4
    <3> QED BY <2>2, <2>4, <3>1 DEF Promise!Next, Promise!Silence, Promise!Says
  <2>5. CASE Edit
    <3>1. RowOf(r)' = RowOf(r) /\ told'[r] = told[r] /\ queued' = queued
      BY <2>5, EditEffect DEF EditSpares
    <3> QED BY <2>3, <3>1
  <2>6. CASE ReadWatches
    <3>1. UNCHANGED <<ruleOf, rows, told>> /\ queued' = {}
      BY <2>6 DEF ReadWatches, store, history
    <3>2. Said(r)' = "none"
      BY <3>1 DEF Said
    <3> QED BY <2>4, <3>1, <3>2 DEF RowOf
  <2>7. CASE ReadStates \/ ReadRules \/ Withhold \/ Crash \/ UNCHANGED vars
    <3>1. UNCHANGED <<ruleOf, rows, told, queued>>
      BY <2>7 DEF ReadStates, ReadRules, Withhold, Crash, vars, store, history
    <3> QED BY <2>3, <3>1 DEF RowOf
  <2>8. ASSUME NEW moved \in SUBSET DOMAIN plan, Rollback(moved)
        PROVE  UNCHANGED <<Belief(r), Said(r), told[r]>>
    <3>1. UNCHANGED <<ruleOf, rows, told, queued>>
      BY <2>8 DEF Rollback, store, history
    <3> QED BY <2>3, <3>1 DEF RowOf
  <2>9. ASSUME NEW moved \in SUBSET DOMAIN plan, Commit(moved)
        PROVE  Promise(r)!Next
    <3>1. queued' = Messages(plan) /\ inherited' = inherited
      BY <2>9 DEF Commit
    <3>2. Said(r)' = IF r \in DOMAIN plan THEN plan[r].out.kind ELSE "none"
      <4>1. Said(r)' = SaidIn(queued', r)
        BY DEF Said, SaidIn
      <4> QED BY <3>1, <4>1, MessagesSayThePlan
    <3>3. CASE /\ RowOf(r)' = RowOf(r) /\ told'[r] = told[r]
               /\ r \in DOMAIN plan => plan[r].out.kind = "none"
      <4>1. Said(r)' = "none"
        BY <3>2, <3>3
      <4> QED BY <2>4, <3>3, <4>1
    <3>4. CASE /\ r \in DOMAIN plan /\ plan[r].watch = ruleOf[r] /\ RowOf(r)' = plan[r].out.row
               /\ told'[r] = IF plan[r].out.kind = "none" THEN told[r] ELSE plan[r].out.kind
      <4> DEFINE out == plan[r].out
      <4>1. PICK reading \in Readings, prefs \in Prefs :
               \/ out = Evaluate(reading, RowOf(r), prefs)
               \/ told[r] = "none" /\ out = Evaluate(reading, UnknownRow, prefs)
        BY <3>1, <3>4 DEF Life, PlanFollows, FollowsFrom
      <4>2. RowOf(r) \in Rows /\ (RowOf(r).notifyCount > 0 => told[r] = "alert")
        BY <3>1 DEF RowOf, Inv, IInv, TypeOK, StoreIsWhole, CountedMeansTold
      <4>3. out.kind = "none" \/ Promising(out, RowOf(r))
        <5>1. CASE out = Evaluate(reading, RowOf(r), prefs)
          BY <4>2, <5>1, EvaluateIsPromising
        <5>2. CASE out = Evaluate(reading, UnknownRow, prefs)
          BY <5>2, UnknownIsSeeded
        <5> QED BY <4>1, <5>1, <5>2
      <4>4. out.kind \in Kinds
        BY <3>4 DEF Inv, TypeOK, Planned, Outcomes
      <4>5. Said(r)' = out.kind /\ Belief(r)' = BeliefOf(out.row.state)
        BY <2>1, <3>2, <3>4
      <4>6. told'[r] = IF Said(r)' = "none" THEN told[r] ELSE Said(r)'
        BY <3>4, <4>5
      <4> HIDE DEF out
      <4>7. CASE out.kind = "none"
        BY <2>2, <4>5, <4>6, <4>7
           DEF Promise!Next, Promise!GoesDown, Promise!ComesBack, Promise!Silence, Promise!Says,
               Promise!Beliefs
      <4>8. CASE out.kind = "alert"
        BY <2>1, <4>3, <4>5, <4>6, <4>8
           DEF Promising, Promise!Next, Promise!GoesDown, Promise!Says
      <4>9. CASE out.kind = "recovered"
        BY <2>1, <4>2, <4>3, <4>5, <4>6, <4>9
           DEF Promising, Promise!Next, Promise!ComesBack, Promise!Says
      <4> QED BY <4>4, <4>7, <4>8, <4>9 DEF Kinds
    <3> QED BY <2>9, <3>1, <3>3, <3>4, CommitOnRule
  <2> QED BY <2>5, <2>6, <2>7, <2>8, <2>9 DEF Next, Evaluation
<1>2. Inv /\ Life /\ [Next]_vars => [Kept]_vars
  BY <1>1
<1> QED BY <1>2, AlwaysLife, PTL DEF Spec, EveryPromiseIsKept

===============================================================================
