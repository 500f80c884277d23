------------------------ MODULE AlertLifecycle_proofs ------------------------
(***************************************************************************)
(* AlertLifecycle for every ConfirmPolls and every MaxNotify: types, the   *)
(* inductive invariant, and from it the four safety properties.            *)
(***************************************************************************)
EXTENDS AlertLifecycle, TLAPS

-------------------------------------------------------------------------------
(***************************************************************************)
(* What Evaluate's operators return, for every row, reading and            *)
(* preference.                                                             *)
(***************************************************************************)
\* A crossing is never confirmed by fewer than one poll.
LEMMA ConfirmType == Confirm \in Nat /\ Confirm >= 1
  BY ConfirmPollsAssumption DEF Confirm

(***************************************************************************)
(* The five ways a row is rewritten: each gives a row, with these fields.  *)
(***************************************************************************)
LEMMA AtRow ==
  ASSUME NEW r \in Rows, NEW s \in States, NEW c \in Nat
  PROVE  /\ At(r, s, c) \in Rows
         /\ At(r, s, c).state = s /\ At(r, s, c).consecutive = c
         /\ At(r, s, c).notifyCount = r.notifyCount /\ At(r, s, c).seeded = r.seeded
  BY DEF At, Rows

\* The rows that count, at a count n.
LEMMA CountingRow ==
  ASSUME NEW r \in Rows, NEW n \in Nat
  PROVE  /\ At(r, "pending", n) \in Rows
         /\ At(r, "pending", n).state = "pending" /\ At(r, "pending", n).consecutive = n
         /\ At(r, "pending", n).notifyCount = r.notifyCount
         /\ At(r, "pending", n).seeded = r.seeded
         /\ At(r, "recovering", n) \in Rows
         /\ At(r, "recovering", n).state = "recovering" /\ At(r, "recovering", n).consecutive = n
         /\ At(r, "recovering", n).notifyCount = r.notifyCount
         /\ At(r, "recovering", n).seeded = r.seeded
<1>1. "pending" \in States /\ "recovering" \in States
  BY DEF States
<1> QED BY <1>1, AtRow

LEMMA DownRow ==
  ASSUME NEW r \in Rows
  PROVE  /\ Down(r) \in Rows
         /\ Down(r).state = "alerting" /\ Down(r).consecutive = 0
         /\ Down(r).notifyCount = r.notifyCount /\ Down(r).seeded = FALSE
  BY DEF Down, Rows, States

LEMMA CountedRow ==
  ASSUME NEW r \in Rows
  PROVE  /\ Counted(r) \in Rows
         /\ Counted(r).state = r.state /\ Counted(r).consecutive = r.consecutive
         /\ Counted(r).notifyCount = r.notifyCount + 1 /\ Counted(r).seeded = r.seeded
  BY DEF Counted, Rows, States

LEMMA AdoptedRow ==
  ASSUME NEW r \in Rows
  PROVE  /\ Adopted(r) \in Rows
         /\ Adopted(r).state = "alerting" /\ Adopted(r).consecutive = 0
         /\ Adopted(r).notifyCount = 0 /\ Adopted(r).seeded = TRUE
  BY DEF Adopted, Rows, States

LEMMA UpRow ==
  ASSUME NEW r \in Rows
  PROVE  /\ Up(r) \in Rows
         /\ Up(r).state = "ok" /\ Up(r).consecutive = 0
         /\ Up(r).notifyCount = 0 /\ Up(r).seeded = FALSE
  BY DEF Up, Rows, States

(***************************************************************************)
(* A promotion raises the count exactly when it says "alert"; a recovery   *)
(* says "recovered" over a count that is not zero, muting and settings     *)
(* allowing, and never else.                                               *)
(***************************************************************************)
LEMMA PromoteEffect ==
  ASSUME NEW r \in Rows, NEW p \in Prefs
  PROVE  /\ Promote(r, p).row \in Rows
         /\ Promote(r, p).row.state = "alerting" /\ Promote(r, p).row.consecutive = 0
         /\ Promote(r, p).row.seeded = FALSE /\ Promote(r, p).entering = TRUE
         /\ \/ Promote(r, p).kind = "none" /\ Promote(r, p).row.notifyCount = r.notifyCount
            \/ Promote(r, p).kind = "alert" /\ Promote(r, p).row.notifyCount = r.notifyCount + 1
<1>1. CASE p.muted
  BY <1>1, DownRow DEF Promote, Outcome
<1>2. CASE ~p.muted
  <2>1. /\ Down(r) \in Rows /\ Down(r).state = "alerting" /\ Down(r).consecutive = 0
        /\ Down(r).notifyCount = r.notifyCount /\ Down(r).seeded = FALSE
    BY DownRow
  <2>2. /\ Counted(Down(r)) \in Rows
        /\ Counted(Down(r)).state = Down(r).state
        /\ Counted(Down(r)).consecutive = Down(r).consecutive
        /\ Counted(Down(r)).notifyCount = Down(r).notifyCount + 1
        /\ Counted(Down(r)).seeded = Down(r).seeded
    BY <2>1, CountedRow
  <2>3. Promote(r, p) = Outcome(Counted(Down(r)), TRUE, TRUE, "alert")
    BY <1>2 DEF Promote
  <2>4. /\ Promote(r, p).row = Counted(Down(r)) /\ Promote(r, p).kind = "alert"
        /\ Promote(r, p).entering = TRUE
    BY <2>3 DEF Outcome
  <2> QED BY <2>1, <2>2, <2>4
<1> QED BY <1>1, <1>2

LEMMA RecoverEffect ==
  ASSUME NEW r \in Rows, NEW p \in Prefs
  PROVE  /\ Recover(r, p).row \in Rows
         /\ Recover(r, p).row.state = "ok" /\ Recover(r, p).row.consecutive = 0
         /\ Recover(r, p).row.notifyCount = 0 /\ Recover(r, p).row.seeded = FALSE
         /\ Recover(r, p).kind \in {"none", "recovered"}
         /\ Recover(r, p).kind = "recovered" <=> r.notifyCount # 0 /\ ~p.muted /\ p.notifyRecovery
<1>1. CASE p.muted \/ r.notifyCount = 0 \/ ~p.notifyRecovery
  BY <1>1, UpRow DEF Recover, Silently, Outcome
<1>2. CASE ~(p.muted \/ r.notifyCount = 0 \/ ~p.notifyRecovery)
  BY <1>2, UpRow DEF Recover, Outcome
<1> QED BY <1>1, <1>2

(***************************************************************************)
(* Evaluate returns a row and a message, for every reading and every row.  *)
(***************************************************************************)
LEMMA EvaluateType ==
  ASSUME NEW reading \in Readings, NEW r \in Rows, NEW p \in Prefs
  PROVE  /\ Evaluate(reading, r, p).row \in Rows
         /\ Evaluate(reading, r, p).kind \in Kinds
<1> DEFINE Typed(out) == out.row \in Rows /\ out.kind \in Kinds
<1>1. \A x \in Rows : Typed(Quiet(x)) /\ Typed(Silently(x))
  BY DEF Quiet, Silently, Outcome, Kinds
<1>2. ASSUME NEW x \in Rows
      PROVE  Typed(Promote(x, p)) /\ Typed(Recover(x, p))
  <2>1. Promote(x, p).row \in Rows /\ Promote(x, p).kind \in {"none", "alert"}
    BY PromoteEffect
  <2>2. Recover(x, p).row \in Rows /\ Recover(x, p).kind \in {"none", "recovered"}
    BY RecoverEffect
  <2> QED BY <2>1, <2>2 DEF Kinds
<1>3. \A s \in States, c \in Nat : At(r, s, c) \in Rows
  BY AtRow
<1>4. r.consecutive + 1 \in Nat
  BY DEF Rows
<1>5. Typed(FromAbsent(r))
  BY <1>1, <1>3 DEF FromAbsent, States
<1>6. Typed(FromUnknown(r, reading))
  BY <1>1, <1>3, AdoptedRow DEF FromUnknown, States
<1>7. Typed(FromOk(r, reading, p))
  BY <1>1, <1>2, <1>3 DEF FromOk, States
<1>8. Typed(FromPending(r, reading, p))
  BY <1>1, <1>2, <1>3, <1>4 DEF FromPending, States
<1>9. Typed(FromAlerting(r, reading, p))
  BY <1>1, <1>2, <1>3 DEF FromAlerting, States
<1>10. Typed(FromRecovering(r, reading, p))
  BY <1>1, <1>2, <1>3, <1>4 DEF FromRecovering, States
<1> QED BY <1>5, <1>6, <1>7, <1>8, <1>9, <1>10 DEF Evaluate

-------------------------------------------------------------------------------

(***************************************************************************)
(* Spec keeps every variable in its type: TypeOK.                          *)
(***************************************************************************)
THEOREM TypeCorrect == Spec => []TypeOK
<1>1. Init => TypeOK
  <2> SUFFICES ASSUME Init
               PROVE  TypeOK
    OBVIOUS
  <2>1. PICK seed \in Readings :
          /\ row = SeedRow(seed)
          /\ input = [reading |-> seed, prefs |-> [muted |-> FALSE, notifyRecovery |-> TRUE]]
    BY DEF Init
  <2>2. row \in Rows
    BY <2>1 DEF SeedRow, Rows, States, Readings
  <2>3. input \in Inputs
    BY <2>1 DEF Inputs, Prefs
  <2>4. overRun \in 0..Confirm /\ underRun \in 0..Confirm /\ alerts \in Nat /\ turn \in {0, 1}
    BY ConfirmType DEF Init
  <2> QED BY <2>2, <2>3, <2>4 DEF Init, TypeOK, Kinds
<1>2. TypeOK /\ [Next]_vars => TypeOK'
  <2> SUFFICES ASSUME TypeOK, [Next]_vars
               PROVE  TypeOK'
    OBVIOUS
  <2>1. ASSUME NEW in \in Inputs, Poll(in)
        PROVE  TypeOK'
    <3>1. /\ Evaluate(in.reading, row, in.prefs).row \in Rows
          /\ Evaluate(in.reading, row, in.prefs).kind \in Kinds
      BY EvaluateType DEF Inputs, TypeOK
    <3>2. row' \in Rows /\ said' \in Kinds /\ told' \in Kinds /\ input' \in Inputs
      BY <2>1, <3>1 DEF Poll, TypeOK
    <3>3. announced' \in BOOLEAN /\ lost' \in BOOLEAN
      BY <2>1 DEF Poll, TypeOK
    <3>4. overRun' \in 0..Confirm /\ underRun' \in 0..Confirm /\ alerts' \in Nat
      BY <2>1, ConfirmType DEF Poll, TypeOK, Longer
    <3>5. turn' \in {0, 1}
      BY <2>1 DEF Poll, TypeOK
    <3> QED BY <3>2, <3>3, <3>4, <3>5 DEF TypeOK
  <2>2. CASE UNCHANGED vars
    BY <2>2 DEF vars, TypeOK
  <2> QED BY <2>1, <2>2 DEF Next
<1> QED BY <1>1, <1>2, PTL DEF Spec

-------------------------------------------------------------------------------
(***************************************************************************)
(* What one evaluation does to the fields the invariants speak of, from    *)
(* each state, read off Evaluate once.                                     *)
(***************************************************************************)
LEMMA AbsentEffect ==
  ASSUME NEW r \in Rows, NEW p \in Prefs, NEW out, out = Evaluate("absent", r, p)
  PROVE  /\ out.kind = "none" /\ out.row.state = "unknown"
         /\ out.row.consecutive = IF r.state = "unknown" THEN r.consecutive ELSE 0
         /\ out.row.notifyCount = r.notifyCount /\ out.row.seeded = r.seeded
<1>1. At(r, "unknown", 0).state = "unknown" /\ At(r, "unknown", 0).consecutive = 0
      /\ At(r, "unknown", 0).notifyCount = r.notifyCount /\ At(r, "unknown", 0).seeded = r.seeded
  BY AtRow DEF States
<1>2. out.kind = "none" /\ out.row = IF r.state = "unknown" THEN r ELSE At(r, "unknown", 0)
  BY DEF Evaluate, FromAbsent, Quiet, Silently, Outcome
<1> QED BY <1>1, <1>2

LEMMA UnknownEffect ==
  ASSUME NEW reading \in {"over", "under"}, NEW r \in Rows, NEW p \in Prefs,
         r.state = "unknown", NEW out, out = Evaluate(reading, r, p)
  PROVE  /\ out.kind = "none" /\ out.row.consecutive = 0
         /\ reading = "over" => out.row.state = "alerting" /\ out.row.notifyCount = 0
         /\ reading = "under" => /\ out.row.state = "ok" /\ out.row.seeded = r.seeded
                                 /\ out.row.notifyCount = r.notifyCount
<1>1. At(r, "ok", 0).state = "ok" /\ At(r, "ok", 0).consecutive = 0
      /\ At(r, "ok", 0).notifyCount = r.notifyCount /\ At(r, "ok", 0).seeded = r.seeded
  BY AtRow DEF States
<1>2. Adopted(r).state = "alerting" /\ Adopted(r).consecutive = 0 /\ Adopted(r).notifyCount = 0
  BY AdoptedRow
<1>3. out = FromUnknown(r, reading)
  BY DEF Evaluate
<1>4. out.kind = "none" /\ out.row = IF reading = "over" THEN Adopted(r) ELSE At(r, "ok", 0)
  BY <1>3 DEF FromUnknown, Silently, Outcome
<1> QED BY <1>1, <1>2, <1>4

(***************************************************************************)
(* A state that counts towards down (ok, pending) or towards up (alerting, *)
(* recovering).  Reached is the count the poll arrives at, and Fallen and  *)
(* Risen are the three things it can come to.                              *)
(***************************************************************************)
Reached(r, from) == IF r.state = from THEN 1 ELSE r.consecutive + 1

Keeps(r, out) == out.row.notifyCount = r.notifyCount /\ out.row.seeded = r.seeded

Fallen(reading, r, n, out) ==
    \/ /\ reading = "under" /\ out.kind = "none" /\ Keeps(r, out)
       /\ out.row.state = "ok" /\ out.row.consecutive = 0
    \/ /\ reading = "over" /\ n < Confirm /\ out.kind = "none" /\ Keeps(r, out)
       /\ out.row.state = "pending" /\ out.row.consecutive = n
    \/ /\ reading = "over" /\ n >= Confirm
       /\ out.row.state = "alerting" /\ out.row.consecutive = 0 /\ out.row.seeded = FALSE
       /\ out.entering = TRUE
       /\ \/ out.kind = "none" /\ out.row.notifyCount = r.notifyCount
          \/ out.kind = "alert" /\ out.row.notifyCount = r.notifyCount + 1

Risen(reading, r, p, n, out) ==
    \/ /\ reading = "over" /\ out.kind = "none" /\ Keeps(r, out) /\ out.entering = FALSE
       /\ out.row.state = "alerting" /\ out.row.consecutive = 0
    \/ /\ reading = "under" /\ n < Confirm /\ out.kind = "none" /\ Keeps(r, out)
       /\ out.entering = FALSE
       /\ out.row.state = "recovering" /\ out.row.consecutive = n
    \/ /\ reading = "under" /\ n >= Confirm
       /\ out.row.state = "ok" /\ out.row.consecutive = 0 /\ out.row.seeded = FALSE
       /\ out.row.notifyCount = 0
       /\ out.kind \in {"none", "recovered"}
       /\ out.kind = "recovered" <=> r.notifyCount # 0 /\ ~p.muted /\ p.notifyRecovery

LEMMA FallingEffect ==
  ASSUME NEW reading \in {"over", "under"}, NEW r \in Rows, NEW p \in Prefs,
         r.state \in {"ok", "pending"}, NEW out, out = Evaluate(reading, r, p)
  PROVE  Fallen(reading, r, Reached(r, "ok"), out)
<1>0. PICK n \in Nat : n = Reached(r, "ok")
  BY DEF Reached, Rows
<1>1. At(r, "ok", 0).state = "ok" /\ At(r, "ok", 0).consecutive = 0
      /\ At(r, "ok", 0).notifyCount = r.notifyCount /\ At(r, "ok", 0).seeded = r.seeded
  BY AtRow DEF States
<1>2. PICK c \in Rows :
        /\ c = At(r, "pending", n) /\ c.state = "pending" /\ c.consecutive = n
        /\ c.notifyCount = r.notifyCount /\ c.seeded = r.seeded
  <2>1. /\ At(r, "pending", n) \in Rows
        /\ At(r, "pending", n).state = "pending" /\ At(r, "pending", n).consecutive = n
        /\ At(r, "pending", n).notifyCount = r.notifyCount /\ At(r, "pending", n).seeded = r.seeded
    BY CountingRow
  <2> QED BY <2>1, Zenon
<1>3. out = IF r.state = "ok" THEN FromOk(r, reading, p) ELSE FromPending(r, reading, p)
  BY DEF Evaluate
<1>4. CASE reading = "under"
  <2>1. out.kind = "none" /\ out.row = At(r, "ok", 0)
    BY <1>3, <1>4 DEF FromOk, FromPending, Quiet, Silently, Outcome
  <2> QED BY <1>0, <1>1, <1>4, <2>1 DEF Fallen, Keeps
<1>5. CASE reading = "over" /\ n < Confirm
  <2>1. out = Silently(c)
    BY <1>0, <1>2, <1>3, <1>5, ConfirmType DEF Reached, FromOk, FromPending
  <2>2. out.kind = "none" /\ out.row = c
    BY <2>1 DEF Silently, Outcome
  <2> QED BY <1>0, <1>2, <1>5, <2>2 DEF Fallen, Keeps
<1>6. CASE reading = "over" /\ n >= Confirm
  <2>1. out = Promote(c, p)
    BY <1>0, <1>2, <1>3, <1>6, ConfirmType DEF Reached, FromOk, FromPending
  <2>2. /\ Promote(c, p).row.state = "alerting" /\ Promote(c, p).row.consecutive = 0
        /\ Promote(c, p).row.seeded = FALSE /\ Promote(c, p).entering = TRUE
        /\ \/ Promote(c, p).kind = "none" /\ Promote(c, p).row.notifyCount = c.notifyCount
           \/ Promote(c, p).kind = "alert" /\ Promote(c, p).row.notifyCount = c.notifyCount + 1
    BY <1>2, PromoteEffect
  <2> QED BY <1>0, <1>2, <1>6, <2>1, <2>2 DEF Fallen
<1>7. n < Confirm \/ n >= Confirm
  BY ConfirmType
<1> QED BY <1>4, <1>5, <1>6, <1>7

LEMMA RisingEffect ==
  ASSUME NEW reading \in {"over", "under"}, NEW r \in Rows, NEW p \in Prefs,
         r.state \in {"alerting", "recovering"}, NEW out, out = Evaluate(reading, r, p)
  PROVE  Risen(reading, r, p, Reached(r, "alerting"), out)
<1>0. PICK n \in Nat : n = Reached(r, "alerting")
  BY DEF Reached, Rows
<1>1. At(r, "alerting", 0).state = "alerting" /\ At(r, "alerting", 0).consecutive = 0
      /\ At(r, "alerting", 0).notifyCount = r.notifyCount /\ At(r, "alerting", 0).seeded = r.seeded
  BY AtRow DEF States
<1>2. PICK c \in Rows :
        /\ c = At(r, "recovering", n) /\ c.state = "recovering" /\ c.consecutive = n
        /\ c.notifyCount = r.notifyCount /\ c.seeded = r.seeded
  <2>1. /\ At(r, "recovering", n) \in Rows
        /\ At(r, "recovering", n).state = "recovering" /\ At(r, "recovering", n).consecutive = n
        /\ At(r, "recovering", n).notifyCount = r.notifyCount /\ At(r, "recovering", n).seeded = r.seeded
    BY CountingRow
  <2> QED BY <2>1, Zenon
<1>3. out = IF r.state = "alerting" THEN FromAlerting(r, reading, p)
            ELSE FromRecovering(r, reading, p)
  BY DEF Evaluate
<1>4. CASE reading = "over"
  <2>1. out.kind = "none" /\ out.row = At(r, "alerting", 0) /\ out.entering = FALSE
    BY <1>3, <1>4 DEF FromAlerting, FromRecovering, Quiet, Silently, Outcome
  <2> QED BY <1>0, <1>1, <1>4, <2>1 DEF Risen, Keeps
<1>5. CASE reading = "under" /\ n < Confirm
  <2>1. out = Silently(c)
    BY <1>0, <1>2, <1>3, <1>5, ConfirmType DEF Reached, FromAlerting, FromRecovering
  <2>2. out.kind = "none" /\ out.row = c /\ out.entering = FALSE
    BY <2>1 DEF Silently, Outcome
  <2> QED BY <1>0, <1>2, <1>5, <2>2 DEF Risen, Keeps
<1>6. CASE reading = "under" /\ n >= Confirm
  <2>1. out = Recover(c, p)
    BY <1>0, <1>2, <1>3, <1>6, ConfirmType DEF Reached, FromAlerting, FromRecovering
  <2>2. /\ Recover(c, p).row.state = "ok" /\ Recover(c, p).row.consecutive = 0
        /\ Recover(c, p).row.seeded = FALSE /\ Recover(c, p).row.notifyCount = 0
        /\ Recover(c, p).kind \in {"none", "recovered"}
        /\ Recover(c, p).kind = "recovered" <=> c.notifyCount # 0 /\ ~p.muted /\ p.notifyRecovery
    BY <1>2, RecoverEffect
  <2> QED BY <1>0, <1>2, <1>6, <2>1, <2>2 DEF Risen
<1>7. n < Confirm \/ n >= Confirm
  BY ConfirmType
<1> QED BY <1>4, <1>5, <1>6, <1>7

-------------------------------------------------------------------------------
(***************************************************************************)
(* The inductive step, one lemma per reading and side.  Step(out) is what  *)
(* Poll makes of the variables the invariant speaks of.                    *)
(***************************************************************************)
Step(in, out) ==
    /\ row' = out.row
    /\ said' = out.kind
    /\ told' = IF out.kind = "none" THEN told ELSE out.kind
    /\ announced' = IF out.entering \/ (row.state = "unknown" /\ in.reading = "over")
                    THEN out.kind = "alert"
                    ELSE announced
    /\ lost' = \/ InOutage(row) /\ in.reading = "absent" /\ announced
               \/ lost /\ ~(InOutage(row) /\ out.row.state = "ok")
    /\ overRun' = IF in.reading = "over" THEN Longer(overRun) ELSE 0
    /\ underRun' = IF in.reading = "under" THEN Longer(underRun) ELSE 0
    /\ alerts' = IF in.reading = "absent" \/ underRun' = Confirm THEN 0
                 ELSE IF out.kind = "alert" THEN alerts + 1 ELSE alerts

LEMMA PollSteps ==
  ASSUME NEW in \in Inputs, Poll(in)
  PROVE  Step(in, Evaluate(in.reading, row, in.prefs))
BY DEF Poll, Step

\* A poll that cannot judge says nothing and starts every count again.
LEMMA AbsentKeeps ==
  ASSUME TypeOK, IInv, NEW in \in Inputs, in.reading = "absent",
         NEW out, out = Evaluate("absent", row, in.prefs), Step(in, out)
  PROVE  IInv'
<1>1. row \in Rows /\ in.prefs \in Prefs
  BY DEF TypeOK, Inputs
<1>2. /\ out.kind = "none" /\ out.row.state = "unknown"
      /\ out.row.consecutive = IF row.state = "unknown" THEN row.consecutive ELSE 0
      /\ out.row.notifyCount = row.notifyCount /\ out.row.seeded = row.seeded
  BY <1>1, AbsentEffect
<1>3. row' = out.row /\ said' = "none" /\ told' = told
      /\ overRun' = 0 /\ underRun' = 0 /\ alerts' = 0
  BY <1>2 DEF Step
<1>4. CountsAgree'
  BY <1>2, <1>3 DEF CountsAgree, IInv
<1>5. HistoryAgrees'
  <2>1. ~lost' => ~lost /\ ~(InOutage(row) /\ announced)
    BY <1>2 DEF Step
  <2> QED BY <1>2, <1>3, <2>1 DEF HistoryAgrees, IInv, InOutage
<1>6. FlapGuard' /\ OneAlertPerOutage'
  BY <1>3 DEF FlapGuard, OneAlertPerOutage
<1> QED BY <1>4, <1>5, <1>6 DEF IInv

\* The first reading after none.
LEMMA UnknownKeeps ==
  ASSUME TypeOK, IInv, NEW in \in Inputs, in.reading \in {"over", "under"},
         row.state = "unknown",
         NEW out, out = Evaluate(in.reading, row, in.prefs), Step(in, out)
  PROVE  IInv'
<1>1. row \in Rows /\ in.prefs \in Prefs
  BY DEF TypeOK, Inputs
<1>2. /\ out.kind = "none" /\ out.row.consecutive = 0
      /\ in.reading = "over" => out.row.state = "alerting" /\ out.row.notifyCount = 0
      /\ in.reading = "under" => /\ out.row.state = "ok" /\ out.row.seeded = row.seeded
                                 /\ out.row.notifyCount = row.notifyCount
  BY <1>1, UnknownEffect
<1>3. row' = out.row /\ said' = "none" /\ told' = told
  BY <1>2 DEF Step
<1>4. alerts = 0 /\ alerts' = 0
  BY <1>2 DEF IInv, HistoryAgrees, Step, InOutage
<1>5. (in.reading = "over" => underRun' = 0) /\ (in.reading = "under" => overRun' = 0)
  BY DEF Step
<1>6. CountsAgree'
  BY <1>2, <1>3, <1>5 DEF CountsAgree
<1>7. HistoryAgrees'
  <2>1. lost' = lost /\ (in.reading = "over" => announced' = FALSE)
    BY <1>2 DEF Step, InOutage, TypeOK
  <2> QED BY <1>2, <1>3, <1>4, <2>1 DEF HistoryAgrees, IInv, InOutage
<1>8. FlapGuard' /\ OneAlertPerOutage'
  BY <1>3, <1>4 DEF FlapGuard, OneAlertPerOutage
<1> QED BY <1>6, <1>7, <1>8 DEF IInv

\* Up, or on the way down.
LEMMA FallingKeeps ==
  ASSUME TypeOK, IInv, NEW in \in Inputs, in.reading \in {"over", "under"},
         row.state \in {"ok", "pending"},
         NEW out, out = Evaluate(in.reading, row, in.prefs), Step(in, out)
  PROVE  IInv'
<1>1. row \in Rows /\ in.prefs \in Prefs /\ row.consecutive \in Nat /\ row.notifyCount \in Nat
  BY DEF TypeOK, Inputs, Rows
<1>2. PICK n \in Nat : n = Reached(row, "ok")
  BY <1>1 DEF Reached
<1>3. overRun \in Nat /\ overRun < Confirm /\ n = overRun + 1 /\ n <= Confirm
  BY <1>1, <1>2, ConfirmType DEF IInv, CountsAgree, Reached
<1>4. /\ alerts = 0 /\ (row.notifyCount > 0 => told = "alert")
      /\ lost' = lost /\ (~lost => ~(row.notifyCount > 0))
  BY DEF IInv, HistoryAgrees, InOutage, Step, TypeOK
<1>5. in.reading = "over" => overRun' = n /\ underRun' = 0 /\ underRun' # Confirm
  BY <1>3, ConfirmType DEF Step, Longer
<1>6. in.reading = "under" => overRun' = 0
  BY DEF Step
<1>7. row' = out.row /\ said' = out.kind
      /\ told' = (IF out.kind = "none" THEN told ELSE out.kind)
  BY DEF Step
<1>8. out.kind # "alert" => alerts' = 0
  BY <1>4 DEF Step
<1>9. out.kind = "alert" => alerts' \in {0, 1}
  BY <1>4 DEF Step
<1>10. CASE /\ in.reading = "under" /\ out.kind = "none"
            /\ out.row.state = "ok" /\ out.row.consecutive = 0
            /\ out.row.notifyCount = row.notifyCount /\ out.row.seeded = row.seeded
  <2>1. CountsAgree'
    BY <1>6, <1>7, <1>10 DEF CountsAgree
  <2>2. HistoryAgrees'
    BY <1>4, <1>7, <1>8, <1>10 DEF HistoryAgrees, InOutage
  <2>3. FlapGuard' /\ OneAlertPerOutage'
    BY <1>7, <1>8, <1>10 DEF FlapGuard, OneAlertPerOutage
  <2> QED BY <2>1, <2>2, <2>3 DEF IInv
<1>11. CASE /\ in.reading = "over" /\ n < Confirm /\ out.kind = "none"
            /\ out.row.state = "pending" /\ out.row.consecutive = n
            /\ out.row.notifyCount = row.notifyCount /\ out.row.seeded = row.seeded
  <2>1. CountsAgree'
    BY <1>3, <1>5, <1>7, <1>11, ConfirmType DEF CountsAgree
  <2>2. HistoryAgrees'
    BY <1>4, <1>7, <1>8, <1>11 DEF HistoryAgrees, InOutage
  <2>3. FlapGuard' /\ OneAlertPerOutage'
    BY <1>7, <1>8, <1>11 DEF FlapGuard, OneAlertPerOutage
  <2> QED BY <2>1, <2>2, <2>3 DEF IInv
<1>12. CASE /\ in.reading = "over" /\ n >= Confirm
            /\ out.row.state = "alerting" /\ out.row.consecutive = 0 /\ out.row.seeded = FALSE
            /\ out.entering = TRUE
            /\ \/ out.kind = "none" /\ out.row.notifyCount = row.notifyCount
               \/ out.kind = "alert" /\ out.row.notifyCount = row.notifyCount + 1
  <2>1. CountsAgree'
    BY <1>5, <1>7, <1>12 DEF CountsAgree
  <2>2. overRun' = Confirm
    BY <1>3, <1>5, <1>12, ConfirmType
  <2>3. announced' = (out.kind = "alert")
    BY <1>12 DEF Step
  <2>4. HistoryAgrees'
    <3>1. InOutage(row)' /\ row'.state = "alerting"
      BY <1>7, <1>12 DEF InOutage
    <3>2. row'.notifyCount > 0 => told' = "alert"
      BY <1>1, <1>4, <1>7, <1>12
    <3>3. ~lost' => (row'.notifyCount > 0 <=> announced')
      <4>1. out.kind = "alert" => row'.notifyCount > 0
        BY <1>1, <1>7, <1>12
      <4>2. ~lost /\ out.kind # "alert" => ~(row'.notifyCount > 0)
        BY <1>4, <1>7, <1>12
      <4> QED BY <1>4, <2>3, <4>1, <4>2
    <3> QED BY <3>1, <3>2, <3>3 DEF HistoryAgrees
  <2>5. FlapGuard'
    BY <1>7, <1>12, <2>2 DEF FlapGuard
  <2>6. OneAlertPerOutage'
    BY <1>8, <1>9 DEF OneAlertPerOutage
  <2> QED BY <2>1, <2>4, <2>5, <2>6 DEF IInv
<1>13. Fallen(in.reading, row, Reached(row, "ok"), out)
  BY <1>1, FallingEffect
<1> QED BY <1>2, <1>10, <1>11, <1>12, <1>13 DEF Fallen, Keeps

\* Down, or on the way back.
LEMMA RisingKeeps ==
  ASSUME TypeOK, IInv, NEW in \in Inputs, in.reading \in {"over", "under"},
         row.state \in {"alerting", "recovering"},
         NEW out, out = Evaluate(in.reading, row, in.prefs), Step(in, out)
  PROVE  /\ IInv'
         /\ row'.state = "ok" /\ ~lost
              => (said' = "recovered" <=> announced /\ ~in.prefs.muted /\ in.prefs.notifyRecovery)
<1>1. row \in Rows /\ in.prefs \in Prefs /\ row.consecutive \in Nat /\ row.notifyCount \in Nat
      /\ alerts \in Nat
  BY DEF TypeOK, Inputs, Rows
<1>2. PICK n \in Nat : n = Reached(row, "alerting")
  BY <1>1 DEF Reached
<1>3. underRun \in Nat /\ underRun < Confirm /\ n = underRun + 1 /\ n <= Confirm
  BY <1>1, <1>2, ConfirmType DEF IInv, CountsAgree, Reached
<1>4. /\ alerts <= 1 /\ (row.notifyCount > 0 => told = "alert")
      /\ InOutage(row) /\ (~lost => (row.notifyCount > 0 <=> announced))
  BY DEF IInv, HistoryAgrees, OneAlertPerOutage, InOutage
<1>5. in.reading = "under" => underRun' = n
  BY <1>3, ConfirmType DEF Step, Longer
<1>6. in.reading = "over" => underRun' = 0 /\ underRun' # Confirm
  BY ConfirmType DEF Step
<1>7. row' = out.row /\ said' = out.kind
      /\ told' = (IF out.kind = "none" THEN told ELSE out.kind)
  BY DEF Step
<1>8. out.kind # "alert" => alerts' = 0 \/ alerts' = alerts
  BY DEF Step
<1>9. underRun' = Confirm => alerts' = 0
  BY DEF Step
<1>10. CASE /\ in.reading = "over" /\ out.kind = "none"
            /\ out.row.state = "alerting" /\ out.row.consecutive = 0
            /\ out.row.notifyCount = row.notifyCount /\ out.row.seeded = row.seeded
            /\ out.entering = FALSE
  <2>1. CountsAgree'
    BY <1>6, <1>7, <1>10 DEF CountsAgree
  <2>2. HistoryAgrees'
    <3>1. announced' = announced /\ lost' = lost
      BY <1>4, <1>10 DEF Step, InOutage, TypeOK
    <3> QED BY <1>4, <1>7, <1>10, <3>1 DEF HistoryAgrees, InOutage
  <2>3. FlapGuard' /\ OneAlertPerOutage'
    BY <1>1, <1>4, <1>7, <1>8, <1>10 DEF FlapGuard, OneAlertPerOutage
  <2> QED BY <1>7, <1>10, <2>1, <2>2, <2>3 DEF IInv
<1>11. CASE /\ in.reading = "under" /\ n < Confirm /\ out.kind = "none"
            /\ out.row.state = "recovering" /\ out.row.consecutive = n
            /\ out.row.notifyCount = row.notifyCount /\ out.row.seeded = row.seeded
            /\ out.entering = FALSE
  <2>1. CountsAgree'
    BY <1>3, <1>5, <1>7, <1>11, ConfirmType DEF CountsAgree
  <2>2. HistoryAgrees'
    <3>1. announced' = announced /\ lost' = lost
      BY <1>4, <1>11 DEF Step, InOutage, TypeOK
    <3> QED BY <1>4, <1>7, <1>11, <3>1 DEF HistoryAgrees, InOutage
  <2>3. FlapGuard' /\ OneAlertPerOutage'
    BY <1>1, <1>4, <1>7, <1>8, <1>11 DEF FlapGuard, OneAlertPerOutage
  <2> QED BY <1>7, <1>11, <2>1, <2>2, <2>3 DEF IInv
<1>12. CASE /\ in.reading = "under" /\ n >= Confirm
            /\ out.row.state = "ok" /\ out.row.consecutive = 0 /\ out.row.seeded = FALSE
            /\ out.row.notifyCount = 0
            /\ out.kind \in {"none", "recovered"}
            /\ out.kind = "recovered" <=> row.notifyCount # 0 /\ ~in.prefs.muted
                                            /\ in.prefs.notifyRecovery
  <2>1. underRun' = Confirm /\ overRun' = 0
    BY <1>3, <1>5, <1>12, ConfirmType DEF Step
  <2>2. alerts' = 0
    BY <1>9, <2>1
  <2>3. CountsAgree'
    BY <1>7, <1>12, <2>1 DEF CountsAgree
  <2>4. HistoryAgrees'
    BY <1>7, <1>12, <2>2 DEF HistoryAgrees, InOutage
  <2>5. FlapGuard' /\ OneAlertPerOutage'
    BY <1>7, <1>12, <2>1, <2>2 DEF FlapGuard, OneAlertPerOutage
  <2>6. ~lost => (said' = "recovered" <=> announced /\ ~in.prefs.muted /\ in.prefs.notifyRecovery)
    BY <1>1, <1>4, <1>7, <1>12
  <2> QED BY <2>3, <2>4, <2>5, <2>6 DEF IInv
<1>13. Risen(in.reading, row, in.prefs, Reached(row, "alerting"), out)
  BY <1>1, RisingEffect
<1> QED BY <1>2, <1>10, <1>11, <1>12, <1>13 DEF Risen, Keeps

\* Every poll keeps the invariant, and ends an outage the way it began.
LEMMA PollKeeps ==
  ASSUME TypeOK, IInv, NEW in \in Inputs, Poll(in)
  PROVE  /\ IInv'
         /\ InOutage(row) /\ row'.state = "ok" /\ ~lost
              => (said' = "recovered" <=> announced /\ ~in.prefs.muted /\ in.prefs.notifyRecovery)
<1>1. PICK out : out = Evaluate(in.reading, row, in.prefs)
  OBVIOUS
<1>2. Step(in, out)
  BY <1>1, PollSteps
<1>3. in.reading \in {"absent", "over", "under"} /\ row.state \in States
  BY DEF Inputs, Readings, TypeOK, Rows
<1>4. CASE in.reading = "absent"
  <2>1. IInv'
    BY <1>1, <1>2, <1>4, AbsentKeeps
  <2>2. row'.state # "ok"
    <3>1. row \in Rows /\ in.prefs \in Prefs
      BY DEF TypeOK, Inputs
    <3>2. out.row.state = "unknown"
      BY <1>1, <1>4, <3>1, AbsentEffect
    <3> QED BY <1>2, <3>2 DEF Step
  <2> QED BY <2>1, <2>2
<1>5. CASE in.reading # "absent" /\ row.state = "unknown"
  BY <1>1, <1>2, <1>3, <1>5, UnknownKeeps DEF InOutage
<1>6. CASE in.reading # "absent" /\ row.state \in {"ok", "pending"}
  BY <1>1, <1>2, <1>3, <1>6, FallingKeeps DEF InOutage
<1>7. CASE in.reading # "absent" /\ row.state \in {"alerting", "recovering"}
  <2>1. in.reading \in {"over", "under"}
    BY <1>3, <1>7
  <2> QED BY <1>1, <1>2, <1>7, <2>1, RisingKeeps
<1> QED BY <1>3, <1>4, <1>5, <1>6, <1>7 DEF States

LEMMA InitIInv == Init => IInv
<1> SUFFICES ASSUME Init
             PROVE  IInv
  OBVIOUS
<1>1. PICK seed \in Readings : row = SeedRow(seed)
  BY DEF Init
<1>2. row.state \in {"unknown", "ok", "alerting"} /\ row.consecutive = 0 /\ row.notifyCount = 0
  BY <1>1 DEF SeedRow
<1>3. said = "none" /\ overRun = 0 /\ underRun = 0 /\ alerts = 0 /\ announced = FALSE
  BY DEF Init
<1> QED BY <1>2, <1>3
        DEF IInv, CountsAgree, HistoryAgrees, FlapGuard, OneAlertPerOutage, InOutage

(***************************************************************************)
(* Every reachable state satisfies the inductive invariant: the counters   *)
(* of the row are the lengths of the runs of readings that led to it.      *)
(***************************************************************************)
THEOREM Inductive == Spec => []IInv
<1>1. TypeOK /\ IInv /\ [Next]_vars => IInv'
  <2> SUFFICES ASSUME TypeOK, IInv, [Next]_vars
               PROVE  IInv'
    OBVIOUS
  <2>1. ASSUME NEW in \in Inputs, Poll(in)
        PROVE  IInv'
    BY <2>1, PollKeeps
  <2>2. CASE UNCHANGED vars
    BY <2>2 DEF vars, IInv, CountsAgree, HistoryAgrees, FlapGuard, OneAlertPerOutage, InOutage
  <2> QED BY <2>1, <2>2 DEF Next
<1> QED BY InitIInv, TypeCorrect, <1>1, PTL DEF Spec

(***************************************************************************)
(* A message is always the end of Confirm agreeing readings, whatever      *)
(* alerts.confirm_polls is set to.                                         *)
(***************************************************************************)
THEOREM FlapGuardHolds == Spec => []FlapGuard
<1>1. IInv => FlapGuard
  BY DEF IInv
<1> QED BY Inductive, <1>1, PTL

(***************************************************************************)
(* One alert per outage, whatever the flicker, the mutes and the unmutes.  *)
(***************************************************************************)
THEOREM OneAlertHolds == Spec => []OneAlertPerOutage
<1>1. IInv => OneAlertPerOutage
  BY DEF IInv
<1> QED BY Inductive, <1>1, PTL

(***************************************************************************)
(* A recovery is only ever said to an owner whose last message was an      *)
(* alert.                                                                  *)
(***************************************************************************)
THEOREM RecoveryFollowsAlertHolds == Spec => RecoveryFollowsAlert
<1>1. TypeOK /\ IInv /\ [Next]_vars => [said' = "recovered" => told = "alert"]_vars
  <2> SUFFICES ASSUME TypeOK, IInv, [Next]_vars, ~UNCHANGED vars, said' = "recovered"
               PROVE  told = "alert"
    OBVIOUS
  <2>1. PICK in \in Inputs : Poll(in)
    BY DEF Next
  <2>2. PICK out : out = Evaluate(in.reading, row, in.prefs)
    OBVIOUS
  <2>3. out.kind = "recovered"
    BY <2>1, <2>2 DEF Poll
  <2>4. row.notifyCount # 0
    <3>1. row \in Rows /\ in.prefs \in Prefs /\ in.reading \in Readings /\ row.state \in States
      BY DEF TypeOK, Inputs, Rows
    <3>2. in.reading \in {"over", "under"}
      BY <2>2, <2>3, <3>1, AbsentEffect DEF Readings
    <3>3. row.state # "unknown"
      BY <2>2, <2>3, <3>1, <3>2, UnknownEffect
    <3>4. row.state \notin {"ok", "pending"}
      <4> SUFFICES ASSUME row.state \in {"ok", "pending"}
                   PROVE  out.kind # "recovered"
        BY <2>3
      <4>1. Fallen(in.reading, row, Reached(row, "ok"), out)
        BY <2>2, <3>1, <3>2, FallingEffect
      <4> QED BY <4>1 DEF Fallen
    <3>5. row.state \in {"alerting", "recovering"}
      BY <3>1, <3>3, <3>4 DEF States
    <3>6. Risen(in.reading, row, in.prefs, Reached(row, "alerting"), out)
      BY <2>2, <3>1, <3>2, <3>5, RisingEffect
    <3> QED BY <2>3, <3>6 DEF Risen
  <2>5. row.notifyCount \in Nat
    BY DEF TypeOK, Rows
  <2> QED BY <2>4, <2>5 DEF IInv, HistoryAgrees
<1> QED BY Inductive, TypeCorrect, <1>1, PTL DEF Spec, RecoveryFollowsAlert

(***************************************************************************)
(* The end of an outage is told exactly if its beginning was, muting and   *)
(* settings allowing, for every number of polls to confirm; an announced   *)
(* outage that left the feed is excepted until an end has been seen again. *)
(***************************************************************************)
THEOREM EndsAsItBeganHolds == Spec => EndsAsItBegan
<1>1. TypeOK /\ IInv /\ [Next]_vars
        => [InOutage(row) /\ row'.state = "ok" /\ ~lost
              => (said' = "recovered" <=>
                    announced /\ ~input'.prefs.muted /\ input'.prefs.notifyRecovery)]_vars
  <2> SUFFICES ASSUME TypeOK, IInv, [Next]_vars, ~UNCHANGED vars,
                      InOutage(row), row'.state = "ok", ~lost
               PROVE  said' = "recovered" <=>
                        announced /\ ~input'.prefs.muted /\ input'.prefs.notifyRecovery
    OBVIOUS
  <2>1. PICK in \in Inputs : Poll(in)
    BY DEF Next
  <2>2. input' = in
    BY <2>1 DEF Poll
  <2> QED BY <2>1, <2>2, PollKeeps
<1> QED BY Inductive, TypeCorrect, <1>1, PTL DEF Spec, EndsAsItBegan

-------------------------------------------------------------------------------
(***************************************************************************)
(* Refinement: every poll is a step of the abstract specification.         *)
(***************************************************************************)
LEMMA PollKeepsPromise ==
  ASSUME TypeOK, IInv, NEW in \in Inputs, Poll(in)
  PROVE  Promise!Next
<1>1. PICK out : out = Evaluate(in.reading, row, in.prefs)
  OBVIOUS
<1>2. row \in Rows /\ in.prefs \in Prefs /\ in.reading \in Readings /\ row.state \in States
      /\ row.notifyCount \in Nat
  BY DEF TypeOK, Inputs, Rows
<1>3. /\ row' = out.row /\ said' = out.kind
      /\ told' = IF said' = "none" THEN told ELSE said'
  BY <1>1 DEF Poll
<1>4. row.notifyCount # 0 => told = "alert"
  BY <1>2 DEF IInv, HistoryAgrees
<1>5. CASE in.reading = "absent"
  <2>1. said' = "none" /\ row'.state = "unknown"
    BY <1>1, <1>2, <1>3, <1>5, AbsentEffect
  <2>2. Belief' = "unknown"
    BY <2>1 DEF Belief
  <2> QED BY <1>3, <2>1, <2>2
          DEF Promise!Next, Promise!Silence, Promise!Beliefs, Promise!Says
<1>6. CASE in.reading # "absent" /\ row.state = "unknown"
  <2>1. in.reading \in {"over", "under"}
    BY <1>2, <1>6 DEF Readings
  <2>2. said' = "none" /\ row'.state \in {"alerting", "ok"}
    BY <1>1, <1>2, <1>3, <1>6, <2>1, UnknownEffect
  <2>3. Belief = "unknown" /\ Belief' \in {"up", "down"}
    BY <1>6, <2>2 DEF Belief
  <2> QED BY <1>3, <2>2, <2>3
          DEF Promise!Next, Promise!Silence, Promise!Beliefs, Promise!Says
<1>7. CASE in.reading # "absent" /\ row.state \in {"ok", "pending"}
  <2>1. in.reading \in {"over", "under"}
    BY <1>2, <1>7 DEF Readings
  <2>2. Fallen(in.reading, row, Reached(row, "ok"), out)
    BY <1>1, <1>2, <1>7, <2>1, FallingEffect
  <2>3. \/ said' = "none" /\ row'.state \in {"ok", "pending"}
        \/ said' \in {"none", "alert"} /\ row'.state = "alerting"
    BY <1>3, <2>2 DEF Fallen
  <2>4. Belief = "up"
    BY <1>7 DEF Belief
  <2>5. CASE said' = "none" /\ row'.state \in {"ok", "pending"}
    <3>1. Belief' = "up"
      BY <2>5 DEF Belief
    <3> QED BY <1>3, <2>4, <2>5, <3>1
            DEF Promise!Next, Promise!Silence, Promise!Beliefs, Promise!Says
  <2>6. CASE said' \in {"none", "alert"} /\ row'.state = "alerting"
    <3>1. Belief' = "down"
      BY <2>6 DEF Belief
    <3> QED BY <1>3, <2>4, <2>6, <3>1 DEF Promise!Next, Promise!GoesDown, Promise!Says
  <2> QED BY <2>3, <2>5, <2>6
<1>8. CASE in.reading # "absent" /\ row.state \in {"alerting", "recovering"}
  <2>1. in.reading \in {"over", "under"}
    BY <1>2, <1>8 DEF Readings
  <2>2. Risen(in.reading, row, in.prefs, Reached(row, "alerting"), out)
    BY <1>1, <1>2, <1>8, <2>1, RisingEffect
  <2>3. \/ said' = "none" /\ row'.state \in {"alerting", "recovering"}
        \/ /\ row'.state = "ok"
           /\ said' = "none" \/ (said' = "recovered" /\ told = "alert")
    BY <1>3, <1>4, <2>2 DEF Risen
  <2>4. Belief = "down"
    BY <1>8 DEF Belief
  <2>5. CASE said' = "none" /\ row'.state \in {"alerting", "recovering"}
    <3>1. Belief' = "down"
      BY <2>5 DEF Belief
    <3> QED BY <1>3, <2>4, <2>5, <3>1
            DEF Promise!Next, Promise!Silence, Promise!Beliefs, Promise!Says
  <2>6. CASE /\ row'.state = "ok"
             /\ said' = "none" \/ (said' = "recovered" /\ told = "alert")
    <3>1. Belief' = "up"
      BY <2>6 DEF Belief
    <3> QED BY <1>3, <2>4, <2>6, <3>1 DEF Promise!Next, Promise!ComesBack, Promise!Says
  <2> QED BY <2>3, <2>5, <2>6
<1> QED BY <1>2, <1>5, <1>6, <1>7, <1>8 DEF States

(***************************************************************************)
(* The detailed lifecycle implements the abstract promise, for every       *)
(* number of polls to confirm: PromiseIsKept.                              *)
(***************************************************************************)
THEOREM PromiseHolds == Spec => PromiseIsKept
<1>1. Init => Promise!Init
  BY DEF Init, Promise!Init, Promise!Beliefs, Belief
<1>2. TypeOK /\ IInv /\ [Next]_vars => [Promise!Next]_(Promise!promise)
  <2> SUFFICES ASSUME TypeOK, IInv, [Next]_vars
               PROVE  [Promise!Next]_(Promise!promise)
    OBVIOUS
  <2>1. ASSUME NEW in \in Inputs, Poll(in)
        PROVE  Promise!Next
    BY <2>1, PollKeepsPromise
  <2>2. CASE UNCHANGED vars
    BY <2>2 DEF vars, Promise!promise, Belief
  <2> QED BY <2>1, <2>2 DEF Next
<1> QED BY Inductive, TypeCorrect, <1>1, <1>2, PTL DEF Spec, PromiseIsKept, Promise!Spec

===============================================================================
