---------------------------- MODULE AlertEvaluate ----------------------------
(***************************************************************************)
(* The alert policy of internal/alert/alert.go for one rule of one watch:  *)
(* a pure function from what a poll saw and the stored row to the next row *)
(* and the message, if any.  No state of its own; AlertLifecycle drives it *)
(* for one rule and Poller for all of them.                                *)
(*                                                                         *)
(* A row is what watch_state keeps and some code path reads back.  The     *)
(* timestamps since, alerting_since and last_notified_at are written next  *)
(* to it and only displayed, so they are left out; observed_at is kept by  *)
(* Poller, which is where it decides whether the row is saved.             *)
(***************************************************************************)
EXTENDS Integers

CONSTANT ConfirmPolls       \* alerts.confirm_polls

ASSUME ConfirmPollsAssumption == ConfirmPolls \in Int

\* The time.Time zero value: the signal has no timestamp.
Zero == 0

States   == {"unknown", "ok", "pending", "alerting", "recovering"}
Readings == {"absent", "under", "over"}
Kinds    == {"none", "alert", "recovered"}

\* The watcher's own choices at the moment of the poll.
Prefs == [muted : BOOLEAN, notifyRecovery : BOOLEAN]

Rows == [state : States, consecutive : Nat, notifyCount : Nat, seeded : BOOLEAN]

\* Polls a crossing must survive, in either direction; never less than one.
Confirm == IF ConfirmPolls < 1 THEN 1 ELSE ConfirmPolls

\* What an observation says about a threshold.  Absence of evidence is a
\* reading of its own and never silence.
Reading(now, at, applicable, threshold) ==
    IF ~applicable \/ at = Zero THEN "absent"
    ELSE IF now - at >= threshold THEN "over" ELSE "under"

\* The row a rule is created with, from what the store knows of its target.
SeedRow(reading) ==
    [ state       |-> IF reading = "absent" THEN "unknown"
                      ELSE IF reading = "over" THEN "alerting" ELSE "ok",
      consecutive |-> 0,
      notifyCount |-> 0,
      seeded      |-> reading = "over" ]

(***************************************************************************)
(* Outcomes.  changed is a transition worth an event; entering is what the *)
(* breaker counts; kind is the message to queue.  Definitions whose name   *)
(* qualifies another (RecoverAlways, PromoteUncounted, ...) are the same   *)
(* operator with a plausible slip in it, kept to show that the properties  *)
(* notice.                                                                 *)
(***************************************************************************)
Outcome(row, changed, entering, kind) ==
    [row |-> row, changed |-> changed, entering |-> entering, kind |-> kind]

Outcomes == [row : Rows, changed : BOOLEAN, entering : BOOLEAN, kind : Kinds]

Quiet(row)    == Outcome(row, FALSE, FALSE, "none")
Silently(row) == Outcome(row, TRUE, FALSE, "none")

At(row, state, n) == [row EXCEPT !.state = state, !.consecutive = n]
Down(row)    == [row EXCEPT !.state = "alerting", !.consecutive = 0, !.seeded = FALSE]
Counted(row) == [row EXCEPT !.notifyCount = @ + 1]
Adopted(row) == [row EXCEPT !.state = "alerting", !.consecutive = 0, !.notifyCount = 0,
                            !.seeded = TRUE]
Up(row)      == [row EXCEPT !.state = "ok", !.consecutive = 0, !.notifyCount = 0,
                            !.seeded = FALSE]

PromoteUncounted(row, prefs) ==
    Outcome(Down(row), TRUE, TRUE, IF prefs.muted THEN "none" ELSE "alert")

\* An outage is believed.  A muted one is not counted as announced.
Promote(row, prefs) ==
    IF prefs.muted THEN Outcome(Down(row), TRUE, TRUE, "none")
    ELSE Outcome(Counted(Down(row)), TRUE, TRUE, "alert")

RecoverAlways(row, prefs) ==
    IF prefs.muted \/ ~prefs.notifyRecovery THEN Silently(Up(row))
    ELSE Outcome(Up(row), TRUE, FALSE, "recovered")

\* A recovery is believed; it is said only where an alert was counted.
Recover(row, prefs) ==
    IF prefs.muted \/ row.notifyCount = 0 \/ ~prefs.notifyRecovery THEN Silently(Up(row))
    ELSE Outcome(Up(row), TRUE, FALSE, "recovered")

(***************************************************************************)
(* The five states of Evaluate, each under a reading that can be judged.   *)
(***************************************************************************)
\* The first reading after no reading is adopted without a word.
FromUnknown(row, reading) ==
    IF reading = "over" THEN Silently(Adopted(row)) ELSE Silently(At(row, "ok", 0))

FromOk(row, reading, prefs) ==
    LET crossed == At(row, "pending", 1)
    IN  IF reading = "under" THEN Quiet(At(row, "ok", 0))
        ELSE IF 1 >= Confirm THEN Promote(crossed, prefs)
        ELSE Silently(crossed)

FromPendingKeepingCount(row, reading, prefs) ==
    LET counted == At(row, "pending", row.consecutive + 1)
    IN  IF reading = "under" THEN Quiet(row)
        ELSE IF row.consecutive + 1 >= Confirm THEN Promote(counted, prefs)
        ELSE Silently(counted)

FromPending(row, reading, prefs) ==
    LET counted == At(row, "pending", row.consecutive + 1)
    IN  IF reading = "under" THEN Silently(At(row, "ok", 0))
        ELSE IF row.consecutive + 1 >= Confirm THEN Promote(counted, prefs)
        ELSE Silently(counted)

FromAlerting(row, reading, prefs) ==
    LET back == At(row, "recovering", 1)
    IN  IF reading = "over" THEN Quiet(At(row, "alerting", 0))
        ELSE IF 1 >= Confirm THEN Recover(back, prefs)
        ELSE Silently(back)

FromRecoveringRepeating(row, reading, prefs) ==
    LET counted == At(row, "recovering", row.consecutive + 1)
    IN  IF reading = "over" THEN Promote(row, prefs)
        ELSE IF row.consecutive + 1 >= Confirm THEN Recover(counted, prefs)
        ELSE Silently(counted)

\* Quiet again before the recovery was believed: down all along, nothing said.
FromRecovering(row, reading, prefs) ==
    LET counted == At(row, "recovering", row.consecutive + 1)
    IN  IF reading = "over" THEN Silently(At(row, "alerting", 0))
        ELSE IF row.consecutive + 1 >= Confirm THEN Recover(counted, prefs)
        ELSE Silently(counted)

\* Nothing to judge.  notifyCount and seeded survive.
FromAbsent(row) ==
    IF row.state = "unknown" THEN Quiet(row)
    ELSE Silently(At(row, "unknown", 0))

Evaluate(reading, row, prefs) ==
    IF reading = "absent"           THEN FromAbsent(row)
    ELSE IF row.state = "unknown"   THEN FromUnknown(row, reading)
    ELSE IF row.state = "ok"        THEN FromOk(row, reading, prefs)
    ELSE IF row.state = "pending"   THEN FromPending(row, reading, prefs)
    ELSE IF row.state = "alerting"  THEN FromAlerting(row, reading, prefs)
    ELSE FromRecovering(row, reading, prefs)

==============================================================================
