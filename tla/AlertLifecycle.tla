---------------------------- MODULE AlertLifecycle ----------------------------
(***************************************************************************)
(* One rule of one watch over its whole life: Poller.evaluate applying     *)
(* alert.Evaluate to it poll after poll, under every sequence of readings  *)
(* and of the owner's mute and recovery settings.  A threshold edit needs  *)
(* no action: UpdateRule keeps the row, so all it can do is change which   *)
(* reading the next poll takes.                                            *)
(***************************************************************************)
EXTENDS AlertEvaluate

CONSTANT MaxNotify          \* bound: notifyCount at which the feed stops losing the target

ASSUME MaxNotifyAssumption == MaxNotify \in Nat

VARIABLES
    row,            \* the rule's watch_state row
    input,          \* the inputs of the last poll: reading and prefs
    said,           \* the message the last poll queued
    \* History: what the code does not store.
    told,           \* the last message the owner was ever sent about this rule
    announced,      \* the outage last entered was announced when it was entered
    lost,           \* an announced outage left the feed, and none was seen to end since
    overRun,        \* consecutive polls, the last one included, that read "over"
    underRun,       \* the same for "under"
    alerts,         \* alerts sent since the target was last believed back, or lost
    turn            \* flips with every poll: one that changes nothing else is a step too

vars == <<row, input, said, told, announced, lost, overRun, underRun, alerts, turn>>

Inputs == [reading : Readings, prefs : Prefs]

\* Run lengths are kept up to Confirm: longer ones prove nothing more.
Longer(run) == IF run < Confirm THEN run + 1 ELSE run

\* An outage, until its end is confirmed.
InOutage(r) == r.state \in {"alerting", "recovering"}

Init ==
    /\ \E seed \in Readings :
          /\ row = SeedRow(seed)
          /\ input = [reading |-> seed, prefs |-> [muted |-> FALSE, notifyRecovery |-> TRUE]]
    /\ said = "none"
    /\ told = "none"
    /\ announced = FALSE
    /\ lost = FALSE
    /\ overRun = 0
    /\ underRun = 0
    /\ alerts = 0
    /\ turn = 0

Poll(in) ==
    LET out == Evaluate(in.reading, row, in.prefs)
    IN  /\ in.reading = "absent" => row.notifyCount < MaxNotify
        /\ row' = out.row
        /\ input' = in
        /\ said' = out.kind
        /\ told' = IF out.kind = "none" THEN told ELSE out.kind
        /\ announced' = IF out.entering \/ (row.state = "unknown" /\ in.reading = "over")
                        THEN out.kind = "alert"
                        ELSE announced
        /\ lost' = \/ InOutage(row) /\ in.reading = "absent" /\ announced
                   \/ lost /\ ~(InOutage(row) /\ out.row.state = "ok")
        /\ overRun' = IF in.reading = "over" THEN Longer(overRun) ELSE 0
        /\ underRun' = IF in.reading = "under" THEN Longer(underRun) ELSE 0
        /\ alerts' = IF in.reading = "absent" \/ underRun' = Confirm THEN 0
                     ELSE IF out.kind = "alert" THEN alerts + 1 ELSE alerts
        /\ turn' = 1 - turn

Next == \E in \in Inputs : Poll(in)

\* Run polls once at start and on every tick for as long as the process lives.
Spec == Init /\ [][Next]_vars /\ WF_vars(Next)

-------------------------------------------------------------------------------
TypeOK ==
    /\ row \in Rows
    /\ input \in Inputs
    /\ said \in Kinds
    /\ told \in Kinds
    /\ announced \in BOOLEAN
    /\ lost \in BOOLEAN
    /\ overRun \in 0..Confirm
    /\ underRun \in 0..Confirm
    /\ alerts \in Nat
    /\ turn \in {0, 1}

(***************************************************************************)
(* The flap guard: a message is the end of ConfirmPolls consecutive        *)
(* readings that all agree, whatever happened before them.  One reading on *)
(* the other side, or a missing one, starts the count again.               *)
(***************************************************************************)
FlapGuard ==
    /\ said = "alert" => overRun = Confirm
    /\ said = "recovered" => underRun = Confirm

(***************************************************************************)
(* One message per outage: until the target has been under its threshold   *)
(* for ConfirmPolls polls, or dropped out of the feed, a second alert is   *)
(* never sent, however often it flickers and however often the owner       *)
(* mutes and unmutes.                                                      *)
(***************************************************************************)
OneAlertPerOutage == alerts <= 1

(***************************************************************************)
(* The owner never hears "recovered" out of the blue: the last message     *)
(* before it was an alert, so a recovery is never the first message and    *)
(* never the second in a row.                                              *)
(***************************************************************************)
RecoveryFollowsAlert == [][said' = "recovered" => told = "alert"]_vars

(***************************************************************************)
(* An outage ends the way it began: the owner hears of its end, muting and *)
(* settings allowing, exactly if its alert was sent.  What was muted, or   *)
(* there already when the rule first read its target, ends in silence.     *)
(*                                                                         *)
(* `lost` is the exception.  "If a target drops out of the feed mid-alert  *)
(* and comes back, we still remember that we announced it" (alert.go:115), *)
(* but the first reading after the gap does away with the memory: over its *)
(* threshold, the outage is adopted as one nobody was told of              *)
(* (alert.go:135-139), and under it, the count stays for the next outage   *)
(* (NoRecoveryOfUnannouncedOutage below).  Until an outage has been seen   *)
(* to end again, nothing is claimed.                                       *)
(***************************************************************************)
EndsAsItBegan ==
    [][InOutage(row) /\ row'.state = "ok" /\ ~lost
        => (said' = "recovered" <=>
              announced /\ ~input'.prefs.muted /\ input'.prefs.notifyRecovery)]_vars

(***************************************************************************)
(* The belief settles on the truth: whatever state the row is in, readings *)
(* that stop changing are what the row ends up saying.                     *)
(***************************************************************************)
BeliefSettles ==
    /\ <>[](input.reading = "over")   => <>[](row.state = "alerting")
    /\ <>[](input.reading = "under")  => <>[](row.state = "ok")
    /\ <>[](input.reading = "absent") => <>[](row.state = "unknown")

(***************************************************************************)
(* With nothing to hold a message back - the target always in the feed,    *)
(* never muted, recoveries wanted - an owner told of an outage is told     *)
(* when it ends, and a lasting outage that was seen to begin is announced. *)
(***************************************************************************)
NothingWithheld == input.reading # "absent" /\ ~input.prefs.muted /\ input.prefs.notifyRecovery

OwnerIsToldBoth ==
    []NothingWithheld =>
        /\ <>[](input.reading = "under") => <>[](told # "alert")
        /\ <>[](input.reading = "over")  => <>[](told = "alert" \/ row.seeded)

-------------------------------------------------------------------------------
(***************************************************************************)
(* The lifecycle keeps the abstract promise: its five states stand for     *)
(* three beliefs, every message goes with the one change of belief it is   *)
(* about, and counting, flickering and muting are silent.                  *)
(***************************************************************************)
Belief ==
    IF row.state = "unknown" THEN "unknown"
    ELSE IF row.state \in {"ok", "pending"} THEN "up" ELSE "down"

Promise == INSTANCE Announcements WITH belief <- Belief

PromiseIsKept == Promise!Spec

-------------------------------------------------------------------------------
(***************************************************************************)
(* What the package documentation of alert.go promises: a recovery is      *)
(* announced only for an outage whose own alert was announced.  Stronger   *)
(* than RecoveryFollowsAlert, and not kept: see the findings.              *)
(***************************************************************************)
NoRecoveryOfUnannouncedOutage == [][said' = "recovered" => announced]_vars

-------------------------------------------------------------------------------
(***************************************************************************)
(* The inductive invariant behind the four safety properties: how each     *)
(* state of the row bounds its counters and what they say of the history.  *)
(***************************************************************************)
CountsAgree ==
    /\ row.state = "pending" => row.consecutive = overRun /\ row.consecutive \in 1..(Confirm - 1)
    /\ row.state = "recovering" => row.consecutive = underRun /\ row.consecutive \in 1..(Confirm - 1)
    /\ row.state \in {"unknown", "ok", "alerting"} => row.consecutive = 0
    /\ row.state \in {"unknown", "ok"} => overRun = 0
    /\ row.state \in {"unknown", "alerting"} => underRun = 0

HistoryAgrees ==
    /\ row.notifyCount > 0 => told = "alert"
    /\ ~InOutage(row) => alerts = 0
    /\ ~lost => (row.notifyCount > 0 <=> InOutage(row) /\ announced)

IInv == CountsAgree /\ HistoryAgrees /\ FlapGuard /\ OneAlertPerOutage

===============================================================================
