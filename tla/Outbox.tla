-------------------------------- MODULE Outbox --------------------------------
(***************************************************************************)
(* The outbox: Notifier.DrainOnce against the notifications table, while   *)
(* polls queue more, accounts are deleted and created, and the process     *)
(* dies or the store refuses a write between any two of its transactions;  *)
(* and users.dm_ok, which four places write.                               *)
(*                                                                         *)
(* A user is a Discord account; the row of one who deletes his account and *)
(* signs in again is a new one.  That users.id may be reused as well is    *)
(* left out: all it can cost is a wrong dm_ok until the next check.        *)
(* Payloads, and how several are composed into one message, are left out.  *)
(* A definition whose name qualifies another's (RetryUncounted, ...) is    *)
(* the same one with a plausible slip in it.                               *)
(***************************************************************************)
EXTENDS Integers, FiniteSets, FiniteSetsExt, Tables

Discord == INSTANCE DiscordClient   \* what a call of Discord can come to

CONSTANTS
    People,         \* Discord users
    MaxAttempts,    \* 8 in notify.go
    Limit,          \* messages per drain, 100 in Notifier.Run
    Standings,       \* bound: where the people may stand with Discord
    MaxNote,        \* bound: ids in use at once
    MaxAnswers,     \* bound: Discord answers not yet written down
    MaxRoster       \* bound: accounts that have a watch when a membership check begins

ASSUME OutboxAssumption ==
    /\ IsFiniteSet(People)
    /\ MaxAttempts \in Nat \ {0} /\ Limit \in Nat \ {0}
    /\ "open" \in Standings /\ Standings \subseteq Discord!Standing
    /\ MaxNote \in Nat /\ MaxAnswers \in Nat /\ MaxRoster \in Nat

VARIABLES
    world,      \* whether Discord would deliver: person -> standing
    watching,   \* the accounts that have a watch
    dmOk,       \* users: person -> dm_ok
    notes,      \* notifications: id -> Note
    phase,      \* how far DrainOnce has got
    batch,      \* what it has left of what it read: id -> [user, attempts, live]
    addressee,  \* the user whose group it is at
    verdict,    \* what Send returned for that group
    roster,     \* what runMembershipChecks read and has not asked about yet
    answers,    \* answers of Discord on their way to SetDMStatus
    \* History.
    post        \* notifications: id -> Post

drain  == <<phase, batch, addressee, verdict>>
checks == <<roster, answers>>
vars   == <<world, watching, dmOk, notes, drain, checks, post>>

Note     == [user : People, attempts : Nat, due : BOOLEAN, open : BOOLEAN]
Sends    == [standing \in Standings |-> Discord!Send(standing)]
Answer   == [user : People, says : {"yes", "no", "error"}]
Nobody   == "nobody"

\* What became of a message: whether Discord ever took it or said it never
\* would (answered); sends, and deliveries, not excused by a crash or a lost
\* answer; whether its id was that of a message the drain had in hand.
Post  == [answered : BOOLEAN, tries : Nat, copies : Nat, reused : BOOLEAN]
Fresh == [answered |-> FALSE, tries |-> 0, copies |-> 0, reused |-> FALSE]

Init ==
    /\ world = [p \in People |-> "open"]
    /\ watching = {} /\ dmOk = Nothing /\ notes = Nothing /\ post = Nothing
    /\ phase = "idle" /\ batch = Nothing /\ addressee = Nobody /\ verdict = "ok"
    /\ roster = Nothing /\ answers = {}

-------------------------------------------------------------------------------
(***************************************************************************)
(* The others: Discord's users, the poller, the web layer, housekeeping.   *)
(***************************************************************************)
Moves(p, standing) ==
    /\ world[p] # standing
    /\ world' = [world EXCEPT ![p] = standing]
    /\ UNCHANGED <<watching, dmOk, notes, drain, checks, post>>

\* An account's first watch, and its last.
Watches(p) ==
    /\ watching' = IF p \in watching THEN watching \ {p} ELSE watching \union {p}
    /\ UNCHANGED <<world, dmOk, notes, drain, checks, post>>

\* A committed evaluation has a message for p.
QueueNotification(p) ==
    LET id == Max({0} \union DOMAIN notes) + 1
    IN  /\ id <= MaxNote
        /\ notes' = Upserted([i \in {id} |-> [user |-> p, attempts |-> 0, due |-> TRUE, open |-> TRUE]],
                             notes)
        /\ post' = Upserted([i \in {id} |-> [Fresh EXCEPT !.reused = i \in DOMAIN batch]], post)
        /\ UNCHANGED <<world, watching, dmOk, drain, checks>>

\* send_after passes.
BackoffEnds(id) ==
    /\ ~notes[id].due
    /\ notes' = [notes EXCEPT ![id].due = TRUE]
    /\ UNCHANGED <<world, watching, dmOk, drain, checks, post>>

\* Only what is settled is pruned, months later.
Prune(id) ==
    /\ ~notes[id].open
    /\ notes' = Without(notes, {id})
    /\ post' = Without(post, {id})
    /\ UNCHANGED <<world, watching, dmOk, drain, checks>>

\* The user's messages go with the account; a drain that read them goes on.
DeleteUser(p) ==
    LET gone == {i \in DOMAIN notes : notes[i].user = p}
    IN  /\ dmOk' = Without(dmOk, {p}) /\ watching' = watching \ {p}
        /\ notes' = Without(notes, gone)
        /\ post' = Without(post, gone)
        /\ batch' = [i \in DOMAIN batch |-> [batch[i] EXCEPT !.live = @ /\ i \notin gone]]
        /\ UNCHANGED <<world, phase, addressee, verdict, checks>>

-------------------------------------------------------------------------------
(***************************************************************************)
(* dm_ok.  Discord answers, and the answer is written a moment later.      *)
(***************************************************************************)
Heard(p, says) ==
    /\ Cardinality(answers) < MaxAnswers
    /\ answers' = answers \union {[user |-> p, says |-> says]}

Member(p) == world[p] # "left"
Says(ok)  == IF ok THEN "yes" ELSE "no"

\* Who has left the server is put back into it, if Discord lets the bot.
Exchange(p) ==
    \/ world' = world
    \/ /\ ~Member(p)
       /\ \E standing \in Standings \ {"left"} : world' = [world EXCEPT ![p] = standing]

\* UpsertUser keeps the dm_ok of a row that is there.  A failed check says nothing.
SignIn(p) ==
    /\ Exchange(p)
    /\ dmOk' = Upserted(dmOk, [q \in {p} |-> TRUE])
    /\ Heard(p, Says(world'[p] # "left")) \/ answers' = answers
    /\ UNCHANGED <<watching, notes, drain, roster, post>>

\* Any failure of a test message counts as unreachable.
TestDM(p) ==
    /\ \E ok \in {FALSE, world[p] = "open"} : Heard(p, Says(ok))
    /\ UNCHANGED <<world, watching, dmOk, notes, drain, roster, post>>

StartMembershipCheck ==
    /\ roster = Nothing
    /\ Cardinality(watching) \in 1..MaxRoster
    /\ roster' = [p \in watching |-> dmOk[p]]
    /\ UNCHANGED <<world, watching, dmOk, notes, drain, answers, post>>

CheckMembershipOnlyClearing(p) ==
    /\ IF Member(p) /\ ~roster[p] THEN Heard(p, "yes") ELSE answers' = answers
    /\ roster' = Without(roster, {p})
    /\ UNCHANGED <<world, watching, dmOk, notes, drain, post>>

\* Written only where it differs from what was read when the check began.
CheckMembership(p) ==
    /\ IF Member(p) # roster[p] THEN Heard(p, Says(Member(p))) ELSE answers' = answers
    /\ roster' = Without(roster, {p})
    /\ UNCHANGED <<world, watching, dmOk, notes, drain, post>>

\* No answer, or not one about membership.
CheckFails(p) ==
    /\ Heard(p, "error")
    /\ roster' = Without(roster, {p})
    /\ UNCHANGED <<world, watching, dmOk, notes, drain, post>>

SetDMStatus(p, ok) == IF p \in DOMAIN dmOk THEN [dmOk EXCEPT ![p] = ok] ELSE dmOk

Record(answer) ==
    /\ dmOk' = IF answer.says = "error" THEN dmOk
               ELSE SetDMStatus(answer.user, answer.says = "yes")
    /\ answers' = answers \ {answer}
    /\ UNCHANGED <<world, watching, notes, drain, roster, post>>

-------------------------------------------------------------------------------
(***************************************************************************)
(* DrainOnce.                                                              *)
(***************************************************************************)
Pending == {i \in DOMAIN notes : notes[i].open /\ notes[i].due}

Begin(read) ==
    /\ phase = "idle"
    /\ read # {}
    /\ phase' = "send"
    /\ batch' = [i \in read |->
                    [user |-> notes[i].user, attempts |-> notes[i].attempts, live |-> TRUE]]
    /\ UNCHANGED <<world, watching, dmOk, notes, addressee, verdict, checks, post>>

StartDrainNewest == Begin({i \in Pending : Cardinality({j \in Pending : j > i}) < Limit})

\* The oldest Limit of those that are due.
StartDrain == Begin({i \in Pending : Cardinality({j \in Pending : j < i}) < Limit})

GroupOf(p) == {i \in DOMAIN batch : batch[i].user = p}
Group      == GroupOf(addressee)

\* One message for everything the batch holds for a user, in order of the
\* oldest.  The message may arrive and the answer to it be lost.
Send ==
    LET p    == batch[Min(DOMAIN batch)].user
        same == {i \in GroupOf(p) : batch[i].live}
    IN  /\ phase = "send"
        /\ addressee' = p
        /\ \E sent \in Sends[world[p]] :
              /\ verdict' = sent.says
              /\ phase' = IF sent.says = "undeliverable" THEN "blame" ELSE "settle"
              /\ post' = [i \in DOMAIN post |->
                   IF i \notin same THEN post[i]
                   ELSE [post[i] EXCEPT !.answered = @ \/ sent.copies > 0 \/ sent.says = "undeliverable",
                                        !.tries = IF @ > MaxAttempts THEN @ ELSE @ + 1,
                                        !.copies = IF sent.says = "ok" THEN @ + sent.copies ELSE @]]
        /\ UNCHANGED <<world, watching, dmOk, notes, batch, checks>>

\* Unreachable: recorded before the messages are dropped.
Blame ==
    /\ phase = "blame"
    /\ phase' = "settle"
    /\ dmOk' = SetDMStatus(addressee, FALSE)
    /\ UNCHANGED <<world, watching, notes, batch, addressee, verdict, checks, post>>

RetryUncounted(row) == [row EXCEPT !.due = FALSE]

Close(row) == [row EXCEPT !.open = FALSE]
Retry(row) == [row EXCEPT !.attempts = @ + 1, !.due = FALSE]

OutcomeHasty(row, attempts) ==
    IF verdict = "failed" /\ attempts + 2 < MaxAttempts THEN Retry(row) ELSE Close(row)

\* MarkNotificationSent and DropNotification both set sent_at.  Whether to
\* retry goes by the attempts read with the batch.
Outcome(row, attempts) ==
    IF verdict = "failed" /\ attempts + 1 < MaxAttempts THEN Retry(row) ELSE Close(row)

\* An UPDATE by id touches whatever row has that id, or none.
Settled(id) ==
    IF id \in DOMAIN notes THEN [notes EXCEPT ![id] = Outcome(@, batch[id].attempts)]
    ELSE notes

\* The next group, if there is one; who the last was for is forgotten.
NoGroup      == addressee' = Nobody /\ verdict' = "ok"
Onward(left) == phase' = (IF left = Nothing THEN "idle" ELSE "send") /\ NoGroup

\* One transaction per message of the group, oldest first.
Settle ==
    LET id   == Min(Group)
        left == Without(batch, {id})
    IN  /\ phase = "settle"
        /\ notes' = Settled(id)
        /\ batch' = left
        /\ IF Group # {id} THEN phase' = "settle" /\ UNCHANGED <<addressee, verdict>>
           ELSE IF verdict = "ok" THEN phase' = "clear" /\ UNCHANGED <<addressee, verdict>>
           ELSE Onward(left)
        /\ UNCHANGED <<world, watching, dmOk, checks, post>>

\* Delivered: whatever was recorded against the user is cleared.
Clear ==
    /\ phase = "clear"
    /\ Onward(batch)
    /\ dmOk' = SetDMStatus(addressee, TRUE)
    /\ UNCHANGED <<world, watching, notes, batch, checks, post>>

\* What Send did for the messages not settled yet will be done again.
Interrupted ==
    LET unsettled == {i \in Group : phase \in {"blame", "settle"} /\ batch[i].live}
    IN  /\ phase' = "idle" /\ batch' = Nothing /\ NoGroup
        /\ post' = [i \in DOMAIN post |->
             IF i \notin unsettled THEN post[i]
             ELSE [post[i] EXCEPT !.tries = @ - 1,
                                  !.copies = IF verdict = "ok" THEN @ - 1 ELSE @]]
        /\ UNCHANGED <<world, watching, notes>>

\* The store refuses a write: the rest of the batch waits for the next drain.
Abort ==
    /\ phase \in {"blame", "settle", "clear"}
    /\ Interrupted
    /\ UNCHANGED <<dmOk, checks>>

Crash ==
    /\ phase # "idle" \/ roster # Nothing \/ answers # {}
    /\ Interrupted
    /\ roster' = Nothing /\ answers' = {}
    /\ UNCHANGED dmOk

-------------------------------------------------------------------------------
DrainOnce == StartDrain \/ Send \/ Blame \/ Settle \/ Clear

Check == StartMembershipCheck \/ \E p \in DOMAIN roster : CheckMembership(p) \/ CheckFails(p)

Next ==
    \/ DrainOnce \/ Abort \/ Crash \/ Check
    \/ \E p \in People, standing \in Standings : Moves(p, standing)
    \/ \E p \in People : SignIn(p)
    \/ \E p \in DOMAIN dmOk : Watches(p) \/ DeleteUser(p) \/ TestDM(p)
    \/ \E p \in watching : QueueNotification(p)
    \/ \E id \in DOMAIN notes : BackoffEnds(id) \/ Prune(id)
    \/ \E answer \in answers : Record(answer)

\* The drain loop, the membership loop and the clock run for as long as the
\* process does, and it is restarted; an answer that came is written down.
Fairness ==
    /\ WF_vars(DrainOnce)
    /\ \A id \in 1..MaxNote : WF_vars(id \in DOMAIN notes /\ BackoffEnds(id))
    /\ WF_vars(Check)
    /\ WF_vars(\E answer \in answers : Record(answer))

Spec == Init /\ [][Next]_vars /\ Fairness

-------------------------------------------------------------------------------
TypeOK ==
    /\ world \in [People -> Standings]
    /\ watching \subseteq DOMAIN dmOk
    /\ DOMAIN dmOk \subseteq People /\ \A p \in DOMAIN dmOk : dmOk[p] \in BOOLEAN
    /\ DOMAIN notes \subseteq 1..MaxNote /\ \A i \in DOMAIN notes : notes[i] \in Note
    /\ \A i \in DOMAIN notes : notes[i].user \in DOMAIN dmOk
    /\ phase \in {"idle", "send", "blame", "settle", "clear"}
    /\ DOMAIN batch \subseteq 1..MaxNote
    /\ \A i \in DOMAIN batch : batch[i].user \in People /\ batch[i].attempts \in Nat
    /\ addressee \in People \union {Nobody}
    /\ verdict \in {"ok", "undeliverable", "failed"}
    /\ DOMAIN roster \subseteq People /\ answers \subseteq Answer
    /\ DOMAIN post = DOMAIN notes /\ \A i \in DOMAIN post : post[i] \in Post

(***************************************************************************)
(* No message is lost: one the outbox considers settled was taken by       *)
(* Discord, refused by it for good, or tried MaxAttempts times - however   *)
(* the process died and whatever was deleted in between.  Excepted are     *)
(* messages queued under the id of one that the drain had in hand and      *)
(* whose account was deleted: they are marked in its place.                *)
(***************************************************************************)
Handled(id) == post[id].answered \/ post[id].tries >= MaxAttempts

NothingIsLost == \A i \in DOMAIN notes : ~notes[i].open => Handled(i) \/ post[i].reused

(***************************************************************************)
(* Nor is it said twice: a second copy of a message takes a crash, a store *)
(* error or a lost answer between Discord taking the first and the outbox  *)
(* noting it.                                                              *)
(***************************************************************************)
NothingIsSaidTwice == \A i \in DOMAIN post : post[i].copies <= 1

(***************************************************************************)
(* Discord is not hammered: apart from attempts a crash made it forget, a  *)
(* message is handed over at most MaxAttempts times.                       *)
(***************************************************************************)
AttemptsAreBounded == \A i \in DOMAIN post : post[i].tries <= MaxAttempts

(***************************************************************************)
(* Every message gets its turn: once the drain is no longer interrupted,   *)
(* nothing stays queued for ever, whatever Discord answers, however many   *)
(* other messages there are or are tried again, and however small the      *)
(* drain's limit.                                                          *)
(***************************************************************************)
EverythingIsSettled ==
    <>[][~Abort /\ ~Crash]_vars =>
        \A i \in 1..MaxNote : []<>(i \notin DOMAIN notes \/ ~notes[i].open)

(***************************************************************************)
(* A silent departure shows up: someone who has left the server for good,  *)
(* and watches something, is again and again seen as unreachable by the    *)
(* dashboard, although four writers set the flag from answers of different *)
(* ages, as long as the process stays up and Discord answers the           *)
(* membership check.                                                       *)
(***************************************************************************)
DepartureShows ==
    <>[][~Crash /\ \A p \in DOMAIN roster : ~CheckFails(p)]_vars =>
        \A p \in People :
            <>[](world[p] = "left" /\ p \in watching) => []<>(p \notin DOMAIN dmOk \/ ~dmOk[p])

===============================================================================
