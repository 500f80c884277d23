---------------------------- MODULE Outbox_proofs ----------------------------
(***************************************************************************)
(* Proofs about Outbox, for any number of people and messages, any limits  *)
(* and any way Discord may answer: no message is lost, none is said twice  *)
(* without an excuse, and none is tried more than MaxAttempts times.       *)
(***************************************************************************)
EXTENDS Outbox, WellFoundedInduction, TLAPS

-------------------------------------------------------------------------------
(***************************************************************************)
(* Tables, and the least and the next of their keys.                       *)
(***************************************************************************)
LEMMA UpsertedTable ==
    ASSUME NEW new, NEW table
    PROVE  /\ DOMAIN Upserted(new, table) = DOMAIN new \union DOMAIN table
           /\ \A k \in DOMAIN new : Upserted(new, table)[k] = new[k]
           /\ \A k \in DOMAIN table : k \notin DOMAIN new => Upserted(new, table)[k] = table[k]
  BY DEF Upserted

LEMMA WithoutTable ==
    ASSUME NEW table, NEW gone
    PROVE  /\ DOMAIN Without(table, gone) = DOMAIN table \ gone
           /\ \A k \in DOMAIN table \ gone : Without(table, gone)[k] = table[k]
  BY DEF Without

\* A table without rows is the empty one.
LEMMA EmptyTable ==
    /\ DOMAIN Nothing = {}
    /\ \A table, gone : DOMAIN Without(table, gone) = {} => Without(table, gone) = Nothing
  BY DEF Nothing, Without

LEMMA LeastExists ==
    ASSUME NEW S, S \subseteq Nat, S # {}
    PROVE  Min(S) \in S /\ \A y \in S : Min(S) <= y
<1> DEFINE R == OpToRel(<, Nat)
<1>1. IsWellFoundedOn(R, Nat)
  BY NatLessThanWellFounded
<1>2. \A x, y \in Nat : x < y => <<x, y>> \in R
  BY DEF OpToRel
<1> HIDE DEF R
<1>3. PICK x \in S : \A y \in S : ~ (<<y, x>> \in R)
  BY <1>1, WFMin
<1>4. ASSUME NEW y \in S PROVE x <= y
  <2>1. x \in Nat /\ y \in Nat
    OBVIOUS
  <2>2. ~(y < x)
    BY <1>2, <1>3, <2>1
  <2> QED
    BY <2>1, <2>2
<1> QED
  BY <1>4 DEF Min

\* The id of the next row is above every id in use.
LEMMA NextIdIsNew ==
    ASSUME NEW n \in Nat, NEW S, S \subseteq 1..n
    PROVE  /\ Max({0} \union S) + 1 \in Nat \ {0}
           /\ Max({0} \union S) + 1 \notin S
<1> DEFINE A == {0} \union S
           T == {n - x : x \in A}
<1>1. \A x \in A : x \in Nat /\ n - x \in Nat
  OBVIOUS
<1>2. T \subseteq Nat /\ T # {}
  BY <1>1
<1>3. \A x \in A : n - x \in T
  OBVIOUS
<1>4. \A y \in T : \E x \in A : y = n - x
  OBVIOUS
<1> HIDE DEF T
<1>5. PICK m \in A : Min(T) = n - m /\ \A y \in T : Min(T) <= y
  BY <1>2, <1>4, LeastExists
<1>6. \A y \in A : m >= y
  BY <1>1, <1>3, <1>5
<1>7. Max(A) \in A /\ \A y \in A : Max(A) >= y
  BY <1>6 DEF Max
<1>8. Max(A) \in Nat /\ \A y \in S : y <= Max(A)
  BY <1>1, <1>7
<1> HIDE DEF A
<1>9. ASSUME Max(A) + 1 \in S PROVE FALSE
  <2>1. Max(A) + 1 <= Max(A)
    BY <1>8, <1>9
  <2> QED
    BY <1>8, <2>1
<1> QED
  BY <1>8, <1>9 DEF A

-------------------------------------------------------------------------------
(***************************************************************************)
(* What a call of Discord can come to.                                     *)
(***************************************************************************)
\* A success leaves exactly one copy, also where the request was repeated.
LEMMA DoLeavesOneCopy ==
    ASSUME NEW replies \in SUBSET Discord!Replies, NEW sent \in Discord!do(replies)
    PROVE  /\ sent.copies \in Nat /\ sent.says \in {"ok", "undeliverable", "failed"}
           /\ sent.says = "ok" => sent.copies = 1
<1>1. ASSUME NEW r \in replies
      PROVE  /\ Discord!Copies(r) \in {0, 1}
             /\ Discord!finish(r) \in {"ok", "undeliverable", "failed"}
             /\ Discord!finish(r) = "ok" => Discord!Copies(r) = 1
             /\ Discord!Retries(r) => Discord!Copies(r) = 0
  BY DEF Discord!Replies, Discord!Statuses, Discord!Copies, Discord!finish, Discord!Retries
<1>2. ASSUME NEW r \in replies, NEW q \in replies, Discord!Retries(r)
      PROVE  Discord!Copies(r) + Discord!Copies(q) = Discord!Copies(q)
  <2>1. Discord!Copies(r) = 0 /\ Discord!Copies(q) \in Nat
    BY <1>1, <1>2
  <2> QED
    BY <2>1
<1>3. \/ sent \in {[copies |-> Discord!Copies(r), says |-> Discord!finish(r)] : r \in replies}
      \/ sent \in {[copies |-> Discord!Copies(r) + Discord!Copies(q), says |-> Discord!finish(q)] :
                      r \in {r \in replies : Discord!Retries(r)}, q \in replies}
  BY DEF Discord!do
<1>4. PICK q \in replies : sent = [copies |-> Discord!Copies(q), says |-> Discord!finish(q)]
  BY <1>2, <1>3
<1> QED
  BY <1>1, <1>4

LEMMA SendLeavesOneCopy ==
    ASSUME NEW standing \in Standings, NEW sent \in Sends[standing]
    PROVE  /\ sent.copies \in Nat /\ sent.says \in {"ok", "undeliverable", "failed"}
           /\ sent.says = "ok" => sent.copies = 1
<1>1. sent \in Discord!Send(standing)
  BY DEF Sends
<1>2. CASE sent \in Discord!do(Discord!MessageReplies(standing))
  BY <1>2, DoLeavesOneCopy DEF Discord!MessageReplies
<1>3. CASE \E says \in Discord!createDMChannel(standing) \ {"ok"} : sent = [copies |-> 0, says |-> says]
  <2>1. PICK says \in Discord!createDMChannel(standing) \ {"ok"} : sent = [copies |-> 0, says |-> says]
    BY <1>3
  <2>2. Discord!ChannelReplies(standing) \in SUBSET Discord!Replies
    BY DEF Discord!ChannelReplies
  <2>3. \A d \in Discord!do(Discord!ChannelReplies(standing)) :
           d.says \in {"ok", "undeliverable", "failed"}
    BY <2>2, DoLeavesOneCopy
  <2>4. says \in {"undeliverable", "failed"}
    BY <2>1, <2>3 DEF Discord!createDMChannel
  <2> QED
    BY <2>1, <2>4
<1> QED
  BY <1>1, <1>2, <1>3 DEF Discord!Send

-------------------------------------------------------------------------------
(***************************************************************************)
(* The inductive invariant.                                                *)
(***************************************************************************)
\* Discord has been asked about the message, and the answer is not settled:
\* what an interruption makes the outbox forget.
InFlight(i) ==
    /\ phase \in {"blame", "settle"}
    /\ i \in DOMAIN batch /\ batch[i].user = addressee /\ batch[i].live

\* A queued message was tried as often as its row says, and once more while
\* it is in flight, and no copy of it is unaccounted for; a settled one was
\* handled.  Of a reused id the row may say more.
Sound(row, given, inFlight, said) ==
    IF row.open
    THEN /\ row.attempts < MaxAttempts
         /\ IF inFlight
            THEN /\ given.tries \in 1..(row.attempts + 1)
                 /\ given.reused \/ given.tries = row.attempts + 1
                 /\ given.copies = (IF said = "ok" THEN 1 ELSE 0)
                 /\ said # "failed" => given.answered
            ELSE /\ given.tries <= row.attempts /\ given.copies = 0
                 /\ given.reused \/ given.tries = row.attempts
    ELSE /\ given.tries <= MaxAttempts /\ given.copies <= 1
         /\ given.answered \/ given.tries >= MaxAttempts \/ given.reused

MessagesAreSound ==
    \A i \in DOMAIN notes : Sound(notes[i], post[i], InFlight(i), verdict)

\* What the drain holds is still queued as it was read, unless its account
\* was deleted; whatever has the id then is new.
Entry == [user : People, attempts : Nat, live : BOOLEAN]

BatchIsQueued ==
    \A i \in DOMAIN batch :
        /\ batch[i] \in Entry
        /\ batch[i].live => /\ i \in DOMAIN notes
                            /\ notes[i].open /\ notes[i].attempts = batch[i].attempts
        /\ ~batch[i].live /\ i \in DOMAIN notes
              => /\ notes[i].open /\ notes[i].attempts = 0
                 /\ post[i].tries = 0 /\ post[i].copies = 0 /\ post[i].reused

\* There is a group to send, and one to settle.
GroupToTake ==
    /\ DOMAIN batch = {} => batch = Nothing
    /\ phase = "send" => DOMAIN batch # {}
    /\ phase \in {"blame", "settle"} => Group # {}

IInv == TypeOK /\ MessagesAreSound /\ BatchIsQueued /\ GroupToTake

LEMMA InitIInv == Init => IInv
<1> SUFFICES ASSUME Init PROVE IInv
  OBVIOUS
<1>1. /\ DOMAIN dmOk = {} /\ DOMAIN notes = {} /\ DOMAIN post = {} /\ DOMAIN batch = {}
      /\ DOMAIN roster = {} /\ watching = {} /\ phase = "idle"
  BY EmptyTable DEF Init
<1>2. world \in [People -> Standings]
  BY OutboxAssumption DEF Init
<1>3. TypeOK
  BY <1>1, <1>2 DEF Init, TypeOK
<1>4. batch = Nothing
  BY DEF Init
<1> QED
  BY <1>1, <1>3, <1>4 DEF IInv, MessagesAreSound, BatchIsQueued, GroupToTake

\* The invariant does not look at Discord's side, nor at the accounts but
\* for their types.
LEMMA OutboxUnmoved ==
    ASSUME IInv, UNCHANGED <<notes, drain, post>>
    PROVE  MessagesAreSound' /\ BatchIsQueued' /\ GroupToTake'
<1>1. UNCHANGED <<notes, post, phase, batch, addressee, verdict>>
  BY DEF drain
<1>2. \A i : InFlight(i)' = InFlight(i)
  BY <1>1 DEF InFlight
<1>3. Group' = Group
  BY <1>1 DEF Group, GroupOf
<1> QED
  BY <1>1, <1>2, <1>3 DEF IInv, MessagesAreSound, BatchIsQueued, GroupToTake

\* Without Entry's fields in the way: what the types say of a message.
LEMMA MessageType ==
    ASSUME TypeOK, NEW i \in DOMAIN notes
    PROVE  /\ i \in 1..MaxNote /\ i \in DOMAIN post
           /\ notes[i] \in Note /\ post[i] \in Post
           /\ notes[i].attempts \in Nat /\ notes[i].open \in BOOLEAN
           /\ post[i].tries \in Nat /\ post[i].copies \in Nat
  BY DEF TypeOK, Note, Post

-------------------------------------------------------------------------------
(***************************************************************************)
(* The steps that leave messages and drain alone: Discord's users, and the *)
(* four writers of dm_ok.                                                  *)
(***************************************************************************)
LEMMA SetDMStatusType ==
    ASSUME TypeOK, NEW p, NEW ok \in BOOLEAN
    PROVE  /\ DOMAIN SetDMStatus(p, ok) = DOMAIN dmOk
           /\ \A q \in DOMAIN dmOk : SetDMStatus(p, ok)[q] \in BOOLEAN
  BY DEF SetDMStatus, TypeOK

LEMMA HeardType ==
    ASSUME TypeOK, NEW p \in People, NEW says \in {"yes", "no", "error"},
           Heard(p, says) \/ answers' = answers
    PROVE  answers' \subseteq Answer
  BY DEF Heard, TypeOK, Answer

LEMMA SaysType == ASSUME NEW ok PROVE Says(ok) \in {"yes", "no", "error"}
  BY DEF Says

LEMMA OthersStep ==
    ASSUME IInv,
           \/ \E p \in People, standing \in Standings : Moves(p, standing)
           \/ \E p \in People : SignIn(p)
           \/ \E p \in DOMAIN dmOk : Watches(p) \/ TestDM(p)
           \/ \E answer \in answers : Record(answer)
           \/ Check
    PROVE  IInv'
<1> USE DEF IInv
<1>1. ASSUME NEW p \in People, NEW standing \in Standings, Moves(p, standing) PROVE IInv'
  <2>1. TypeOK'
    BY <1>1 DEF Moves, TypeOK, drain, checks
  <2> QED
    BY <1>1, <2>1, OutboxUnmoved DEF Moves
<1>2. ASSUME NEW p \in People, SignIn(p) PROVE IInv'
  <2>1. UNCHANGED <<watching, notes, phase, batch, addressee, verdict, roster, post>>
    BY <1>2 DEF SignIn, drain
  <2>2. world' \in [People -> Standings]
    BY <1>2 DEF SignIn, Exchange, TypeOK
  <2>3. /\ DOMAIN dmOk' = DOMAIN dmOk \union {p}
        /\ \A q \in DOMAIN dmOk' : dmOk'[q] \in BOOLEAN
    BY <1>2 DEF SignIn, Upserted, TypeOK
  <2>4. answers' \subseteq Answer
    BY <1>2, HeardType, SaysType DEF SignIn
  <2>5. TypeOK'
    BY <2>1, <2>2, <2>3, <2>4 DEF TypeOK
  <2> QED
    BY <2>1, <2>5, OutboxUnmoved DEF drain
<1>3. ASSUME NEW p \in DOMAIN dmOk, Watches(p) PROVE IInv'
  <2>1. TypeOK'
    BY <1>3 DEF Watches, TypeOK, drain, checks
  <2> QED
    BY <1>3, <2>1, OutboxUnmoved DEF Watches
<1>4. ASSUME NEW p \in DOMAIN dmOk, TestDM(p) PROVE IInv'
  <2>1. p \in People /\ answers' \subseteq Answer
    BY <1>4, HeardType, SaysType DEF TestDM, TypeOK
  <2>2. TypeOK'
    BY <1>4, <2>1 DEF TestDM, TypeOK, drain
  <2> QED
    BY <1>4, <2>2, OutboxUnmoved DEF TestDM
<1>5. ASSUME NEW answer \in answers, Record(answer) PROVE IInv'
  <2>1. DOMAIN dmOk' = DOMAIN dmOk /\ \A q \in DOMAIN dmOk : dmOk'[q] \in BOOLEAN
    <3>1. (answer.says = "yes") \in BOOLEAN
      OBVIOUS
    <3>2. \/ dmOk' = dmOk
          \/ dmOk' = SetDMStatus(answer.user, answer.says = "yes")
      BY <1>5 DEF Record
    <3>3. \A q \in DOMAIN dmOk : dmOk[q] \in BOOLEAN
      BY DEF TypeOK
    <3> QED
      BY <3>1, <3>2, <3>3, SetDMStatusType
  <2>2. TypeOK'
    BY <1>5, <2>1 DEF Record, TypeOK, drain
  <2> QED
    BY <1>5, <2>2, OutboxUnmoved DEF Record
<1>6. CASE StartMembershipCheck
  <2>1. DOMAIN roster' \subseteq People
    BY <1>6 DEF StartMembershipCheck, TypeOK
  <2>2. TypeOK'
    BY <1>6, <2>1 DEF StartMembershipCheck, TypeOK, drain
  <2> QED
    BY <1>6, <2>2, OutboxUnmoved DEF StartMembershipCheck
<1>7. ASSUME NEW p \in DOMAIN roster, CheckMembership(p) \/ CheckFails(p) PROVE IInv'
  <2>1. p \in People
    BY DEF TypeOK
  <2>2. roster' = Without(roster, {p})
    BY <1>7 DEF CheckMembership, CheckFails
  <2>3. DOMAIN roster' \subseteq People
    <3>1. DOMAIN Without(roster, {p}) = DOMAIN roster \ {p}
      BY WithoutTable
    <3>2. DOMAIN roster \subseteq People
      BY DEF TypeOK
    <3> QED
      BY <2>2, <3>1, <3>2
  <2>4. answers' \subseteq Answer
    BY <1>7, <2>1, HeardType, SaysType DEF CheckMembership, CheckFails
  <2>5. UNCHANGED <<world, watching, dmOk, notes, drain, post>>
    BY <1>7 DEF CheckMembership, CheckFails
  <2>6. TypeOK'
    BY <2>3, <2>4, <2>5 DEF TypeOK, drain
  <2> QED
    BY <2>5, <2>6, OutboxUnmoved
<1> QED
  BY <1>1, <1>2, <1>3, <1>4, <1>5, <1>6, <1>7 DEF Check

-------------------------------------------------------------------------------
(***************************************************************************)
(* The steps that add, free, prune and delete messages.                    *)
(***************************************************************************)
\* What is said of a message that a step leaves alone is true after it.
LEMMA SoundOfTheSame ==
    ASSUME IInv, NEW i \in DOMAIN notes, notes'[i] = notes[i], post'[i] = post[i],
           InFlight(i)' = InFlight(i), verdict' = verdict
    PROVE  Sound(notes[i], post[i], InFlight(i), verdict)'
  BY DEF IInv, MessagesAreSound, Sound

LEMMA QueueStep ==
    ASSUME IInv, NEW p \in watching, QueueNotification(p)
    PROVE  IInv'
<1> DEFINE id    == Max({0} \union DOMAIN notes) + 1
           fresh == [user |-> p, attempts |-> 0, due |-> TRUE, open |-> TRUE]
           given == [Fresh EXCEPT !.reused = id \in DOMAIN batch]
<1>1. /\ id <= MaxNote
      /\ notes' = Upserted([i \in {id} |-> fresh], notes)
      /\ post' = Upserted([i \in {id} |-> [Fresh EXCEPT !.reused = i \in DOMAIN batch]], post)
      /\ UNCHANGED <<world, watching, dmOk, phase, batch, addressee, verdict, roster, answers>>
  BY DEF QueueNotification, drain, checks
<1>2. id \in Nat \ {0} /\ id \notin DOMAIN notes
  BY NextIdIsNew, OutboxAssumption DEF IInv, TypeOK
<1>3. DOMAIN post = DOMAIN notes
  BY DEF IInv, TypeOK
<1> HIDE DEF id
<1>4. /\ DOMAIN notes' = DOMAIN notes \union {id} /\ notes'[id] = fresh
      /\ \A i \in DOMAIN notes : notes'[i] = notes[i]
  <2> DEFINE row == [i \in {id} |-> fresh]
  <2>1. DOMAIN row = {id} /\ row[id] = fresh
    OBVIOUS
  <2> HIDE DEF row, fresh
  <2>2. /\ DOMAIN Upserted(row, notes) = DOMAIN row \union DOMAIN notes
        /\ \A k \in DOMAIN row : Upserted(row, notes)[k] = row[k]
        /\ \A k \in DOMAIN notes : k \notin DOMAIN row => Upserted(row, notes)[k] = notes[k]
    BY UpsertedTable
  <2>3. notes' = Upserted(row, notes)
    BY <1>1 DEF row, fresh
  <2> QED
    BY <1>2, <2>1, <2>2, <2>3
<1>5. /\ DOMAIN post' = DOMAIN notes \union {id} /\ post'[id] = given
      /\ \A i \in DOMAIN notes : post'[i] = post[i]
  <2> DEFINE row == [i \in {id} |-> [Fresh EXCEPT !.reused = i \in DOMAIN batch]]
  <2>1. DOMAIN row = {id} /\ row[id] = given
    OBVIOUS
  <2> HIDE DEF row, given
  <2>2. /\ DOMAIN Upserted(row, post) = DOMAIN row \union DOMAIN post
        /\ \A k \in DOMAIN row : Upserted(row, post)[k] = row[k]
        /\ \A k \in DOMAIN post : k \notin DOMAIN row => Upserted(row, post)[k] = post[k]
    BY UpsertedTable
  <2>3. post' = Upserted(row, post)
    BY <1>1 DEF row
  <2> QED
    BY <1>2, <1>3, <2>1, <2>2, <2>3
<1>6. given.tries = 0 /\ given.copies = 0 /\ given.reused = (id \in DOMAIN batch) /\ given \in Post
  <2>1. ASSUME NEW b \in BOOLEAN
        PROVE  /\ [Fresh EXCEPT !.reused = b].tries = 0 /\ [Fresh EXCEPT !.reused = b].copies = 0
               /\ [Fresh EXCEPT !.reused = b].reused = b /\ [Fresh EXCEPT !.reused = b] \in Post
    BY DEF Fresh, Post
  <2>2. (id \in DOMAIN batch) \in BOOLEAN
    OBVIOUS
  <2> QED
    BY <2>1, <2>2
<1>7. fresh.open /\ fresh.attempts = 0 /\ fresh \in Note /\ fresh.user = p
  BY DEF Note, IInv, TypeOK
<1>8. id \in 1..MaxNote
  BY <1>1, <1>2, OutboxAssumption
<1> HIDE DEF fresh, given
<1>9. TypeOK'
  <2>1. p \in DOMAIN dmOk
    BY DEF IInv, TypeOK
  <2>2. \A i \in DOMAIN notes' : notes'[i] \in Note /\ notes'[i].user \in DOMAIN dmOk
    BY <1>4, <1>7, <2>1 DEF IInv, TypeOK
  <2>3. \A i \in DOMAIN post' : post'[i] \in Post
    BY <1>3, <1>5, <1>6 DEF IInv, TypeOK
  <2>4. DOMAIN notes' \subseteq 1..MaxNote /\ DOMAIN post' = DOMAIN notes'
    BY <1>4, <1>5, <1>8 DEF IInv, TypeOK
  <2> QED
    BY <1>1, <2>2, <2>3, <2>4 DEF IInv, TypeOK
<1>10. \A i : InFlight(i)' = InFlight(i)
  BY <1>1 DEF InFlight
<1>11. ~InFlight(id)
  BY <1>2 DEF InFlight, IInv, BatchIsQueued
<1>12. MessagesAreSound'
  <2> SUFFICES ASSUME NEW i \in DOMAIN notes'
               PROVE  Sound(notes[i], post[i], InFlight(i), verdict)'
    BY DEF MessagesAreSound
  <2>1. CASE i = id
    BY <2>1, <1>4, <1>5, <1>6, <1>7, <1>10, <1>11, OutboxAssumption DEF Sound
  <2>2. CASE i # id
    BY <2>2, <1>1, <1>4, <1>5, <1>10, SoundOfTheSame
  <2> QED
    BY <2>1, <2>2
<1>13. BatchIsQueued'
  <2> SUFFICES ASSUME NEW i \in DOMAIN batch
               PROVE  /\ batch[i] \in Entry
                      /\ batch[i].live => /\ i \in DOMAIN notes'
                                          /\ notes'[i].open /\ notes'[i].attempts = batch[i].attempts
                      /\ ~batch[i].live /\ i \in DOMAIN notes'
                            => /\ notes'[i].open /\ notes'[i].attempts = 0
                               /\ post'[i].tries = 0 /\ post'[i].copies = 0 /\ post'[i].reused
    BY <1>1 DEF BatchIsQueued
  <2>1. CASE i = id
    BY <2>1, <1>2, <1>4, <1>5, <1>6, <1>7 DEF IInv, BatchIsQueued
  <2>2. CASE i # id
    BY <2>2, <1>4, <1>5 DEF IInv, BatchIsQueued
  <2> QED
    BY <2>1, <2>2
<1>14. GroupToTake'
  BY <1>1 DEF IInv, GroupToTake, Group, GroupOf
<1> QED
  BY <1>9, <1>12, <1>13, <1>14 DEF IInv

LEMMA BackoffStep ==
    ASSUME IInv, NEW id \in DOMAIN notes, BackoffEnds(id)
    PROVE  IInv'
<1>1. /\ notes' = [notes EXCEPT ![id].due = TRUE]
      /\ UNCHANGED <<world, watching, dmOk, phase, batch, addressee, verdict, roster, answers, post>>
  BY DEF BackoffEnds, drain, checks
<1>2. DOMAIN notes' = DOMAIN notes
  BY <1>1
<1>3. \A i \in DOMAIN notes : notes[i] \in Note
  BY DEF IInv, TypeOK
<1>4. \A i \in DOMAIN notes : /\ notes'[i] \in Note /\ notes'[i].user = notes[i].user
                              /\ notes'[i].open = notes[i].open
                              /\ notes'[i].attempts = notes[i].attempts
  BY <1>1, <1>3 DEF Note
<1>5. TypeOK'
  BY <1>1, <1>2, <1>4 DEF IInv, TypeOK
<1>6. \A i : InFlight(i)' = InFlight(i)
  BY <1>1 DEF InFlight
<1>7. MessagesAreSound'
  BY <1>1, <1>2, <1>4, <1>6 DEF IInv, MessagesAreSound, Sound
<1>8. BatchIsQueued' /\ GroupToTake'
  BY <1>1, <1>2, <1>4 DEF IInv, BatchIsQueued, GroupToTake, Group, GroupOf
<1> QED
  BY <1>5, <1>7, <1>8 DEF IInv

LEMMA PruneStep ==
    ASSUME IInv, NEW id \in DOMAIN notes, Prune(id)
    PROVE  IInv'
<1>1. /\ ~notes[id].open
      /\ notes' = Without(notes, {id}) /\ post' = Without(post, {id})
      /\ UNCHANGED <<world, watching, dmOk, phase, batch, addressee, verdict, roster, answers>>
  BY DEF Prune, drain, checks
<1>2. DOMAIN post = DOMAIN notes
  BY DEF IInv, TypeOK
<1>3. /\ DOMAIN notes' = DOMAIN notes \ {id} /\ DOMAIN post' = DOMAIN notes \ {id}
      /\ \A i \in DOMAIN notes' : notes'[i] = notes[i] /\ post'[i] = post[i]
  BY <1>1, <1>2 DEF Without
<1>4. TypeOK'
  BY <1>1, <1>2, <1>3 DEF IInv, TypeOK
<1>5. \A i : InFlight(i)' = InFlight(i)
  BY <1>1 DEF InFlight
<1>6. MessagesAreSound'
  BY <1>1, <1>3, <1>5, SoundOfTheSame DEF MessagesAreSound
<1>7. id \notin DOMAIN batch
  BY <1>1 DEF IInv, BatchIsQueued, Entry
<1>8. BatchIsQueued' /\ GroupToTake'
  BY <1>1, <1>3, <1>7 DEF IInv, BatchIsQueued, GroupToTake, Group, GroupOf
<1> QED
  BY <1>4, <1>6, <1>8 DEF IInv

LEMMA DeleteUserStep ==
    ASSUME IInv, NEW p \in DOMAIN dmOk, DeleteUser(p)
    PROVE  IInv'
<1> DEFINE gone == {i \in DOMAIN notes : notes[i].user = p}
<1>1. /\ dmOk' = Without(dmOk, {p}) /\ watching' = watching \ {p}
      /\ notes' = Without(notes, gone) /\ post' = Without(post, gone)
      /\ batch' = [i \in DOMAIN batch |-> [batch[i] EXCEPT !.live = @ /\ i \notin gone]]
      /\ UNCHANGED <<world, phase, addressee, verdict, roster, answers>>
  BY DEF DeleteUser, checks
<1>2. DOMAIN post = DOMAIN notes
  BY DEF IInv, TypeOK
<1>3. /\ DOMAIN notes' = DOMAIN notes \ gone /\ DOMAIN post' = DOMAIN notes \ gone
      /\ \A i \in DOMAIN notes' : notes'[i] = notes[i] /\ post'[i] = post[i]
  BY <1>1, <1>2 DEF Without
<1>4. /\ DOMAIN dmOk' = DOMAIN dmOk \ {p}
      /\ \A q \in DOMAIN dmOk' : dmOk'[q] = dmOk[q]
  BY <1>1 DEF Without
<1>5. \A i \in DOMAIN notes' : notes[i].user # p
  BY <1>3
<1>6. ASSUME NEW i \in DOMAIN batch
      PROVE  /\ batch'[i] \in Entry /\ batch'[i].user = batch[i].user
             /\ batch'[i].attempts = batch[i].attempts
             /\ batch'[i].live = (batch[i].live /\ i \notin gone)
  <2>1. batch[i] \in Entry
    BY DEF IInv, BatchIsQueued
  <2> HIDE DEF gone
  <2> QED
    BY <1>1, <2>1 DEF Entry
<1>7. DOMAIN batch' = DOMAIN batch
  BY <1>1
<1>8. TypeOK'
  <2>1. \A i \in DOMAIN notes' : notes'[i] \in Note /\ notes'[i].user \in DOMAIN dmOk'
    BY <1>3, <1>4, <1>5 DEF IInv, TypeOK
  <2>2. \A i \in DOMAIN batch' : batch'[i].user \in People /\ batch'[i].attempts \in Nat
    BY <1>6, <1>7 DEF IInv, TypeOK
  <2>3. watching' \subseteq DOMAIN dmOk' /\ DOMAIN dmOk' \subseteq People
        /\ \A q \in DOMAIN dmOk' : dmOk'[q] \in BOOLEAN
    BY <1>1, <1>4 DEF IInv, TypeOK
  <2>4. /\ DOMAIN notes' \subseteq 1..MaxNote /\ DOMAIN post' = DOMAIN notes'
        /\ \A i \in DOMAIN post' : post'[i] \in Post
    BY <1>2, <1>3 DEF IInv, TypeOK
  <2> QED
    BY <1>1, <1>7, <2>1, <2>2, <2>3, <2>4 DEF IInv, TypeOK
<1>9. \A i \in DOMAIN notes' : i \notin gone
  BY <1>3
<1> HIDE DEF gone
<1>10. \A i \in DOMAIN notes' : InFlight(i)' = InFlight(i)
  BY <1>1, <1>6, <1>7, <1>9 DEF InFlight
<1>11. MessagesAreSound'
  BY <1>1, <1>3, <1>10, SoundOfTheSame DEF MessagesAreSound
<1>12. BatchIsQueued'
  <2> SUFFICES ASSUME NEW i \in DOMAIN batch'
               PROVE  /\ batch'[i] \in Entry
                      /\ batch'[i].live => /\ i \in DOMAIN notes'
                                           /\ notes'[i].open /\ notes'[i].attempts = batch'[i].attempts
                      /\ ~batch'[i].live /\ i \in DOMAIN notes'
                            => /\ notes'[i].open /\ notes'[i].attempts = 0
                               /\ post'[i].tries = 0 /\ post'[i].copies = 0 /\ post'[i].reused
    BY DEF BatchIsQueued
  <2>1. i \in DOMAIN batch
    BY <1>7
  <2> QED
    BY <2>1, <1>3, <1>6, <1>9 DEF IInv, BatchIsQueued
<1>13. GroupToTake'
  BY <1>1, <1>6, <1>7 DEF IInv, GroupToTake, Group, GroupOf
<1> QED
  BY <1>8, <1>11, <1>12, <1>13 DEF IInv

-------------------------------------------------------------------------------
(***************************************************************************)
(* DrainOnce.                                                              *)
(***************************************************************************)
LEMMA StartDrainStep == ASSUME IInv, StartDrain PROVE IInv'
<1>1. PICK read \in SUBSET Pending : Begin(read)
  <2>1. Begin({i \in Pending : Cardinality({j \in Pending : j < i}) < Limit})
    BY DEF StartDrain
  <2> QED
    BY <2>1
<1>2. /\ read # {} /\ phase = "idle" /\ phase' = "send"
      /\ batch' = [i \in read |->
                      [user |-> notes[i].user, attempts |-> notes[i].attempts, live |-> TRUE]]
      /\ UNCHANGED <<world, watching, dmOk, notes, addressee, verdict, roster, answers, post>>
  BY <1>1 DEF Begin, checks
<1>3. \A i \in read : /\ i \in DOMAIN notes /\ notes[i].open
                      /\ notes[i].user \in People /\ notes[i].attempts \in Nat
  BY DEF Pending, IInv, TypeOK, Note
<1>4. /\ DOMAIN batch' = read
      /\ \A i \in read : /\ batch'[i] \in Entry /\ batch'[i].live
                         /\ batch'[i].user \in People /\ batch'[i].attempts \in Nat
                         /\ batch'[i].attempts = notes[i].attempts
  BY <1>2, <1>3 DEF Entry
<1>5. TypeOK'
  <2>1. read \subseteq 1..MaxNote
    BY <1>3 DEF IInv, TypeOK
  <2> QED
    BY <1>2, <1>4, <2>1 DEF IInv, TypeOK
<1>6. \A i : ~InFlight(i) /\ ~InFlight(i)'
  BY <1>2 DEF InFlight
<1>7. MessagesAreSound'
  BY <1>2, <1>6 DEF IInv, MessagesAreSound, Sound
<1>8. BatchIsQueued' /\ GroupToTake'
  BY <1>2, <1>3, <1>4 DEF BatchIsQueued, GroupToTake
<1> QED
  BY <1>5, <1>7, <1>8 DEF IInv

\* The message at the head of the batch belongs to somebody.
LEMMA SomebodyIsNext ==
    ASSUME IInv, phase = "send"
    PROVE  Min(DOMAIN batch) \in DOMAIN batch
<1>1. DOMAIN batch \subseteq Nat /\ DOMAIN batch # {}
  BY OutboxAssumption DEF IInv, TypeOK, GroupToTake
<1> QED
  BY <1>1, LeastExists

LEMMA SendStep == ASSUME IInv, Send PROVE IInv'
<1> DEFINE p    == batch[Min(DOMAIN batch)].user
           same == {i \in GroupOf(p) : batch[i].live}
<1>1. phase = "send" /\ addressee' = p
      /\ UNCHANGED <<world, watching, dmOk, notes, batch, roster, answers>>
  BY DEF Send, checks
<1>2. Min(DOMAIN batch) \in DOMAIN batch
  BY <1>1, SomebodyIsNext
<1>3. p \in People /\ world[p] \in Standings
  BY <1>2 DEF IInv, TypeOK
<1>4. PICK sent \in Sends[world[p]] :
         /\ verdict' = sent.says
         /\ phase' = IF sent.says = "undeliverable" THEN "blame" ELSE "settle"
         /\ post' = [i \in DOMAIN post |->
              IF i \notin same THEN post[i]
              ELSE [post[i] EXCEPT !.answered = @ \/ sent.copies > 0 \/ sent.says = "undeliverable",
                                   !.tries = IF @ > MaxAttempts THEN @ ELSE @ + 1,
                                   !.copies = IF sent.says = "ok" THEN @ + sent.copies ELSE @]]
  BY DEF Send
<1>5. /\ sent.copies \in Nat /\ sent.says \in {"ok", "undeliverable", "failed"}
      /\ sent.says = "ok" => sent.copies = 1
  BY <1>3, SendLeavesOneCopy
<1>6. phase' \in {"blame", "settle"}
  BY <1>4
<1>7. Min(DOMAIN batch) \in GroupOf(p)
  BY <1>2 DEF GroupOf
<1> HIDE DEF p
<1>8. \A i : ~InFlight(i)
  BY <1>1 DEF InFlight
<1>9. \A i : InFlight(i)' <=> i \in same
  BY <1>1, <1>6 DEF InFlight, GroupOf
<1>10. DOMAIN post' = DOMAIN notes /\ DOMAIN post = DOMAIN notes
  BY <1>4 DEF IInv, TypeOK
<1>11. ASSUME NEW i \in DOMAIN notes, i \notin same
       PROVE  post'[i] = post[i]
  BY <1>4, <1>10, <1>11
<1>12. ASSUME NEW i \in DOMAIN notes, i \in same
       PROVE  /\ notes[i].open /\ notes[i].attempts \in Nat /\ notes[i].attempts < MaxAttempts
              /\ post'[i] \in Post
              /\ post'[i].reused = post[i].reused
              /\ post'[i].tries = post[i].tries + 1
              /\ post'[i].copies = (IF sent.says = "ok" THEN 1 ELSE 0)
              /\ sent.says # "failed" => post'[i].answered
  <2>1. notes[i].open
    BY <1>12 DEF IInv, BatchIsQueued, GroupOf
  <2>2. /\ post[i] \in Post /\ notes[i].attempts \in Nat
        /\ post[i].tries \in Nat /\ post[i].copies \in Nat
    BY MessageType DEF IInv
  <2>3. /\ notes[i].attempts < MaxAttempts /\ post[i].tries <= notes[i].attempts
        /\ post[i].copies = 0
    BY <1>8, <2>1 DEF IInv, MessagesAreSound, Sound
  <2>4. ~(post[i].tries > MaxAttempts)
    BY <2>2, <2>3, OutboxAssumption
  <2>5. post'[i] = [post[i] EXCEPT
                      !.answered = @ \/ sent.copies > 0 \/ sent.says = "undeliverable",
                      !.tries = IF @ > MaxAttempts THEN @ ELSE @ + 1,
                      !.copies = IF sent.says = "ok" THEN @ + sent.copies ELSE @]
    BY <1>4, <1>10, <1>12
  <2>6. /\ post'[i].reused = post[i].reused
        /\ post'[i].tries = post[i].tries + 1
        /\ post'[i].copies = IF sent.says = "ok" THEN post[i].copies + sent.copies ELSE post[i].copies
        /\ post'[i].answered = (post[i].answered \/ sent.copies > 0 \/ sent.says = "undeliverable")
    BY <2>2, <2>4, <2>5 DEF Post
  <2>7. post'[i] \in Post
    <3>1. post[i].copies + sent.copies \in Nat /\ post[i].tries + 1 \in Nat
      BY <1>5, <2>2
    <3>2. (post[i].answered \/ sent.copies > 0 \/ sent.says = "undeliverable") \in BOOLEAN
      OBVIOUS
    <3> QED
      BY <2>2, <2>4, <2>5, <3>1, <3>2 DEF Post
  <2>8. post'[i].copies = (IF sent.says = "ok" THEN 1 ELSE 0)
    BY <1>5, <2>3, <2>6
  <2>9. sent.says # "failed" => post'[i].answered
    <3>1. sent.says = "ok" => sent.copies > 0
      BY <1>5
    <3>2. sent.says # "failed" => sent.copies > 0 \/ sent.says = "undeliverable"
      BY <1>5, <3>1
    <3> QED
      BY <2>6, <3>2
  <2>10. notes[i].attempts \in Nat /\ notes[i].attempts < MaxAttempts
    BY <2>2, <2>3
  <2> QED
    BY <2>1, <2>6, <2>7, <2>8, <2>9, <2>10
<1> HIDE DEF same
<1>13. TypeOK'
  <2>1. \A i \in DOMAIN notes : post'[i] \in Post
    BY <1>10, <1>11, <1>12 DEF IInv, TypeOK
  <2> QED
    BY <1>1, <1>3, <1>4, <1>5, <1>6, <1>10, <2>1 DEF IInv, TypeOK
<1>14. MessagesAreSound'
  <2> SUFFICES ASSUME NEW i \in DOMAIN notes
               PROVE  Sound(notes[i], post[i], InFlight(i), verdict)'
    BY <1>1 DEF MessagesAreSound
  <2>1. Sound(notes[i], post[i], InFlight(i), verdict) /\ ~InFlight(i)
    BY <1>8 DEF IInv, MessagesAreSound
  <2>2. /\ post[i].tries \in Nat /\ notes[i].attempts \in Nat
    BY MessageType DEF IInv
  <2>3. CASE i \in same
    <3>1. notes'[i] = notes[i] /\ verdict' = sent.says /\ InFlight(i)'
      BY <1>1, <1>4, <1>9, <2>3
    <3>2. /\ post[i].tries <= notes[i].attempts
          /\ post[i].reused \/ post[i].tries = notes[i].attempts
      BY <1>12, <2>1, <2>3 DEF Sound
    <3>3. post'[i].tries \in 1..(notes[i].attempts + 1)
      BY <1>12, <2>2, <2>3, <3>2
    <3>4. post'[i].reused \/ post'[i].tries = notes[i].attempts + 1
      BY <1>12, <2>3, <3>2
    <3> QED
      BY <1>12, <2>3, <3>1, <3>3, <3>4 DEF Sound
  <2>4. CASE i \notin same
    <3>1. notes'[i] = notes[i] /\ post'[i] = post[i] /\ ~InFlight(i)'
      BY <1>1, <1>9, <1>11, <2>4
    <3> QED
      BY <2>1, <3>1 DEF Sound
  <2> QED
    BY <2>3, <2>4
<1>15. BatchIsQueued'
  <2>1. ASSUME NEW i \in DOMAIN batch, ~batch[i].live, i \in DOMAIN notes
        PROVE  post'[i] = post[i]
    BY <1>11, <2>1 DEF same
  <2> QED
    BY <1>1, <2>1 DEF IInv, BatchIsQueued
<1>16. GroupToTake'
  BY <1>1, <1>6, <1>7 DEF GroupToTake, Group, GroupOf
<1> QED
  BY <1>13, <1>14, <1>15, <1>16 DEF IInv

LEMMA BlameStep == ASSUME IInv, Blame PROVE IInv'
<1>1. /\ phase = "blame" /\ phase' = "settle" /\ dmOk' = SetDMStatus(addressee, FALSE)
      /\ UNCHANGED <<world, watching, notes, batch, addressee, verdict, roster, answers, post>>
  BY DEF Blame, checks
<1>2. DOMAIN dmOk' = DOMAIN dmOk /\ \A q \in DOMAIN dmOk : dmOk'[q] \in BOOLEAN
  BY <1>1, SetDMStatusType DEF IInv
<1>3. TypeOK'
  BY <1>1, <1>2 DEF IInv, TypeOK
<1>4. \A i : InFlight(i)' = InFlight(i)
  BY <1>1 DEF InFlight
<1>5. MessagesAreSound' /\ BatchIsQueued' /\ GroupToTake'
  BY <1>1, <1>4 DEF IInv, MessagesAreSound, BatchIsQueued, GroupToTake, Group, GroupOf
<1> QED
  BY <1>3, <1>5 DEF IInv

\* The batch is done with, or there is somebody in it yet.
LEMMA OnwardTakesAGroup ==
    ASSUME NEW table, NEW gone, Onward(Without(table, gone))
    PROVE  /\ phase' \in {"idle", "send"} /\ addressee' = Nobody /\ verdict' = "ok"
           /\ phase' = "send" => DOMAIN Without(table, gone) # {}
  BY EmptyTable DEF Onward, NoGroup

LEMMA ClearStep == ASSUME IInv, Clear PROVE IInv'
<1>1. /\ phase = "clear" /\ dmOk' = SetDMStatus(addressee, TRUE)
      /\ phase' = (IF batch = Nothing THEN "idle" ELSE "send")
      /\ addressee' = Nobody /\ verdict' = "ok"
      /\ UNCHANGED <<world, watching, notes, batch, roster, answers, post>>
  BY DEF Clear, checks, Onward, NoGroup
<1>2. DOMAIN dmOk' = DOMAIN dmOk /\ \A q \in DOMAIN dmOk : dmOk'[q] \in BOOLEAN
  BY <1>1, SetDMStatusType DEF IInv
<1>3. phase' \in {"idle", "send"}
  BY <1>1
<1>4. TypeOK'
  BY <1>1, <1>2, <1>3 DEF IInv, TypeOK
<1>5. \A i : ~InFlight(i) /\ ~InFlight(i)'
  BY <1>1, <1>3 DEF InFlight
<1>6. MessagesAreSound' /\ BatchIsQueued'
  BY <1>1, <1>5 DEF IInv, MessagesAreSound, Sound, BatchIsQueued
<1>7. GroupToTake'
  BY <1>1, <1>3 DEF IInv, GroupToTake
<1> QED
  BY <1>4, <1>6, <1>7 DEF IInv

-------------------------------------------------------------------------------
(***************************************************************************)
(* Settling a message, whatever has its id by now.                         *)
(***************************************************************************)
LEMMA SettleStep == ASSUME IInv, Settle PROVE IInv'
<1>0. PICK id : id = Min(Group)
  OBVIOUS
<1> DEFINE left == Without(batch, {id})
<1>1. /\ phase = "settle" /\ notes' = Settled(id) /\ batch' = left
      /\ \/ Group # {id} /\ phase' = "settle" /\ addressee' = addressee /\ verdict' = verdict
         \/ Group = {id} /\ phase' = "clear" /\ addressee' = addressee /\ verdict' = verdict
         \/ Group = {id} /\ Onward(left)
      /\ UNCHANGED <<world, watching, dmOk, roster, answers, post>>
  BY <1>0 DEF Settle, checks
<1>2. id \in Group /\ id \in DOMAIN batch /\ batch[id].user = addressee
  <2>1. Group \subseteq Nat /\ Group # {}
    BY <1>1, OutboxAssumption DEF IInv, TypeOK, GroupToTake, Group, GroupOf
  <2>2. id \in Group
    BY <1>0, <2>1, LeastExists
  <2> QED
    BY <2>2 DEF Group, GroupOf
<1>3. /\ DOMAIN batch' = DOMAIN batch \ {id}
      /\ \A i \in DOMAIN batch' : batch'[i] = batch[i]
      /\ DOMAIN batch' = {} => batch' = Nothing
  BY <1>1, EmptyTable DEF Without
<1>4. batch[id] \in Entry /\ batch[id].attempts \in Nat /\ batch[id].live \in BOOLEAN
  BY <1>2 DEF IInv, BatchIsQueued, Entry
<1>5. /\ phase' \in {"settle", "clear", "idle", "send"}
      /\ phase' = "settle" <=> Group # {id}
      /\ phase' = "settle" => addressee' = addressee /\ verdict' = verdict
      /\ phase' = "send" => DOMAIN left # {}
      /\ addressee' \in People \union {Nobody} /\ verdict' \in {"ok", "undeliverable", "failed"}
  <2>1. addressee \in People \union {Nobody} /\ verdict \in {"ok", "undeliverable", "failed"}
    BY DEF IInv, TypeOK
  <2> QED
    BY <1>1, <2>1, OnwardTakesAGroup
<1>6. /\ DOMAIN notes' = DOMAIN notes
      /\ \A i \in DOMAIN notes : i # id => notes'[i] = notes[i]
      /\ id \in DOMAIN notes => notes'[id] = Outcome(notes[id], batch[id].attempts)
  BY <1>1 DEF Settled
<1>7. ASSUME id \in DOMAIN notes
      PROVE  /\ notes[id] \in Note /\ notes[id].open /\ notes[id].attempts \in Nat
             /\ \/ /\ notes'[id] \in Note /\ notes'[id].user = notes[id].user
                   /\ notes'[id].open /\ notes'[id].attempts = notes[id].attempts + 1
                   /\ verdict = "failed" /\ batch[id].attempts + 1 < MaxAttempts
                \/ /\ notes'[id] \in Note /\ notes'[id].user = notes[id].user
                   /\ ~notes'[id].open
                   /\ verdict # "failed" \/ ~(batch[id].attempts + 1 < MaxAttempts)
  <2>1. notes[id] \in Note /\ notes[id].attempts \in Nat
    BY <1>7, MessageType DEF IInv
  <2>2. notes[id].open
    BY <1>2, <1>7 DEF IInv, BatchIsQueued, Entry
  <2>3. /\ Retry(notes[id]) \in Note /\ Retry(notes[id]).user = notes[id].user
        /\ Retry(notes[id]).open = notes[id].open
        /\ Retry(notes[id]).attempts = notes[id].attempts + 1
    <3>1. notes[id].attempts + 1 \in Nat
      BY <2>1
    <3> QED
      BY <2>1, <3>1 DEF Retry, Note
  <2>4. /\ Close(notes[id]) \in Note /\ Close(notes[id]).user = notes[id].user
        /\ ~Close(notes[id]).open
    BY <2>1 DEF Close, Note
  <2> QED
    BY <1>6, <1>7, <2>1, <2>2, <2>3, <2>4 DEF Outcome
<1>8. TypeOK'
  <2>1. \A i \in DOMAIN notes' : notes'[i] \in Note /\ notes'[i].user \in DOMAIN dmOk
    BY <1>6, <1>7 DEF IInv, TypeOK
  <2>2. phase' \in {"idle", "send", "blame", "settle", "clear"}
    BY <1>5
  <2> QED
    BY <1>1, <1>3, <1>5, <1>6, <2>1, <2>2 DEF IInv, TypeOK
<1>9. ASSUME NEW i \in DOMAIN notes, i # id
      PROVE  InFlight(i)' = InFlight(i)
  <2>1. CASE phase' = "settle"
    BY <1>1, <1>3, <1>5, <1>9, <2>1 DEF InFlight
  <2>2. CASE phase' # "settle"
    <3>1. Group = {id}
      BY <1>5, <2>2
    <3>2. ~InFlight(i)
      BY <1>9, <3>1 DEF InFlight, Group, GroupOf
    <3>3. ~InFlight(i)'
      BY <1>5, <2>2 DEF InFlight
    <3> QED
      BY <3>2, <3>3 DEF InFlight
  <2> QED
    BY <2>1, <2>2
<1>10. InFlight(id) <=> batch[id].live
  BY <1>1, <1>2 DEF InFlight
<1>11. ~InFlight(id)'
  BY <1>3 DEF InFlight
<1>12. MessagesAreSound'
  <2> SUFFICES ASSUME NEW i \in DOMAIN notes
               PROVE  Sound(notes[i], post[i], InFlight(i), verdict)'
    BY <1>6 DEF MessagesAreSound
  <2>1. CASE i # id
    <3>1. notes'[i] = notes[i] /\ post'[i] = post[i] /\ InFlight(i)' = InFlight(i)
      BY <1>1, <1>6, <1>9, <2>1
    <3>2. InFlight(i)' => verdict' = verdict
      BY <1>5 DEF InFlight
    <3>3. Sound(notes[i], post[i], InFlight(i), verdict)
      BY DEF IInv, MessagesAreSound
    <3> QED
      BY <3>1, <3>2, <3>3 DEF Sound
  <2>2. CASE i = id /\ batch[id].live
    <3>1. /\ notes[id].attempts = batch[id].attempts /\ notes[id].attempts \in Nat
          /\ post[id].tries \in Nat /\ post[id].copies \in Nat
      BY <1>2, <1>7, <2>2, MessageType DEF IInv, BatchIsQueued
    <3>2. /\ notes[id].attempts < MaxAttempts
          /\ post[id].tries \in 1..(notes[id].attempts + 1)
          /\ post[id].reused \/ post[id].tries = notes[id].attempts + 1
          /\ post[id].copies = (IF verdict = "ok" THEN 1 ELSE 0)
          /\ verdict # "failed" => post[id].answered
      BY <1>7, <1>10, <2>2 DEF IInv, MessagesAreSound, Sound
    <3>3. verdict \in {"ok", "undeliverable", "failed"}
      BY DEF IInv, TypeOK
    <3>4. post[id].copies <= 1 /\ (verdict = "failed" => post[id].copies = 0)
      BY <3>2
    <3>5. CASE notes'[id].open
      <4>1. /\ notes'[id].attempts = notes[id].attempts + 1 /\ verdict = "failed"
            /\ notes[id].attempts + 1 < MaxAttempts
        BY <1>7, <2>2, <3>1, <3>5
      <4>2. post[id].tries <= notes'[id].attempts
        BY <3>1, <3>2, <4>1
      <4>3. post[id].reused \/ post[id].tries = notes'[id].attempts
        BY <3>2, <4>1
      <4> QED
        BY <1>1, <1>11, <2>2, <3>4, <3>5, <4>1, <4>2, <4>3 DEF Sound
    <3>6. CASE ~notes'[id].open
      <4>1. verdict # "failed" \/ ~(notes[id].attempts + 1 < MaxAttempts)
        BY <1>7, <2>2, <3>1, <3>6
      <4>2. post[id].tries <= MaxAttempts
        BY <3>1, <3>2, OutboxAssumption
      <4>3. ASSUME verdict = "failed" PROVE post[id].tries >= MaxAttempts \/ post[id].reused
        BY <3>1, <3>2, <4>1, <4>3, OutboxAssumption
      <4> QED
        BY <1>1, <2>2, <3>2, <3>3, <3>4, <3>6, <4>2, <4>3 DEF Sound
    <3> QED
      BY <3>5, <3>6
  <2>3. CASE i = id /\ ~batch[id].live
    <3>1. /\ notes[id].attempts = 0 /\ post[id].tries = 0 /\ post[id].copies = 0
          /\ post[id].reused
      BY <1>2, <2>3 DEF IInv, BatchIsQueued
    <3>2. CASE notes'[id].open
      <4>1. notes'[id].attempts = 1 /\ 1 < MaxAttempts
        BY <1>4, <1>7, <2>3, <3>1, <3>2, OutboxAssumption
      <4> QED
        BY <1>1, <1>11, <2>3, <3>1, <3>2, <4>1 DEF Sound
    <3>3. CASE ~notes'[id].open
      BY <1>1, <2>3, <3>1, <3>3, OutboxAssumption DEF Sound
    <3> QED
      BY <3>2, <3>3
  <2> QED
    BY <1>4, <2>1, <2>2, <2>3
<1>13. BatchIsQueued'
  <2> SUFFICES ASSUME NEW i \in DOMAIN batch'
               PROVE  /\ batch'[i] \in Entry
                      /\ batch'[i].live => /\ i \in DOMAIN notes'
                                           /\ notes'[i].open /\ notes'[i].attempts = batch'[i].attempts
                      /\ ~batch'[i].live /\ i \in DOMAIN notes'
                            => /\ notes'[i].open /\ notes'[i].attempts = 0
                               /\ post'[i].tries = 0 /\ post'[i].copies = 0 /\ post'[i].reused
    BY DEF BatchIsQueued
  <2>1. i \in DOMAIN batch /\ i # id /\ batch'[i] = batch[i] /\ post' = post
    BY <1>1, <1>3
  <2>2. i \in DOMAIN notes => notes'[i] = notes[i]
    BY <1>6, <2>1
  <2> QED
    BY <1>6, <2>1, <2>2 DEF IInv, BatchIsQueued
<1>14. GroupToTake'
  <2>1. ASSUME phase' = "settle" PROVE Group' # {}
    <3>1. Group # {id}
      BY <1>5, <2>1
    <3>2. PICK i \in Group : i # id
      BY <1>2, <3>1
    <3>3. i \in Group'
      BY <1>3, <1>5, <2>1, <3>2 DEF Group, GroupOf
    <3> QED
      BY <3>3
  <2>2. ASSUME phase' = "send" PROVE DOMAIN batch' # {}
    BY <1>1, <1>5, <2>2
  <2> QED
    BY <1>3, <1>5, <2>1, <2>2 DEF GroupToTake
<1> QED
  BY <1>8, <1>12, <1>13, <1>14 DEF IInv

-------------------------------------------------------------------------------
(***************************************************************************)
(* An interruption: what was in flight counts as not tried.                *)
(***************************************************************************)
LEMMA InterruptedStep ==
    ASSUME IInv, Interrupted, UNCHANGED dmOk,
           DOMAIN roster' \subseteq People, answers' \subseteq Answer
    PROVE  IInv'
<1> DEFINE unsettled == {i \in Group : phase \in {"blame", "settle"} /\ batch[i].live}
<1>1. /\ phase' = "idle" /\ batch' = Nothing /\ addressee' = Nobody /\ verdict' = "ok"
      /\ post' = [i \in DOMAIN post |->
           IF i \notin unsettled THEN post[i]
           ELSE [post[i] EXCEPT !.tries = @ - 1,
                                !.copies = IF verdict = "ok" THEN @ - 1 ELSE @]]
      /\ UNCHANGED <<world, watching, notes>>
  BY DEF Interrupted, NoGroup
<1>2. \A i : i \in unsettled <=> InFlight(i)
  BY DEF InFlight, Group, GroupOf
<1> HIDE DEF unsettled
<1>3. DOMAIN batch' = {} /\ \A i : ~InFlight(i)'
  BY <1>1, EmptyTable DEF InFlight
<1>4. DOMAIN post' = DOMAIN notes /\ DOMAIN post = DOMAIN notes
  BY <1>1 DEF IInv, TypeOK
<1>5. ASSUME NEW i \in DOMAIN notes
      PROVE  post'[i] \in Post /\ Sound(notes[i], post'[i], FALSE, verdict)
  <2>1. Sound(notes[i], post[i], InFlight(i), verdict)
    BY DEF IInv, MessagesAreSound
  <2>2. /\ post[i] \in Post /\ notes[i].attempts \in Nat
        /\ post[i].tries \in Nat /\ post[i].copies \in Nat
    BY MessageType DEF IInv
  <2>3. CASE ~InFlight(i)
    <3>1. post'[i] = post[i]
      BY <1>1, <1>2, <1>4, <2>3
    <3> QED
      BY <2>1, <2>2, <2>3, <3>1 DEF Sound
  <2>4. CASE InFlight(i)
    <3>1. notes[i].open
      BY <2>4 DEF InFlight, IInv, BatchIsQueued
    <3>2. /\ notes[i].attempts < MaxAttempts
          /\ post[i].tries \in 1..(notes[i].attempts + 1)
          /\ post[i].reused \/ post[i].tries = notes[i].attempts + 1
          /\ post[i].copies = (IF verdict = "ok" THEN 1 ELSE 0)
      BY <2>1, <2>4, <3>1 DEF Sound
    <3>3. post'[i] = [post[i] EXCEPT !.tries = @ - 1,
                                     !.copies = IF verdict = "ok" THEN @ - 1 ELSE @]
      BY <1>1, <1>2, <1>4, <2>4
    <3>4. /\ post'[i].tries = post[i].tries - 1
          /\ post'[i].copies = (IF verdict = "ok" THEN post[i].copies - 1 ELSE post[i].copies)
          /\ post'[i].reused = post[i].reused
      BY <2>2, <3>3 DEF Post
    <3>5. post[i].tries - 1 \in Nat /\ post[i].tries - 1 <= notes[i].attempts
      BY <2>2, <3>2
    <3>6. (IF verdict = "ok" THEN post[i].copies - 1 ELSE post[i].copies) = 0
      BY <3>2
    <3>7. post'[i] \in Post
      <4>1. \A a, b \in Nat : [post[i] EXCEPT !.tries = a, !.copies = b] \in Post
        BY <2>2 DEF Post
      <4>2. CASE verdict = "ok"
        <5>1. post'[i] = [post[i] EXCEPT !.tries = @ - 1, !.copies = @ - 1]
          BY <3>3, <4>2
        <5>2. post[i].copies - 1 \in Nat
          BY <3>6, <4>2
        <5> QED
          BY <3>5, <4>1, <5>1, <5>2
      <4>3. CASE verdict # "ok"
        <5>1. post'[i] = [post[i] EXCEPT !.tries = @ - 1, !.copies = @]
          BY <3>3, <4>3
        <5> QED
          BY <2>2, <3>5, <4>1, <5>1
      <4> QED
        BY <4>2, <4>3
    <3>8. post[i].reused \/ post[i].tries - 1 = notes[i].attempts
      BY <2>2, <3>2
    <3> QED
      BY <3>1, <3>2, <3>4, <3>5, <3>6, <3>7, <3>8 DEF Sound
  <2> QED
    BY <2>3, <2>4
<1>6. TypeOK'
  <2>1. \A i \in DOMAIN post' : post'[i] \in Post
    BY <1>4, <1>5
  <2> QED
    BY <1>1, <1>3, <1>4, <2>1 DEF IInv, TypeOK
<1>7. MessagesAreSound'
  BY <1>1, <1>3, <1>5 DEF MessagesAreSound, Sound
<1>8. BatchIsQueued' /\ GroupToTake'
  BY <1>1, <1>3 DEF BatchIsQueued, GroupToTake
<1> QED
  BY <1>6, <1>7, <1>8 DEF IInv

LEMMA NextIInv == IInv /\ [Next]_vars => IInv'
<1> SUFFICES ASSUME IInv, [Next]_vars PROVE IInv'
  OBVIOUS
<1>1. CASE Abort \/ Crash
  <2>1. Interrupted /\ UNCHANGED dmOk
    BY <1>1 DEF Abort, Crash
  <2>2. DOMAIN roster' \subseteq People /\ answers' \subseteq Answer
    BY <1>1, EmptyTable DEF Abort, Crash, checks, IInv, TypeOK
  <2> QED
    BY <2>1, <2>2, InterruptedStep
<1>2. CASE DrainOnce
  BY <1>2, StartDrainStep, SendStep, BlameStep, SettleStep, ClearStep DEF DrainOnce
<1>3. CASE UNCHANGED vars
  <2>1. UNCHANGED <<world, watching, dmOk, notes, phase, batch, addressee, verdict, roster,
                    answers, post>>
    BY <1>3 DEF vars, drain, checks
  <2>2. TypeOK'
    BY <2>1 DEF IInv, TypeOK
  <2> QED
    BY <2>1, <2>2, OutboxUnmoved DEF IInv, drain
<1>4. CASE \/ \E p \in People, standing \in Standings : Moves(p, standing)
           \/ \E p \in People : SignIn(p)
           \/ \E p \in DOMAIN dmOk : Watches(p) \/ TestDM(p)
           \/ \E answer \in answers : Record(answer)
           \/ Check
  BY <1>4, OthersStep
<1>5. ASSUME NEW p \in DOMAIN dmOk, DeleteUser(p) PROVE IInv'
  BY <1>5, DeleteUserStep
<1>6. ASSUME NEW p \in watching, QueueNotification(p) PROVE IInv'
  BY <1>6, QueueStep
<1>7. ASSUME NEW id \in DOMAIN notes, BackoffEnds(id) \/ Prune(id) PROVE IInv'
  BY <1>7, BackoffStep, PruneStep
<1> QED
  BY <1>1, <1>2, <1>3, <1>4, <1>5, <1>6, <1>7 DEF Next

(***************************************************************************)
(* The outbox's row, its attempts and the copies that Discord has agree in *)
(* every state, whoever is interrupted and whatever is deleted when.       *)
(***************************************************************************)
THEOREM Inductive == Spec => []IInv
  BY InitIInv, NextIInv, PTL DEF Spec

-------------------------------------------------------------------------------
(***************************************************************************)
(* Every variable keeps its type; a message's account exists.              *)
(***************************************************************************)
THEOREM TypeCorrect == Spec => []TypeOK
<1>1. IInv => TypeOK
  BY DEF IInv
<1> QED
  BY <1>1, Inductive, PTL

(***************************************************************************)
(* DrainOnce settles no message that Discord has not taken, nor refused    *)
(* for good, before MaxAttempts attempts at it, except under an id that    *)
(* was used again.                                                         *)
(***************************************************************************)
THEOREM NothingIsLostHolds == Spec => []NothingIsLost
<1>1. IInv => NothingIsLost
  BY DEF IInv, MessagesAreSound, Sound, NothingIsLost, Handled
<1> QED
  BY <1>1, Inductive, PTL

(***************************************************************************)
(* DrainOnce sends no message a second time without a crash, a store error *)
(* or a lost answer: what is queued has no copy that is not accounted for. *)
(***************************************************************************)
THEOREM NothingIsSaidTwiceHolds == Spec => []NothingIsSaidTwice
<1>1. ASSUME IInv, NEW i \in DOMAIN notes PROVE post[i].copies <= 1
  BY <1>1 DEF IInv, MessagesAreSound, Sound
<1>2. IInv => NothingIsSaidTwice
  BY <1>1 DEF IInv, TypeOK, NothingIsSaidTwice
<1> QED
  BY <1>2, Inductive, PTL

(***************************************************************************)
(* DrainOnce hands a message to Discord at most MaxAttempts times.         *)
(***************************************************************************)
THEOREM AttemptsAreBoundedHolds == Spec => []AttemptsAreBounded
<1>1. ASSUME IInv, NEW i \in DOMAIN notes PROVE post[i].tries <= MaxAttempts
  <2>1. /\ notes[i].attempts \in Nat /\ post[i].tries \in Nat
    BY <1>1, MessageType DEF IInv
  <2> QED
    BY <1>1, <2>1, OutboxAssumption DEF IInv, MessagesAreSound, Sound
<1>2. IInv => AttemptsAreBounded
  BY <1>1 DEF IInv, TypeOK, AttemptsAreBounded
<1> QED
  BY <1>2, Inductive, PTL

===============================================================================
