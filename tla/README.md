# HopReact: a verification development

HopReact watches the nodes and observers of a MeshCore radio mesh through the CoreScope
API and sends Discord direct messages when one of them goes quiet, comes back, or runs
low on battery. It is one Go process with a SQLite database. This directory holds TLA+
models of its core logic, translated from the code under `src/`, the TLC configurations
that check them on small instances, and theorems proved with TLAPS.

Paths below are relative to `src/`; `alert.go` is `internal/alert/alert.go`, and so on.
`PROJECT.json` maps every definition to the lines it models and lists runs, mutants,
findings, hazards and theorems.

## 1. Inventory

### Components

| Component | State it keeps | Operations | What makes it correct |
| --- | --- | --- | --- |
| **Alert policy** `alert/alert.go` | none (pure) | `Evaluate`, `promote`, `recover_`, `JudgeFeed`, `TripBreaker` | a message only after `confirm_polls` agreeing polls; one alert per outage; no recovery out of the blue; silence on first sight |
| **Poller, evaluation** `poller/poller.go` `evaluate` | a plan, in memory | four reads, judge, breaker, one write transaction | a row and the message it justifies are one commit; survives edits and crashes under it |
| **Poller, feed verdict** `PollOnce` | none | start run, fetch, upsert targets, judge, finish run | a frozen, small or failed feed is not evaluated, a healthy one is |
| **Poller, ingestion** `ingest`, `attribute/attribute.go` | `feed_cursor`, `target_activity` | read packets, attribute hops, widen the cursor | a packet counts once; cursor and evidence move together; an ambiguous hop counts for nobody |
| **Battery alerts** `alert/battery.go`, `poller/battery.go`, `store/battery.go` | `battery_rules`, `battery_readings` | classify with hysteresis, confirm, add rules automatically, compare-and-swap save | levels are confirmed by distinct readings; an owner's edit during the check wins |
| **Store** `store/queries.go`, `models.go`, migrations | SQLite: users, watches, watch_rules, watch_state, targets, poll_runs, notifications, ... | one transaction per write, reads on a second pool | foreign keys, cascades, monotonic timestamps |
| **Notifier** `notify/notify.go` | the batch in hand | `DrainOnce`: read, send per user, settle, note dm_ok | nothing is lost, nothing said twice but for a crash, bounded retries, nobody starves |
| **Delivery status** `main.go` `runMembershipChecks`, `web.go` sign-in and test DM | `users.dm_ok` | four writers, each from an answer obtained earlier | someone who cannot be reached is shown so |
| **Discord client** `discord/discord.go` | none | `Send`, `CheckMembership`, `Exchange`, one retry of a rate limit | permanent and passing failures are told apart; a request is repeated only when nothing was done |
| **Discord gateway** `discord/gateway.go` | a session to resume; per connection four goroutines, a channel, a socket | dial, identify or resume, heartbeat, refresh, back off | the last socket is closed and its writer gone before the next dial; a lost connection is noticed and replaced; shutdown gets through |
| **Web layer** `web/*.go` | sessions, cookies | sign in and out, create/edit/delete watches, rules, battery rules, account | a user touches only his own rows, also through an old page; a deleted account leaves nothing; limits hold |
| **Start-up** `cmd/hopreact` | directory lock, contexts | open, migrate, lock, start the loops, shut down | one process per data directory |
| **CoreScope client** `corescope/*.go` | none | fetch and decode nodes, observers, packets, battery reports | what it cannot decode is an error, never an empty mesh |
| **Analysis and display** trend, batteryanalysis, batteryview, status, health, weather, sun, geo | caches | floating-point statistics, views | reads only |
| **Configuration** `config/config.go` | none | load, defaults, validate | bounds on settings |

### How they interact

`main` starts three loops next to the web server: `Poller.Run` (every few minutes),
`Notifier.Run` (every few seconds) and `runMembershipChecks`. They never call one
another; they meet in the database. The store serialises writes (one connection) and
reads run on a separate pool, so every read sees some committed state, two reads of one
evaluation possibly different ones.

```
CoreScope -> PollOnce -> UpsertTargets -> JudgeFeed --ok--> evaluate -> [rows + notifications, one tx]
                 |                                             ^                     |
             poll_runs                      web: watches, rules (own txs)            v
                                            web: delete account, sign in --> users <-- DrainOnce -> Discord
                                                                               ^
                                                              runMembershipChecks
```

After a healthy poll's `evaluate`, and when it is due, `checkBatteries` runs in the same loop:
it fetches the battery readings of watched repeaters and writes `battery_rules` and their
notifications in one transaction, as `evaluate` does with rows.

### What is hard

* *Interleaving.* `evaluate` reads watches, states, rules and activity separately and
  writes later; users edit in between. `checkBatteries` does the same with a fetch over the
  network for every repeater before it saves. `DrainOnce` holds a batch in memory while it waits
  for Discord for seconds; accounts are deleted in between, and their ids reused.
* *Crashes.* Between the upsert and `FinishPollRun`; between Discord taking a message and
  the outbox noting it.
* *Concurrency inside one component.* The gateway's reader, writer, heartbeat and refresh share
  a channel, a context and a socket; two tabs of a browser share a cookie; two processes may
  migrate one database.
* *Failure.* A lost answer, a refused write that undoes a whole poll, a served view that
  is older than the one before it.
* *Long sequences.* Which counters survive an absence, a mute, a flicker or an edit, and
  what the owner is told because of them.
* *Liveness.* A backlog under a limit, evaluations that are rolled back again and again.

The hazards, each at its line and with the properties aimed at it, are in `PROJECT.json`.

## 2. Plan

Order of work, most important behaviour first; what is left is at the end.

| # | Module | Models | Composes | State |
| --- | --- | --- | --- | --- |
| 1 | `AlertEvaluate` | the alert policy, as operators | - | done; its lemmas are in the proofs of 2 and 3 |
| 2 | `AlertLifecycle` (+ `_proofs`) | one rule poll after poll | 1, and implements `Announcements` | done, safety and refinement proved |
| 3 | `Poller` (+ `_proofs`) | `evaluate` against the store and its users | 1, and implements `Announcements` rule by rule | done, safety and refinement proved |
| 4 | `FeedJudge` (+ `_proofs`) | `PollOnce` up to the verdict, `poll_runs` | - | done, safety proved |
| 5 | `Outbox` (+ `_proofs`) | `DrainOnce`, `notifications`, `dm_ok` | `DiscordClient` | done, safety proved |
| 6 | `BatteryPolicy`, `BatteryCheck` (+ `_proofs`) | hysteresis and confirmation; the check with its fetches, automatic rules and compare-and-swap save | - | done, safety proved |
| 7 | `Ingest` (+ `_proofs`) | feed cursor, backfill, attribution of hops | - | done, safety proved |
| 8 | `Gateway` | one connection's goroutines, and `Run` around them | - | done, safety proved in `Process_proofs` |
| 9 | `StartUp` | two binaries on one directory: migrations, lock, loops | - | done, safety proved in `Process_proofs` |
| 10 | `Accounts` (+ `_proofs`) | sign-in, sessions, the forms and their transactions | - | done, safety proved |

The abstract specification is `Announcements`: a belief about a target, each change of which is
announced at most once, and a recovery only to somebody whose last word was an alert. It is what
the package documentation of `alert.go` promises, without the counters. `AlertLifecycle` states
the mapping for one rule alone (`Belief`, `PromiseIsKept`), `Poller` for every rule in the midst
of edits, crashes and rollbacks (`Promise(r)`, `EveryPromiseIsKept`). Every safety property of a
passing run, and each of the two refinements, is proved. What would be worth stating next: the
path of one alert through `Poller` and `Outbox` together, which today meet only in the set
`queued`, and a breaker that finds the same crossings and trips again at every poll (a listed
hazard without a property).

## 3. The modules

In every module an action is one step of the code that nothing can come between: one
transaction, one query, one answer of a remote service. History variables, which the code
does not have, are declared last and apart. A definition named like another with something
added (`RecoverAlways`, `OutcomeHasty`, ...) is that definition with a plausible slip; no
specification uses it, and `PROJECT.json` pairs each with the property that notices.

**`AlertEvaluate`** (`alert.go` `Evaluate`, `promote`, `recover_`). The policy as an
operator from a reading, a row of `watch_state` and the watcher's settings to the next row,
whether it is a transition, whether the breaker counts it, and the message. A reading is
one of three: *absent* (no evidence), *under* and *over* the threshold; `Reading` says how
they come from times. Columns that are only displayed (`since`, `alerting_since`,
`last_notified_at`) are left out. One operator per state of the code's `switch`.

**`Tables`.** A table as a function from its primary keys: `Upserted` and `Without`, for
the modules with tables; `Nothing` is also how `BatteryCheck` says that there is no row.

**`Announcements`** (the package comment of `alert.go`). The promise, as a machine of three
variables: the belief, what was just said, and what was said last.

**`AlertLifecycle`.** One rule for ever: `Poll(in)` is `evaluate` applied to that rule with
any reading and any settings. `turn` flips at each poll, so that polls that change nothing
count as steps. `MaxNotify` bounds `notify_count`, which only an absence can let grow.
`EndsAsItBegan` compares an outage's end with its beginning (`announced`), but for outages that a
gap in the feed has confused (`lost`; section 7). Under
`Promise == INSTANCE Announcements` a row is a belief: down while it alerts or recovers, up
while it is ok or pending, else unknown.

**`Poller`** (`poller.go:343-510`, and the transactions of `queries.go` and the handlers of
`web.go` that change watches and rules). State: the tables `watches`, `watch_rules`
(`ruleOf`) and `watch_state` (`rows`), and what an evaluation holds: `seen`, `held`,
`plan`. Its steps `ReadWatches`, `ReadStates`, `ReadRules` (which computes every outcome;
the activity table is among the readings chosen there), then `Withhold` (breaker),
`Commit` or `Rollback` (a foreign key is broken by a deletion). Users create and delete
watches and rules and change settings between any two; `Crash` loses what is in memory.
Row ids are reused as SQLite reuses them (`NextId`). What a reading that merely moves
(`observed_at`) adds to the rows written is the set `moved`. `AsIfAlone` says that none of this
can be seen from a single rule: whatever a step does to its row and its owner's last message is
nothing, or `Evaluate` on the row it has (`JudgedAtOnce`). Rules that took over the id of one
deleted during an evaluation are excepted (`inherited`), here and in what follows from it,
`EveryPromiseIsKept`.

**`BatteryPolicy`** (`alert/battery.go`). Which levels apply to a watch, which of them a
voltage belongs to given the present one (leaving a level takes the margin more than
entering it), and what one reading does to a row of `battery_rules`: the next row, the
message and the level it points to. Voltages and levels are numbers, as their order and
the margin are what matters; the times of readings are only compared, so a row has in `last`
whether the reading it judged last is the one CoreScope serves now, an older one, or none.

**`BatteryCheck`** (`poller/battery.go` `checkBatteries` and `checkBatteryNode`,
`store/battery.go`, `web/battery.go` and what `web.go` does with battery rules). One watch and
its battery rule, for ever. A check is `ReadWatches`, `ReadRules`, `ReadUsers`, a fetch
(`FetchFails`, `FetchForAddition`, `FetchForRule`) and one transaction
(`InsertAutoBatteryRule`, `SaveBatteryState` or, where the row has changed, `Overtaken`). The
owner creates, edits, mutes and deletes watch and rule between any two of these, and new
readings come. The other watches of a check meet this one only in the breaker, where their
alerts are a number. `sameSecond` is whether a rule created in the place of another has its
`since`, which is kept in whole seconds. What an owner has been told (`told`, `lowTold`), where
the readings judged have pointed (`run`) and whether the owner wants no rule (`refused`) are
history.

**`FeedJudge`** (`poller.go:104-208`, `alert.go` `JudgeFeed`, `Fetch` of `corescope.go`, and the
poll history in `queries.go`). `Fetch` is all pages of nodes and then the observers, or an
error. A poll run row is inserted as failed, the view is written to the targets,
judged, and the row finished; a crash between any two leaves it failed. Times are ages in
ticks. Whether a run is within the week of `MaxRecentNodeCount` is a flag that `Expire`
clears, oldest first. Either kind of target moving forward makes the feed advance, but only
nodes are counted. `Counted` are the runs that were judged, and `Standing` how many of the newest
of them moved nothing, as `ConsecutiveNonAdvancingPolls` counts them, 20 deep (`HistoryLimit`).
`frozen` counts the believed polls, as they are finished, since a target last advanced, or since
the week behind last held a believed poll: without one there is nothing to compare with, and the
count starts again. `FrozenBeliefIsBounded` needs `poll.min_nodes` above zero, or an empty poll
would be believed and be nothing to compare with, and a `MaxPollsWithoutAdvance` within the history.
Its bound is what the code does, which is one poll more than documented (section 7).

**`DiscordClient`** (`discord.go`). A request is answered with a status, not answered, or answered
too late; `do` repeats it once after a rate limit. From whether somebody can be messaged
(`Standing`: open to messages, shut, or not on the server) follow the answers, and how many
copies of a message arrived. Operators only; `Outbox` instantiates it.

**`Outbox`** (`notify.go` `DrainOnce` and `Run`, the notifications table, `main.go`
`runMembershipChecks`, `web.go` sign-in and test message). `StartDrain` reads a batch,
`Send` sends a user's messages as one, with every combination of arriving and being
answered, `Blame`, `Settle` and `Clear` are the transactions that follow, one by one.
`Abort` is a refused write, `Crash` the process dying. `dm_ok` is written from `answers`
that travel; the membership check compares with the `roster` it read at its start, which has
the people with a watch.

**`Ingest`** (`poller.go` `ingest`, `attribute.go`, the packet pages of `corescope.go`, the cursor
and `target_activity`). A packet is what happened: who sent it, who wrote each hop, with a wide
or a narrow prefix, by flood or directly. The code's part is to conclude who did what from
prefixes and the nodes listed in this poll (`Lookup`, `Hits`). A page is fetched, and later
committed (`Commit`), found to hold nothing (`NothingNew`) or lost (`Fails`); packets arrive in
between. The cursor is an inclusive range of ids, a low end of zero meaning unknown. How many
packets the hours of a backfill hold is any of `BackfillWindows`, each time anew; `shallow` notes
that one which held less than a page was committed over a hole (section 7).

**`Gateway`** (`gateway.go`). `main` is where `Run` and `connectOnce`, which is the reader, are;
`writer` and `sender` are the other goroutines; `queue` is the channel of frames. The network
is up, silent (nothing comes through, nothing fails) or cut. The deferred calls of
`connectOnce` run in the order Go runs them, which is what `gateway_hangs` is about. Of a
connection's goroutines `connectOnce` waits for the writer alone; what the heartbeat, the refresh
and the closer of an earlier one still do when the next is dialled is not modelled, so `Dial` sets
them to gone, and `OneConnectionAtATime` speaks of the socket, the writer and the context. Names that
`StartUp` has too begin with `Bot`, as one module of proofs is about both.

**`StartUp`** (`main.go`, `lock.go`, `store.go` `Open` and `migrate`). Processes of different
binaries open the database, migrate it file by file, take the lock, run the loops, and end, or
are killed anywhere. A migration that adds a table or a column fails the second time; 0004, 0005 and
0008 do not (`Repeatable`).

**`Accounts`** (`web.go` and the queries it calls). People have a browser with tabs; a tab's
request is the middleware's step and the handler's, and `handleAddRule` has one more.
`SignIn` is the callback's two transactions with Discord asked in between. Ids in a form are
any ids, as the page may be old. Row ids are reused as SQLite reuses them. Simplified:
`Exchange`, `UpsertUser` and its reading back are one step, and so are the middleware's two
reads of the session; the OAuth state cookie is left out; a session that has expired counts as
absent; `edited` stands for a watch's mute, its recovery setting and its rules' contents. `HasRoom`
bounds what an instance holds at once: it fits into one of `Rooms`.
`lent` records that an id went to somebody new while a request still held it: no property is
promised after that.

## 4. The runs

| Run | Question | Distinct states |
| --- | --- | --- |
| `alert_lifecycle` | what one owner hears over the whole life of a rule: flap guard, one alert per outage, an outage's end told exactly if its beginning was, belief settles, both ends told, and the promise of `Announcements` | 690 |
| `poller` | row and message are one commit (`CountedMeansTold`), foreign keys hold (`StoreIsWhole`), every rule lives as if judged alone and at once (`AsIfAlone`) and keeps the promise of `Announcements`, nothing is said of what is deleted, the breaker bounds a poll's alerts, deletions cannot stop evaluations for ever (`EvaluationsCommit`) | 108,704 |
| `battery` | a rule and its owner's inbox agree (`AnnouncedMeansTold`), only distinct agreeing readings speak, "low" once per discharge, no rule forced on anyone, the level settles | 349,880 |
| `feed_judge` | frozen feeds are believed a bounded number of times, healthy polls always, stored times never regress | 1,913,903 |
| `outbox` | nothing lost, nothing said twice, attempts bounded | 445,907 |
| `delivery_status` | every message is settled in the end, though it keeps failing; someone who leaves the server is shown so | 252,498 |
| `ingest` | every packet counts once (`EvidenceAddsUp`), none is passed over unless a small backfill left a hole, nobody is credited for another's work | 8,264 |
| `gateway` | the last socket is closed and its writer gone before the next dial, a lost connection is replaced, a stop is heeded | 57,420 |
| `startup` | one set of loops, every process serves the schema it knows, the service comes back | 5,024 |
| `accounts` | deletion leaves nothing behind, cookies open one's own account, limits hold, nobody changes another's watches | 856,708 |

Two more runs each refute one sentence of the documentation; see section 7.

### Bounds, and why they are enough

* `AlertLifecycle`: `ConfirmPolls = 2` is the smallest value at which pending and recovering
  are stages of their own; 1 is what the `Poller` run uses. The theorems cover all values.
* `Poller`: one watch with two rules has every interleaving of deletions and creations, under
  new ids and reused ones, with each read, and a poll of two alerts. The breaker is the
  proportional one at one half, with the minimum of 20 signals reduced to 2 so that it is
  reached. What two watches would add, a rule id that moves from one to the other, and the
  absolute limit, are covered by the theorems, which hold for all bounds.
* `BatteryCheck`: critical 2 (the site's level), low 5 (CoreScope's), overcharged 9 and a margin of 2,
  with the voltages 0, 1, 3, 6, 8 and 9: no battery, below every line, and within and beyond
  each margin. `ConfirmReadings = 2` has a first and a confirming reading; owners choose whether
  overcharging alerts and whether to mute; that they may want no recovery messages is left to
  the theorems, which hold for every preference; the breaker's limit is 1.
* `FeedJudge`: two nodes tell full, partial and empty views apart; four runs are one more
  than the three that decide a verdict at `MaxPollsWithoutAdvance = 2`; ages 0, 1, older and
  never are all the comparisons there are.
* `Announcements` needs no bounds: the refinements are checked where `AlertLifecycle` and
  `Poller` are, and proved for every `ConfirmPolls`, and any number of watches and rules.
* `Ingest`: seven packets with two on a page give pages that overlap, touch, and leave a hole;
  backfills of none, one or four are smaller and larger than a page, and the last reaches behind
  what was counted. The packets have an advert, texts, a narrow hop, a
  packet without a time, one that was not flooded, and times out of the order of ids. Two of three
  nodes share a prefix, and a list may lack one of those.
* `Gateway`: the channel has two places (8 in the code) and the backoff doubles twice before its
  ceiling; what the properties need is that the channel can be full and that the backoff grows,
  stops growing and is reset.
* `StartUp`: the twelve migrations there are, a binary that knows nine of them and one that
  knows all, and a database of any age. Three processes would add nothing that two do not have:
  every step concerns the process and the lock.
* `Accounts`: two tabs of one person and one of another, two account ids, and tokens for two
  sessions: a request beside another of the same account, and an id that passes from one person to
  the other. An account may have two watches, and a watch three rules. `Rooms` keeps the instance
  small: either two accounts with two sign-ins share two watches of the one node and three rules
  (`Crowded`), or one account with one sign-in has three watch ids, three targets and four rule ids
  (`Rich`), so that a third watch, a second watch of one target and a fourth rule are each there to
  be refused. An expired session is one that `Expire` took.
* `Outbox`: two people give grouping and interference; two messages with ids reused give
  every aliasing; `MaxAttempts = 2` has a first and a last attempt. In `delivery_status` one
  person and one answer in flight are enough for two writers to overtake each other, and two
  messages, sent one at a time, for one that keeps failing to stand in front of another: it fails,
  waits for its backoff, and is tried a second and last time. `Standings` bounds what may
  become of people: in `outbox` they are open to messages or shut, in `delivery_status` they may
  also have left the server.

### Fairness

Only the program's own loops are fair, never users, Discord or CoreScope. `Poller.Run`
polls at once and on every tick for as long as the process lives (weak fairness of a poll's steps);
`Notifier.Run` drains on a ticker, backoffs end with time, the membership loop goes on and
an answer that has come is written down (one weak fairness each). A battery check that has
started goes on, fetch by fetch, to its transaction (weak fairness of `Continue`); that checks
are started at all depends on healthy polls, and is a premise of `LevelSettles`, as is that
new readings come. In `Gateway` each goroutine goes on when it can, a timer or a read deadline runs
out, and a cut line fails; that Discord answers, or that a silent line comes back, is not
assumed. In `StartUp` a process goes on and its supervisor starts it again; `calm` is when there
are no more mishaps, and may never come. A crash is always possible and
followed by a restart. Where a property needs crashes, aborts, deletions or a tripped
breaker to stop for it to hold, its own premise says so.

## 5. What is proved

`AlertLifecycle_proofs`, for every `ConfirmPolls` (any integer; the code raises it to at
least one) and every bound: `TypeCorrect`, `FlapGuardHolds`, `OneAlertHolds`,
`RecoveryFollowsAlertHolds` and `EndsAsItBeganHolds`. None of the properties is inductive:
`FlapGuard` says nothing of the row, whose `consecutive` is what decides the next message.
`IInv` adds that a pending row's count is exactly the number of polls in a row that read
over, a recovering row's the number that read under, every other row's zero
(`CountsAgree`), that a counted row was told, that no alert is outstanding outside an outage, and
that, unless a gap in the feed confused it, a row is counted exactly in an outage that was announced
(`HistoryAgrees`). One lemma says what each outcome does to a row; the step is then
split by what was read and the state it was read in (absent; unknown; falling; rising).

`PromiseHolds` is the refinement: initial rows are initial beliefs, and a poll is `GoesDown`,
`ComesBack`, `Silence` or a stutter of `Announcements`, by the state the row was in. It needs from
`IInv` that a row counted as announced has an alert as its last word.

`Poller_proofs`, for any number of watches and rules, any breaker and any `ConfirmPolls`:
`TypeCorrect`, `StoreStaysWhole`, `CountedMeansToldHolds`, `NoMessageAboutTheDeletedHolds`,
`BreakerBoundsAlertsHolds`, `AsIfAloneHolds` and `EveryPromiseIsKeptHolds`. Lemmas about the
policy come first: `EvaluateIsSound` (what says something is a transition, what alerts is counted
by the breaker, and a counted row was counted by the alert it comes with or before) and, for the
refinement, `EvaluateIsPromising` (an alert goes with a belief that falls, a recovery with one that
rises from a counted row). `CountedMeansTold` is not inductive, since the commit writes rows
computed two reads earlier. `IInv` adds why that is safe: of every rule whose id was not taken
over meanwhile, the row held is the row stored (`HeldAgrees`), since only the evaluation itself
writes rows, and the outcome planned is for its present watch, live, and counted only if told or
about to be (`PlanAgrees`); and outcomes are sound (`PlanIsOutcomes`). The proof has one lemma
per action, with one step per conjunct; a new rule under a remembered id is exactly what
`inherited` excepts.

A second layer, `Life`, carries the two theorems about single rules. `PlanFollows`: what is
planned of a rule is `Evaluate` of the row it has *now*, for some reading and preferences, or of
the row of a rule never seen, if its owner has not heard of it; the latter are the rules created
between the read of the watches and the read of the rules (`HeldIsWhole`), and `UnknownIsSeeded`
shows that they get, in silence, the row they would be created with. An edit leaves every rule that
it does not create or delete as it was (`EditSpares`), which needs that ids handed out are not in
use (`NewIdsAreNew`, from the greatest of a bounded set). `CommitOnRule` then splits a commit into
what it does to one rule.

`BatteryCheck_proofs`, for every set of voltages and levels, every margin, `ConfirmReadings` and
limit of the breaker: `TypeCorrect`, `AnnouncedMeansToldHolds`, `RecoveryFollowsAlertHolds`,
`ReadingsConfirmHolds`, `LowIsSaidOnceHolds` and `NeverAddedBackHolds`. Here too the save writes
what was computed from an earlier read, and the argument is the compare-and-swap: `PlanAgrees`
says everything a plan promises in terms of the row it was judged by (`Follows`), and the save
finds that same row, whatever became of the rule in between - removed, added again, reset. So no
invariant about the rule's identity is needed. `RunAgrees` ties the row's `count` to the readings
in the history, `LowAgrees` the message "low" to a level that is still down, `RefusedAgrees` a
refusal to `battery_added_at`, which the insertion asks for again. Lemmas about the policy come
first (`EvaluationFollows` is what the others lead to), then one per action.

`FeedJudge_proofs`, for any mesh, limits and history: `FrozenBeliefIsBoundedHolds`,
`HealthyPollIsBelievedHolds` and `StoredNeverRegressesHolds`. That a frozen feed is believed at
most so many times is counted in history and forgotten by a crash, pruned by age and read only so
deep, so `BeliefIsRecorded` compares cardinalities: the believed polls counted are no more than the newest judged runs that moved nothing (`Still`),
and if there are any, there is a run to compare with (`Peak`). A new run, a finished one and an
expired one shift or change the set; the lemmas about counting say what that does to it.
`RunsAreSound` has that no run counts more nodes than there are, from which a healthy poll clears
every floor, as the fraction is at most one.

`Outbox_proofs`, for any people, limits and answers of Discord: `NothingIsLostHolds`,
`NothingIsSaidTwiceHolds` and `AttemptsAreBoundedHolds`. `MessagesAreSound` ties the row of every
message to what Discord did with it: a queued message was tried as often as its row says, and once
more while it is in flight, with no copy unaccounted for; a settled one arrived, was refused for
good, or has used its attempts. `BatchIsQueued` says that what the drain holds is still queued as
it was read, or its account is gone and whatever has its id now is new. `DoLeavesOneCopy`, of
`DiscordClient`, is why the client's own retry of a rate limit adds no second copy.

`Process_proofs` is about `StartUp` and `Gateway`. For any processes, whatever each knows, and any
number of migrations: `OneSetOfLoopsHolds` and `ServesItsSchemaHolds`. `LockInv`: whoever is in
charge holds the lock. `SchemaInv`: the migrations up to the recorded version are in the database,
and so are those up to where each process has got, which is why it does no harm that a process sets
the version back. For any channel and ceiling of the backoff: `OneConnectionHolds`, that whenever
`Run` is between connections the last one's socket is closed, its writer gone and its context done, with what each place of `connectOnce` knows about
the other goroutines as the inductive invariant (`BotInv`).

`Accounts_proofs`, for any people, tabs, targets and ids: `NothingIsLeftBehindHolds`,
`SignedInAsThemselvesHolds`, `OnlyTheirOwnHolds` and `LimitsHoldAlways`. `IInv` adds that no token
in use is above the number of tokens made (so that the next is new), and that the id a request
holds, or a cookie leads to, is its person's account or no account (`RequestsAreOwn`,
`CookiesAreOwn`): the two lean on each other, as a request gets its id from a cookie and a sign-in
makes a cookie from a request. For the watches and rules, every handler is shown to leave those of
other accounts as they are (`Kept`); that the account is the person's own then gives
`OnlyTheirOwn`. That ids are new is a fact about `NextRow`, from the greatest element of a bounded
set (`GreatestExists`, by well-founded induction). The limits are a further inductive layer
(`WithinLimits`), stated per id, in use or not, so that a deletion and the reuse of an id need no
case of their own: handlers either only take away (`Thinned`), or add a watch with its rules, or a
rule, in the transaction that counts.

`Ingest_proofs`, for any feed, nodes, prefixes and page sizes: `NothingIsPassedOverHolds`,
`CreditIsEarnedHolds` and `EvidenceAddsUpHolds`. The cursor's range has holes, so that everything
in it was counted is not an invariant; that everything in it *and among the newest packets that
the next page can hold* was counted is (`Claims`), since packets only arrive, and a page in hand
is what was newest when it was fetched (`PageIsLatest`). A backfill that claims more than it read,
and read less than a page, breaks both for good, which is why the history has to remember it
(`shallow`): the holes that any other step leaves are out of the next page's reach.
That the rows add up is a second layer, `Evidence`: all that was credited is in the range the
cursor claims, once its low end is known (`Told`), or was counted before that; and a row has the
latest time of its credits and counts each once, and at most those of the old ones twice that came
round again (`RowsAddUp`). A commit adds credits that are not in the range, and the range grows
over them (`RangeGrows`, `FoldedIn`).

The proofs assume the modules' `ASSUME`s and nothing else: natural bounds, `ConfirmPolls` an
integer, finite sets of nodes and people, a fraction of nodes of at most one (as `config.go`
demands), an owner for every tab, and a sequence of packets. Type correctness is
proved of every module with a proof, so no run repeats it; of what the runs check, every invariant
and every action property is stated by a theorem.

What stays with TLC is liveness, which is outside the prover's reach (fairness needs `ENABLED`):
`BeliefSettles`, `OwnerIsToldBoth`, `EvaluationsCommit`, `LevelSettles`, `EverythingIsSettled`,
`DepartureShows`, `LostConnectionIsReplaced`, `StopIsHeeded`, `ServesAgain`. The two properties of
section 7 are false, and their runs show it.

## 6. What is not modelled

* *Display.* Decoding of CoreScope's API, message text and charts, pages and search, the
  status board and its cached probes, and the floating-point analysis of battery histories,
  weather, sun and geography: they read, compute and show, and hold no state that another
  component relies on. Configuration is parsed once; its bounds are the modules' `ASSUME`s.
* *Battery alerts.* The stored copies of readings and the banner, which are only displayed;
  readings are taken to have times of whole seconds.
* *Feed.* The relay and packet timestamps of targets and `MarkCoreRepeaters`. That the list of
  nodes changes between two of its pages, so that a node comes twice, is left out.
* *Outbox.* Payloads: that one malformed message holds back, and finally drops, the others that
  are sent with it is not seen.
* *Ingestion.* CoreScope starting its ids again, which would leave a cursor above all of them. A
  backfill whose answer was cut short is taken as complete, as the code takes it, and a
  backfill that fails is tried again before anything else is read. `packet_limit` and
  `backfill_hours` stay what they are: the one raised, or the other switched on, over a cursor with
  holes, a page or a backfill would reach into those and pass over what is there.
* *Gateway.* The text of the presence and the width of the backoff. What the heartbeat, refresh and
  closing goroutines of a connection still do after the next one is dialled, as nobody waits for them. A stalled write is left to
  TCP. A resume address that is dead is dialled until Discord ends the session itself, as only
  op 9 clears it (`gateway.go:359-366`); the backoff is doubled after it was compared with five
  minutes, so it goes to 512 seconds; and a connection ended by a failed write or a silent
  peer counts as ended well, which resets the backoff.
* *Accounts.* Display names, the state cookie of the sign-in, and what a form does to a
  rule it edits: an old page that sends `source=seen` strips a rule of its types, and the form of
  a custom rule does not ask whether its target is an observer.
* *Start-up.* The web server's shutdown, the health probe and the backup subcommand. The loops
  are told to end and not waited for before the lock is freed; what they still do then is not
  modelled.
* *Crashes* are those of the process: what `synchronous(NORMAL)` may lose to a power failure
  is not modelled.

## 7. Findings

Each is a run that checks one property and finds it violated.

1. `notify_count_survives` - an announced outage ends while its target is out of the feed;
   `unknown -> ok` keeps `notify_count`. Muted, the next outage is not announced; unmuted,
   its recovery is.
2. `gateway_hangs` - a connection that fails before its HELLO: the deferred `writeWG.Wait` runs
   before the deferred `cancel` and `conn.Close`, so `connectOnce` waits for a writer that
   waits for it, and the bot stays offline until the process is stopped.

### Known deviations without a run

These are behaviours the models have, or that were met while writing them. The properties are
stated so that they hold around them.

* A rule deleted during an evaluation and a new one created under its id: the new rule is judged
  with the old one's row, and its owner may hear of a recovery (`poller.go:354`; `inherited` in
  `Poller`).
* A message queued under the id of one being sent, whose account has been deleted, is marked sent
  in its place (`notify.go:93`; `NothingIsLost` excepts it).
* An overcharge alert switched off while a check is about to confirm it is sent all the same, and
  so is its end: the save compares the state it was judged by and not the levels
  (`store/battery.go:147`).
* An announced outage whose target leaves the feed and comes back still over its threshold is
  adopted as one nobody was told of (`alert.go:135-139` sets `NotifyCount` to 0 and `Seeded`), and
  ends in silence, although `alert.go:115-117` says "if a target drops out of the feed mid-alert and
  comes back, we still remember that we announced it". `EndsAsItBegan` excepts it (`lost`); the
  other half of that memory, under the threshold, is the first finding.
* A frozen feed is believed once more than documented. `alert.go:269` counts "prior polls, including
  this one" and `config.go:212` has "for this many consecutive polls, treat the data as stale", but
  the run in progress is still marked failed when the runs are counted (`poller.go:157`): with
  `max_polls_without_advance` at 3 it is the fourth poll that is not believed.
* A feed frozen until no believed poll is left in the week is believed again, as the frozen
  check needs a baseline (`poller.go:153`); `max_polls_without_advance` above 20 has the same
  effect, as the history is read 20 runs deep.
* Whoever refuses direct messages loses the banner that says so at the next sign-in or membership
  check, since membership counts as delivery (`main.go:236`). The membership check asks only about
  people with a watch.
* Two processes that migrate at once: the slower one applies the repeatable migrations again and
  sets the version back, or fails on one that is not repeatable and exits (`main.go:66`); the
  premise `OneMigrates` of `ServesAgain` leaves this out, `ServesItsSchema` does not.
* After a long outage the cursor claims packets that were never read (`poller.go:240`). They are
  lost as evidence, and no later page reaches back to them. A backfill can leave such a hole within
  reach: over a cursor that is there already, when its hours hold fewer packets than a page
  (`backfill_hours` 1 is some 300 packets at the rate `corescope.go:49` gives, the default page
  600). The page after it finds packets in the hole and takes them for counted (`poller.go:271`), although "a packet is never
  marked consumed without its evidence" (`poller.go:320`). `NothingIsPassedOver` says that this is
  the only way, as long as the settings stay what they are (`shallow`).
* A sign-in that is waiting for Discord holds the id of its account (`web.go:602-632`). If the account
  is deleted meanwhile and its id goes to somebody new, the session is written for that id, and
  opens the newcomer's account; a request that looked its account up before does what it does
  to the newcomer's. `lent` excepts both from `SignedInAsThemselves` and `OnlyTheirOwn`.
