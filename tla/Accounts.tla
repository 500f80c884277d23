------------------------------ MODULE Accounts ------------------------------
(***************************************************************************)
(* Signing in, sessions, and the forms with which people change what they  *)
(* watch (internal/web/web.go, and the queries of                          *)
(* internal/store/queries.go that it calls).  A person has one browser,    *)
(* whose tabs share its cookies and send requests side by side; a request  *)
(* is a few steps, the middleware's and the handler's.  The ids in a form  *)
(* are of a page that may be old, so they are any ids; as no step before   *)
(* the handler's looks at the form, it is chosen there.                    *)
(***************************************************************************)
EXTENDS Naturals, FiniteSets, FiniteSetsExt, Tables

CONSTANTS People, Tabs, Owner,  \* whose browser a tab is in
          Nodes, Observers,     \* what can be watched
          MaxWatchesPerUser,    \* alerts.max_watches_per_user
          MaxRulesPerWatch,
          MaxId, MaxRuleId, MaxToken, \* bounds of the instance,
          Rooms                 \* and how much of everything it holds at once

Targets == Nodes \union Observers
Ids     == 1..MaxId
RuleIds == 1..MaxRuleId
Tokens  == 1..MaxToken

\* A watch starts with at most two rules, or three with the relay rule.
ASSUME Limits ==
    /\ Owner \in [Tabs -> People]
    /\ MaxWatchesPerUser \in Nat \ {0} /\ MaxRulesPerWatch \in Nat /\ MaxRulesPerWatch >= 3
    /\ MaxId \in Nat /\ MaxRuleId \in Nat /\ MaxToken \in Nat
    /\ Rooms \subseteq [users : Nat, tokens : Nat, watches : Nat, rules : Nat,
                        targets : SUBSET Targets]

VARIABLES
    users,    \* id -> whose Discord account it is
    sessions, \* hash of a token -> the id of the account
    watches,  \* id -> [user, target, edited]: whether it or a rule of it was changed
    rules,    \* id -> the id of its watch
    cookie,   \* a browser's session token, 0 without one
    tab,      \* where a tab's request is
    tokens,   \* how many tokens were made
    lent      \* history: an account got the id that a request of another holds

database == <<users, sessions, watches, rules>>
vars     == <<database, cookie, tab, tokens, lent>>

\* A bound: many sign-ins, or many watches and rules, but not both.
HasRoom ==
    \E r \in Rooms :
        /\ DOMAIN users \subseteq 1..r.users /\ tokens <= r.tokens
        /\ DOMAIN watches \subseteq 1..r.watches /\ DOMAIN rules \subseteq 1..r.rules
        /\ \A w \in DOMAIN watches : watches[w].target \in r.targets

Idle == [at |-> "idle"]

\* What a sign-in or a request knows as the id of its account.
WithId == {"signing in", "handling", "owned"}
Places == {Idle} \union [at : {"signing in"}, uid : Ids] \union
          [at : {"handling"}, uid : Ids, token : Tokens] \union
          [at : {"owned"}, uid : Ids, watch : Ids]

Init ==
    /\ users = Nothing /\ sessions = Nothing /\ watches = Nothing /\ rules = Nothing
    /\ cookie = [p \in People |-> 0]
    /\ tab = [t \in Tabs |-> Idle]
    /\ tokens = 0 /\ lent = FALSE

Row(id, fields) == [x \in {id} |-> fields]

\* INTEGER PRIMARY KEY without AUTOINCREMENT: the ids of deleted rows return.
NextRow(table) == Max({0} \union DOMAIN table) + 1

Goes(t, from, to) == tab[t].at = from /\ tab' = [tab EXCEPT ![t] = to]

CookieOf(t, token) == cookie' = [cookie EXCEPT ![Owner[t]] = token]

\* An error, or the browser no longer waits: the request's context ends.
Abandon(t) ==
    /\ tab[t].at # "idle"
    /\ tab' = [tab EXCEPT ![t] = Idle]
    /\ UNCHANGED <<database, cookie, tokens, lent>>

-------------------------------------------------------------------------------
(***************************************************************************)
(* Signing in: handleCallback, of a sign-in that Discord vouches for.      *)
(***************************************************************************)
AccountsOf(p) == {id \in DOMAIN users : users[id] = p}

\* Whether somebody else's sign-in or request holds the id.
HeldByAnother(id, p) ==
    \E t \in Tabs : tab[t].at \in WithId /\ tab[t].uid = id /\ Owner[t] # p

\* UpsertUser, which reads the row back.
OldAccount(t) ==
    /\ \E id \in AccountsOf(Owner[t]) : Goes(t, "idle", [at |-> "signing in", uid |-> id])
    /\ UNCHANGED <<database, cookie, tokens, lent>>

NewAccount(t) ==
    LET p == Owner[t] new == NextRow(users)
    IN  /\ AccountsOf(p) = {} /\ new \in Ids
        /\ Goes(t, "idle", [at |-> "signing in", uid |-> new])
        /\ users' = Upserted(Row(new, p), users)
        /\ lent' = (lent \/ HeldByAnother(new, p))
        /\ UNCHANGED <<sessions, watches, rules, cookie, tokens>>
        /\ HasRoom'

CreateSessionRegardless(t) ==
    /\ Goes(t, "signing in", Idle)
    /\ tokens + 1 \in Tokens /\ tokens' = tokens + 1
    /\ sessions' = Upserted(Row(tokens', tab[t].uid), sessions)
    /\ CookieOf(t, tokens')
    /\ UNCHANGED <<users, watches, rules, lent>>
    /\ HasRoom'

\* Discord has been asked for the membership in between.
CreateSession(t) ==
    /\ Goes(t, "signing in", Idle)
    /\ tab[t].uid \in DOMAIN users \* or the foreign key refuses it
    /\ tokens + 1 \in Tokens /\ tokens' = tokens + 1
    /\ sessions' = Upserted(Row(tokens', tab[t].uid), sessions)
    /\ CookieOf(t, tokens')
    /\ UNCHANGED <<users, watches, rules, lent>>
    /\ HasRoom'

SignIn(t) == OldAccount(t) \/ NewAccount(t) \/ CreateSession(t)

-------------------------------------------------------------------------------
(***************************************************************************)
(* The middleware: withSession, and requireCSRF, which wants a form of a   *)
(* page that was shown under the session.  What comes between the two      *)
(* reads of SessionUser may as well come after them.                       *)
(***************************************************************************)
SessionUser(t) ==
    LET held == cookie[Owner[t]]
    IN  /\ held \in DOMAIN sessions
        /\ Goes(t, "idle", [at |-> "handling", uid |-> sessions[held], token |-> held])
        /\ UNCHANGED <<database, cookie, tokens, lent>>

\* Unknown, expired or not to be read just now: the cookie is cleared.
NoSession(t) ==
    /\ tab[t].at = "idle" /\ cookie[Owner[t]] # 0
    /\ CookieOf(t, 0)
    /\ UNCHANGED <<database, tab, tokens, lent>>

-------------------------------------------------------------------------------
(***************************************************************************)
(* The handlers, by their one transaction.  A row that is not there, or is *)
(* not the account's, is left alone.                                       *)
(***************************************************************************)
WatchesOf(uid) == {w \in DOMAIN watches : watches[w].user = uid}
RulesOf(ws)    == {r \in DOMAIN rules : rules[r] \in ws}

\* A rule for the template, the backstop of a node, the relay rule.
StartsWith(target, relay) ==
    IF target \in Observers THEN 1 ELSE IF relay THEN 3 ELSE 2

InsertedRules(w, n) ==
    Upserted([r \in NextRow(rules)..(NextRow(rules) + n - 1) |-> w], rules)

CreateWatchUncounted(uid, target, relay) ==
    LET new == NextRow(watches) n == StartsWith(target, relay)
    IN  /\ uid \in DOMAIN users
        /\ target \notin {watches[w].target : w \in WatchesOf(uid)}
        /\ new \in Ids /\ NextRow(rules) + n - 1 \in RuleIds
        /\ watches' = Upserted(Row(new, [user |-> uid, target |-> target, edited |-> FALSE]), watches)
        /\ rules' = InsertedRules(new, n)
        /\ UNCHANGED <<users, sessions>>

CreateWatch(uid, target, relay) ==
    LET new == NextRow(watches) n == StartsWith(target, relay)
    IN  /\ uid \in DOMAIN users
        /\ Cardinality(WatchesOf(uid)) < MaxWatchesPerUser
        /\ target \notin {watches[w].target : w \in WatchesOf(uid)}
        /\ new \in Ids /\ NextRow(rules) + n - 1 \in RuleIds
        /\ watches' = Upserted(Row(new, [user |-> uid, target |-> target, edited |-> FALSE]), watches)
        /\ rules' = InsertedRules(new, n)
        /\ UNCHANGED <<users, sessions>>

\* Rules and their state go with their watch.
DeleteWatches(ws) ==
    /\ watches' = Without(watches, ws)
    /\ rules' = Without(rules, RulesOf(ws))

DeleteWatch(uid, w) ==
    /\ DeleteWatches({w} \intersect WatchesOf(uid))
    /\ UNCHANGED <<users, sessions>>

Edited(w) == watches' = [watches EXCEPT ![w].edited = TRUE]

\* SetWatchMute, SetWatchRecovery.
EditWatch(uid, w) ==
    /\ w \in WatchesOf(uid)
    /\ Edited(w)
    /\ UNCHANGED <<users, sessions, rules>>

AddRule(uid, w) ==
    /\ w \in WatchesOf(uid)
    /\ Cardinality(RulesOf({w})) < MaxRulesPerWatch
    /\ NextRow(rules) \in RuleIds
    /\ rules' = InsertedRules(w, 1)
    /\ UNCHANGED <<users, sessions, watches>>

UpdateRule(uid, r) ==
    /\ r \in RulesOf(WatchesOf(uid))
    /\ Edited(rules[r])
    /\ UNCHANGED <<users, sessions, rules>>

DeleteRuleOfAnyone(uid, r) ==
    /\ rules' = Without(rules, {r})
    /\ UNCHANGED <<users, sessions, watches>>

DeleteRule(uid, r) ==
    /\ rules' = Without(rules, {r} \intersect RulesOf(WatchesOf(uid)))
    /\ UNCHANGED <<users, sessions, watches>>

DeleteSession(token) ==
    /\ sessions' = Without(sessions, {token})
    /\ UNCHANGED <<users, watches, rules>>

DeleteUserOrphaning(uid) ==
    /\ users' = Without(users, {uid})
    /\ DeleteWatches(WatchesOf(uid))
    /\ UNCHANGED sessions

DeleteUser(uid) ==
    /\ users' = Without(users, {uid})
    /\ sessions' = Without(sessions, {s \in DOMAIN sessions : sessions[s] = uid})
    /\ DeleteWatches(WatchesOf(uid))

Change(uid) ==
    \/ \E target \in Targets, relay \in BOOLEAN : CreateWatch(uid, target, relay)
    \/ \E w \in Ids : DeleteWatch(uid, w) \/ EditWatch(uid, w)
    \/ \E r \in RuleIds : UpdateRule(uid, r) \/ DeleteRule(uid, r)

\* A form that finds nothing to change, or is refused, is Abandon.
Handle(t) ==
    /\ Goes(t, "handling", Idle)
    /\ Change(tab[t].uid)
    /\ UNCHANGED <<cookie, tokens, lent>>
    /\ HasRoom'

\* handleAddRule asks whose the watch is before it reads the rest of the form.
WatchOwnedBy(t) ==
    /\ tab[t].at = "handling"
    /\ \E w \in WatchesOf(tab[t].uid) :
          Goes(t, "handling", [at |-> "owned", uid |-> tab[t].uid, watch |-> w])
    /\ UNCHANGED <<database, cookie, tokens, lent>>

HandleAddRule(t) ==
    /\ Goes(t, "owned", Idle)
    /\ AddRule(tab[t].uid, tab[t].watch)
    /\ UNCHANGED <<cookie, tokens, lent>>
    /\ HasRoom'

\* The answer clears whatever cookie the browser has by then, or gets lost.
Answered(t) == CookieOf(t, 0) \/ UNCHANGED cookie

\* An error of the store is ignored.
HandleLogout(t) ==
    /\ Goes(t, "handling", Idle)
    /\ DeleteSession(tab[t].token) \/ UNCHANGED database
    /\ Answered(t)
    /\ UNCHANGED <<tokens, lent>>

HandleDeleteAccount(t) ==
    /\ Goes(t, "handling", Idle)
    /\ DeleteUser(tab[t].uid)
    /\ Answered(t)
    /\ UNCHANGED <<tokens, lent>>

Request(t) ==
    \/ SessionUser(t) \/ NoSession(t) \/ Handle(t) \/ WatchOwnedBy(t) \/ HandleAddRule(t)
    \/ HandleLogout(t) \/ HandleDeleteAccount(t)

-------------------------------------------------------------------------------
\* sessionTTL passes: a session that has expired counts as absent, and the
\* hourly housekeeping deletes it.
Expire(token) ==
    /\ token \in DOMAIN sessions
    /\ DeleteSession(token)
    /\ UNCHANGED <<cookie, tab, tokens, lent>>

Next ==
    \/ \E t \in Tabs : SignIn(t) \/ Request(t) \/ Abandon(t)
    \/ \E token \in Tokens : Expire(token)

Spec == Init /\ [][Next]_vars

-------------------------------------------------------------------------------
TypeOK ==
    /\ DOMAIN users \subseteq Ids /\ users \in [DOMAIN users -> People]
    /\ DOMAIN sessions \subseteq Tokens
    /\ sessions \in [DOMAIN sessions -> Ids]
    /\ DOMAIN watches \subseteq Ids
    /\ watches \in [DOMAIN watches -> [user : Ids, target : Targets, edited : BOOLEAN]]
    /\ DOMAIN rules \subseteq RuleIds
    /\ rules \in [DOMAIN rules -> Ids]
    /\ cookie \in [People -> {0} \union Tokens]
    /\ tab \in [Tabs -> Places]
    /\ tokens \in 0..MaxToken /\ lent \in BOOLEAN

(***************************************************************************)
(* Deleting an account leaves nothing behind: every session, watch and     *)
(* rule belongs to an account there is, also when requests and sign-ins of *)
(* the deleted account were under way and go on to write what they meant   *)
(* to.                                                                     *)
(***************************************************************************)
NothingIsLeftBehind ==
    /\ \A s \in DOMAIN sessions : sessions[s] \in DOMAIN users
    /\ \A w \in DOMAIN watches : watches[w].user \in DOMAIN users
    /\ \A r \in DOMAIN rules : rules[r] \in DOMAIN watches

(***************************************************************************)
(* A browser is signed in as the person who uses it, or not at all: ids of *)
(* accounts are used again, and an old cookie must not open the next       *)
(* holder's account.  Not promised where an id was given to somebody while *)
(* a request still held it (lent).                                         *)
(***************************************************************************)
SignedInAs(p) ==
    {users[id] : id \in DOMAIN users \intersect
                        {sessions[s] : s \in {cookie[p]} \intersect DOMAIN sessions}}

SignedInAsThemselves == ~lent => \A p \in People : SignedInAs(p) \subseteq {p}

(***************************************************************************)
(* One account per person, at most so many watches of an account and rules *)
(* of a watch, and no target watched twice, however many tabs send the     *)
(* same form at once.                                                      *)
(***************************************************************************)
LimitsHold ==
    /\ \A p \in People : Cardinality(AccountsOf(p)) <= 1
    /\ \A u \in DOMAIN users :
          /\ Cardinality(WatchesOf(u)) <= MaxWatchesPerUser
          /\ \A v, w \in WatchesOf(u) : watches[v].target = watches[w].target => v = w
    /\ \A w \in DOMAIN watches : Cardinality(RulesOf({w})) <= MaxRulesPerWatch

(***************************************************************************)
(* Nobody changes what is another's: what a person watches changes in a    *)
(* step of one of that person's tabs and in no other, although the ids in  *)
(* an old page may be of somebody else's rows by now.                      *)
(***************************************************************************)
WatchedBy(p) ==
    LET ws == UNION {WatchesOf(id) : id \in AccountsOf(p)}
    IN  <<[w \in ws |-> watches[w]], [r \in RulesOf(ws) |-> rules[r]]>>

OnlyTheirOwn ==
    [][~lent => \A p \in People :
           (\A t \in Tabs : Owner[t] = p => tab'[t] = tab[t]) => WatchedBy(p)' = WatchedBy(p)
      ]_<<users, watches, rules>>

===============================================================================
