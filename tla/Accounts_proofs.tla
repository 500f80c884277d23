---------------------------- MODULE Accounts_proofs ----------------------------
(***************************************************************************)
(* Proofs about Accounts, for any number of people, tabs, targets and ids: *)
(* deletion leaves nothing behind, a browser is signed in as the person    *)
(* who uses it, nobody changes what is another's, and the limits hold.     *)
(***************************************************************************)
EXTENDS Accounts, FiniteSetTheorems, TLAPS

-------------------------------------------------------------------------------
(***************************************************************************)
(* Tables, and the id of the next row.                                     *)
(***************************************************************************)
LEMMA UpsertedTable ==
    ASSUME NEW new, NEW table
    PROVE  /\ DOMAIN Upserted(new, table) = DOMAIN new \union DOMAIN table
           /\ \A k \in DOMAIN new : Upserted(new, table)[k] = new[k]
           /\ \A k \in DOMAIN table : k \notin DOMAIN new => Upserted(new, table)[k] = table[k]
  BY DEF Upserted

LEMMA WithoutTable ==
    ASSUME NEW table, NEW gone
    PROVE  /\ DOMAIN Without(table, gone) = DOMAIN table \ gone
           /\ \A k \in DOMAIN table \ gone : Without(table, gone)[k] = table[k]
  BY DEF Without

LEMMA EmptyTable == DOMAIN Nothing = {}
  BY DEF Nothing

\* A table of rows stays one when rows are added, changed or deleted.
LEMMA UpsertedType ==
    ASSUME NEW S, NEW new, NEW table,
           new \in [DOMAIN new -> S], table \in [DOMAIN table -> S]
    PROVE  Upserted(new, table) \in [DOMAIN Upserted(new, table) -> S]
  BY DEF Upserted

LEMMA WithoutType ==
    ASSUME NEW S, NEW table, NEW gone, table \in [DOMAIN table -> S]
    PROVE  Without(table, gone) \in [DOMAIN Without(table, gone) -> S]
  BY DEF Without

LEMMA RowTable ==
    ASSUME NEW id, NEW S, NEW fields \in S
    PROVE  /\ DOMAIN Row(id, fields) = {id} /\ Row(id, fields)[id] = fields
           /\ Row(id, fields) \in [DOMAIN Row(id, fields) -> S]
  BY DEF Row

\* A set of numbers with a bound has a greatest: the distances to the bound
\* have a least.
LEMMA GreatestExists ==
    ASSUME NEW n \in Nat, NEW S, S \subseteq 0..n, S # {}
    PROVE  \E x \in S : \A y \in S : x >= y
<1> DEFINE T == {n - x : x \in S}
           R == OpToRel(<, Nat)
<1>1. \A x \in S : n - x \in Nat
  OBVIOUS
<1>2. T \subseteq Nat /\ T # {}
  BY <1>1
<1>3. IsWellFoundedOn(R, Nat)
  BY NatLessThanWellFounded
<1>4. \A x, y \in Nat : x < y => <<x, y>> \in R
  BY DEF OpToRel
<1> HIDE DEF R, T
<1>5. PICK x \in T : \A y \in T : ~ (<<y, x>> \in R)
  BY <1>2, <1>3, WFMin
<1>6. PICK m \in S : x = n - m
  BY <1>5 DEF T
<1>7. ASSUME NEW k \in S PROVE m >= k
  <2>1. n - k \in T /\ n - k \in Nat /\ n - m \in Nat
    BY <1>7 DEF T
  <2>2. ~(n - k < n - m)
    BY <2>1, <1>4, <1>5, <1>6
  <2> QED
    BY <2>2
<1> QED
  BY <1>7

\* The id of the next row is above every id in use.
LEMMA NextRowIsNew ==
    ASSUME NEW n \in Nat, NEW table, DOMAIN table \subseteq 1..n
    PROVE  /\ NextRow(table) \in Nat \ {0}
           /\ \A k \in DOMAIN table : k < NextRow(table)
<1> DEFINE S == {0} \union DOMAIN table
<1>1. S \subseteq 0..n /\ S # {}
  OBVIOUS
<1>2. \E x \in S : \A y \in S : x >= y
  BY <1>1, GreatestExists
<1>3. Max(S) \in S /\ \A y \in S : Max(S) >= y
  BY <1>2 DEF Max
<1> QED
  BY <1>1, <1>3 DEF NextRow

-------------------------------------------------------------------------------
(***************************************************************************)
(* The inductive invariant.  Tokens are made one after another, so an old  *)
(* one is never made again; and as long as no id was lent, what a request  *)
(* or a cookie names is the account of the person it belongs to, or no     *)
(* account at all.                                                         *)
(***************************************************************************)
TokensGrow ==
    /\ \A s \in DOMAIN sessions : s <= tokens
    /\ \A p \in People : cookie[p] <= tokens

RequestsAreOwn ==
    ~lent => \A t \in Tabs :
                tab[t].at \in WithId /\ tab[t].uid \in DOMAIN users
                    => users[tab[t].uid] = Owner[t]

CookiesAreOwn ==
    ~lent => \A p \in People :
                cookie[p] \in DOMAIN sessions /\ sessions[cookie[p]] \in DOMAIN users
                    => users[sessions[cookie[p]]] = p

IInv == TypeOK /\ NothingIsLeftBehind /\ TokensGrow /\ RequestsAreOwn /\ CookiesAreOwn

LEMMA InitIInv == Init => IInv
<1> SUFFICES ASSUME Init PROVE IInv
  OBVIOUS
<1>1. /\ DOMAIN users = {} /\ DOMAIN sessions = {} /\ DOMAIN watches = {} /\ DOMAIN rules = {}
      /\ users = << >> /\ sessions = << >> /\ watches = << >> /\ rules = << >>
  BY EmptyTable DEF Init, Nothing
<1>2. \A S : << >> \in [{} -> S]
  OBVIOUS
<1>3. Idle \in Places
  BY DEF Places
<1>4. TypeOK
  <2>1. /\ users \in [DOMAIN users -> People] /\ sessions \in [DOMAIN sessions -> Ids]
        /\ watches \in [DOMAIN watches -> [user : Ids, target : Targets, edited : BOOLEAN]]
        /\ rules \in [DOMAIN rules -> Ids]
    BY <1>1, <1>2
  <2>2. /\ cookie \in [People -> {0} \union Tokens] /\ tab \in [Tabs -> Places]
        /\ tokens \in 0..MaxToken
    BY <1>3, Limits DEF Init
  <2>3. lent \in BOOLEAN
    BY DEF Init
  <2> QED
    BY <1>1, <2>1, <2>2, <2>3 DEF TypeOK
<1>5. NothingIsLeftBehind /\ TokensGrow /\ RequestsAreOwn /\ CookiesAreOwn
  BY <1>1 DEF Init, NothingIsLeftBehind, TokensGrow, RequestsAreOwn, CookiesAreOwn
<1> QED
  BY <1>4, <1>5 DEF IInv

\* What a tab knows by the place it is at.
LEMMA Known ==
    ASSUME TypeOK, NEW t \in Tabs
    PROVE  /\ tab[t].at \in WithId => tab[t].uid \in Ids
           /\ tab[t].at = "handling" => tab[t].token \in Tokens
           /\ tab[t].at = "owned" => tab[t].watch \in Ids
<1>1. tab[t] \in Places
  BY DEF TypeOK
<1>2. CASE tab[t] = Idle
  BY <1>2 DEF Idle, WithId
<1>3. CASE tab[t] \in [at : {"signing in"}, uid : Ids]
  BY <1>3 DEF WithId
<1>4. CASE tab[t] \in [at : {"handling"}, uid : Ids, token : Tokens]
  BY <1>4 DEF WithId
<1>5. CASE tab[t] \in [at : {"owned"}, uid : Ids, watch : Ids]
  BY <1>5 DEF WithId
<1> QED
  BY <1>1, <1>2, <1>3, <1>4, <1>5 DEF Places

LEMMA PlacesThereAre ==
    /\ Idle \in Places
    /\ \A uid \in Ids : [at |-> "signing in", uid |-> uid] \in Places
    /\ \A uid \in Ids, token \in Tokens : [at |-> "handling", uid |-> uid, token |-> token] \in Places
    /\ \A uid, w \in Ids : [at |-> "owned", uid |-> uid, watch |-> w] \in Places
  BY DEF Places, Idle

-------------------------------------------------------------------------------
(***************************************************************************)
(* What a handler does to the watches and rules.                           *)
(***************************************************************************)
WatchRow == [user : Ids, target : Targets, edited : BOOLEAN]

RowsOK ==
    /\ DOMAIN watches \subseteq Ids /\ watches \in [DOMAIN watches -> WatchRow]
    /\ DOMAIN rules \subseteq RuleIds /\ rules \in [DOMAIN rules -> Ids]

RowsBelong ==
    /\ \A w \in DOMAIN watches : watches[w].user \in DOMAIN users
    /\ \A r \in DOMAIN rules : rules[r] \in DOMAIN watches

\* The watches and rules of every other account stay as they are, and none is
\* added to them.
Kept(uid) ==
    /\ \A w \in DOMAIN watches : watches[w].user # uid =>
          w \in DOMAIN watches' /\ watches'[w] = watches[w]
    /\ \A w \in DOMAIN watches' : watches'[w].user # uid =>
          w \in DOMAIN watches /\ watches[w].user # uid
    /\ \A r \in DOMAIN rules : watches[rules[r]].user # uid =>
          r \in DOMAIN rules' /\ rules'[r] = rules[r]
    /\ \A r \in DOMAIN rules' : watches'[rules'[r]].user # uid =>
          r \in DOMAIN rules /\ watches[rules[r]].user # uid

LEMMA RulesInserted ==
    ASSUME RowsOK, NEW w \in Ids, NEW n \in Nat \ {0},
           NextRow(rules) + n - 1 \in RuleIds, rules' = InsertedRules(w, n)
    PROVE  /\ DOMAIN rules' \subseteq RuleIds /\ rules' \in [DOMAIN rules' -> Ids]
           /\ \A r \in DOMAIN rules : r \in DOMAIN rules' /\ rules'[r] = rules[r]
           /\ \A r \in DOMAIN rules' : r \notin DOMAIN rules => rules'[r] = w
<1> DEFINE first == NextRow(rules)
           new   == [r \in first..(first + n - 1) |-> w]
<1>1. first \in Nat \ {0} /\ \A r \in DOMAIN rules : r < first
  BY NextRowIsNew, Limits DEF RowsOK, RuleIds
<1>2. first..(first + n - 1) \subseteq RuleIds
  BY <1>1, Limits DEF RuleIds
<1>3. \A r \in DOMAIN rules : r \notin first..(first + n - 1)
  BY <1>1, Limits DEF RowsOK, RuleIds
<1>4. rules' = Upserted(new, rules)
  BY DEF InsertedRules
<1>5. new \in [DOMAIN new -> Ids] /\ DOMAIN new = first..(first + n - 1)
      /\ \A r \in DOMAIN new : new[r] = w
  OBVIOUS
<1> HIDE DEF new, first
<1>6. Upserted(new, rules) \in [DOMAIN Upserted(new, rules) -> Ids]
  BY <1>5, UpsertedType DEF RowsOK
<1>7. /\ DOMAIN Upserted(new, rules) = DOMAIN new \union DOMAIN rules
      /\ \A k \in DOMAIN new : Upserted(new, rules)[k] = new[k]
      /\ \A k \in DOMAIN rules : k \notin DOMAIN new => Upserted(new, rules)[k] = rules[k]
  BY UpsertedTable
<1>8. DOMAIN rules \subseteq RuleIds
  BY DEF RowsOK
<1> QED
  BY <1>2, <1>3, <1>4, <1>5, <1>6, <1>7, <1>8

\* A new watch takes an id that no rule and no watch has.
LEMMA CreateWatchKeeps ==
    ASSUME RowsOK, RowsBelong, NEW uid \in Ids, NEW target \in Targets, NEW relay \in BOOLEAN,
           CreateWatch(uid, target, relay)
    PROVE  RowsOK' /\ RowsBelong' /\ Kept(uid)
<1> DEFINE w == NextRow(watches)
           fields == [user |-> uid, target |-> target, edited |-> FALSE]
<1>1. fields \in WatchRow /\ fields.user = uid
  BY DEF WatchRow
<1>2. /\ w \in Ids /\ watches' = Upserted(Row(w, fields), watches)
      /\ rules' = InsertedRules(w, StartsWith(target, relay))
      /\ NextRow(rules) + StartsWith(target, relay) - 1 \in RuleIds
      /\ uid \in DOMAIN users /\ users' = users
  BY DEF CreateWatch
<1>3. StartsWith(target, relay) \in Nat \ {0}
  BY DEF StartsWith
<1>4. w \notin DOMAIN watches
  BY NextRowIsNew, Limits DEF RowsOK, Ids
<1> HIDE DEF w, fields
<1>5. /\ DOMAIN watches' = {w} \union DOMAIN watches /\ watches'[w] = fields
      /\ \A x \in DOMAIN watches : watches'[x] = watches[x]
      /\ watches' \in [DOMAIN watches' -> WatchRow]
  <2>1. /\ DOMAIN Row(w, fields) = {w} /\ Row(w, fields)[w] = fields
        /\ Row(w, fields) \in [DOMAIN Row(w, fields) -> WatchRow]
    BY <1>1, RowTable
  <2> DEFINE new == Row(w, fields)
  <2> HIDE DEF new
  <2>2. /\ DOMAIN Upserted(new, watches) = DOMAIN new \union DOMAIN watches
        /\ \A k \in DOMAIN new : Upserted(new, watches)[k] = new[k]
        /\ \A k \in DOMAIN watches : k \notin DOMAIN new => Upserted(new, watches)[k] = watches[k]
    BY UpsertedTable
  <2>3. Upserted(new, watches) \in [DOMAIN Upserted(new, watches) -> WatchRow]
    BY <2>1, UpsertedType DEF RowsOK, new
  <2>4. watches' = Upserted(new, watches)
    BY <1>2 DEF new
  <2>5. DOMAIN new = {w} /\ new[w] = fields
    BY <2>1 DEF new
  <2> QED
    BY <2>2, <2>3, <2>4, <2>5, <1>4
<1>6. /\ DOMAIN rules' \subseteq RuleIds /\ rules' \in [DOMAIN rules' -> Ids]
      /\ \A r \in DOMAIN rules : r \in DOMAIN rules' /\ rules'[r] = rules[r]
      /\ \A r \in DOMAIN rules' : r \notin DOMAIN rules => rules'[r] = w
  BY <1>2, <1>3, RulesInserted
<1>7. RowsOK'
  BY <1>2, <1>5, <1>6 DEF RowsOK
<1>8. RowsBelong'
  BY <1>1, <1>2, <1>5, <1>6 DEF RowsBelong
<1>9. Kept(uid)
  BY <1>1, <1>4, <1>5, <1>6 DEF Kept, RowsBelong
<1> QED
  BY <1>7, <1>8, <1>9

\* Rules go with their watches.
LEMMA DeleteWatchesKeeps ==
    ASSUME RowsOK, RowsBelong, NEW uid \in Ids, NEW ws, ws \subseteq WatchesOf(uid),
           DeleteWatches(ws)
    PROVE  /\ RowsOK' /\ Kept(uid)
           /\ \A r \in DOMAIN rules' : rules'[r] \in DOMAIN watches'
           /\ DOMAIN watches' = DOMAIN watches \ ws
           /\ \A w \in DOMAIN watches' : watches'[w] = watches[w]
<1>1. watches' = Without(watches, ws) /\ rules' = Without(rules, RulesOf(ws))
  BY DEF DeleteWatches
<1>2. /\ DOMAIN watches' = DOMAIN watches \ ws
      /\ \A w \in DOMAIN watches' : watches'[w] = watches[w]
      /\ watches' \in [DOMAIN watches' -> WatchRow]
  <2>1. /\ DOMAIN Without(watches, ws) = DOMAIN watches \ ws
        /\ \A w \in DOMAIN watches \ ws : Without(watches, ws)[w] = watches[w]
    BY WithoutTable
  <2>2. Without(watches, ws) \in [DOMAIN Without(watches, ws) -> WatchRow]
    BY WithoutType DEF RowsOK
  <2> QED
    BY <1>1, <2>1, <2>2
<1>3. /\ DOMAIN rules' = DOMAIN rules \ RulesOf(ws)
      /\ \A r \in DOMAIN rules' : rules'[r] = rules[r]
      /\ rules' \in [DOMAIN rules' -> Ids]
  <2> DEFINE gone == RulesOf(ws)
  <2>1. rules' = Without(rules, gone)
    BY <1>1
  <2> HIDE DEF gone
  <2>2. /\ DOMAIN Without(rules, gone) = DOMAIN rules \ gone
        /\ \A r \in DOMAIN rules \ gone : Without(rules, gone)[r] = rules[r]
    BY WithoutTable
  <2>3. Without(rules, gone) \in [DOMAIN Without(rules, gone) -> Ids]
    BY WithoutType DEF RowsOK
  <2> QED
    BY <2>1, <2>2, <2>3 DEF gone
<1>4. \A w \in ws : watches[w].user = uid
  BY DEF WatchesOf
<1>5. \A r \in DOMAIN rules : r \in RulesOf(ws) <=> rules[r] \in ws
  BY DEF RulesOf
<1>6. \A r \in DOMAIN rules' : rules'[r] \in DOMAIN watches'
  BY <1>2, <1>3, <1>5 DEF RowsBelong
<1>7. RowsOK'
  BY <1>2, <1>3 DEF RowsOK
<1>8. Kept(uid)
  BY <1>2, <1>3, <1>4, <1>5 DEF Kept, RowsBelong
<1> QED
  BY <1>2, <1>6, <1>7, <1>8

\* Settings change in place.
LEMMA EditedKeeps ==
    ASSUME RowsOK, RowsBelong, NEW uid \in Ids, NEW w \in WatchesOf(uid), Edited(w),
           rules' = rules, users' = users
    PROVE  RowsOK' /\ RowsBelong' /\ Kept(uid)
<1>1. w \in DOMAIN watches /\ watches[w].user = uid
  BY DEF WatchesOf
<1>2. watches' \in [DOMAIN watches -> WatchRow] /\ DOMAIN watches' = DOMAIN watches
  BY DEF Edited, RowsOK, WatchRow
<1>3. \A x \in DOMAIN watches : x # w => watches'[x] = watches[x]
  BY DEF Edited, RowsOK
<1>4. watches'[w].user = uid
  BY <1>1 DEF Edited, RowsOK, WatchRow
<1>5. RowsOK'
  BY <1>2 DEF RowsOK
<1>6. RowsBelong'
  BY <1>1, <1>2, <1>3, <1>4 DEF RowsBelong
<1>7. Kept(uid)
  BY <1>1, <1>2, <1>3, <1>4 DEF Kept, RowsBelong
<1> QED
  BY <1>5, <1>6, <1>7

\* A rule is taken out only by the account whose watch it is on.
LEMMA DeleteRuleKeeps ==
    ASSUME RowsOK, RowsBelong, NEW uid \in Ids, NEW r, DeleteRule(uid, r)
    PROVE  RowsOK' /\ RowsBelong' /\ Kept(uid)
<1> DEFINE gone == {r} \intersect RulesOf(WatchesOf(uid))
<1>1. rules' = Without(rules, gone) /\ watches' = watches /\ users' = users
  BY DEF DeleteRule
<1>2. \A x \in gone : watches[rules[x]].user = uid
  BY DEF RulesOf, WatchesOf
<1> HIDE DEF gone
<1>3. /\ DOMAIN rules' = DOMAIN rules \ gone
      /\ \A x \in DOMAIN rules' : rules'[x] = rules[x]
      /\ rules' \in [DOMAIN rules' -> Ids]
  <2>1. /\ DOMAIN Without(rules, gone) = DOMAIN rules \ gone
        /\ \A x \in DOMAIN rules \ gone : Without(rules, gone)[x] = rules[x]
    BY WithoutTable
  <2>2. Without(rules, gone) \in [DOMAIN Without(rules, gone) -> Ids]
    BY WithoutType DEF RowsOK
  <2> QED
    BY <1>1, <2>1, <2>2
<1>4. RowsOK' /\ RowsBelong'
  BY <1>1, <1>3 DEF RowsOK, RowsBelong
<1>5. Kept(uid)
  BY <1>1, <1>2, <1>3 DEF Kept, RowsBelong
<1> QED
  BY <1>4, <1>5

LEMMA AddRuleKeeps ==
    ASSUME RowsOK, RowsBelong, NEW uid \in Ids, NEW w \in Ids, AddRule(uid, w)
    PROVE  RowsOK' /\ RowsBelong' /\ Kept(uid)
<1>1. /\ w \in DOMAIN watches /\ watches[w].user = uid
      /\ watches' = watches /\ users' = users /\ rules' = InsertedRules(w, 1)
      /\ NextRow(rules) \in RuleIds
  BY DEF AddRule, WatchesOf
<1>2. NextRow(rules) + 1 - 1 \in RuleIds
  BY <1>1 DEF RuleIds
<1>3. /\ DOMAIN rules' \subseteq RuleIds /\ rules' \in [DOMAIN rules' -> Ids]
      /\ \A r \in DOMAIN rules : r \in DOMAIN rules' /\ rules'[r] = rules[r]
      /\ \A r \in DOMAIN rules' : r \notin DOMAIN rules => rules'[r] = w
  BY <1>1, <1>2, RulesInserted
<1>4. RowsOK' /\ RowsBelong'
  BY <1>1, <1>3 DEF RowsOK, RowsBelong
<1>5. Kept(uid)
  BY <1>1, <1>3 DEF Kept, RowsBelong
<1> QED
  BY <1>4, <1>5

LEMMA ChangeKeeps ==
    ASSUME RowsOK, RowsBelong, NEW uid \in Ids, Change(uid)
    PROVE  RowsOK' /\ RowsBelong' /\ Kept(uid) /\ UNCHANGED <<users, sessions>>
<1>1. ASSUME NEW target \in Targets, NEW relay \in BOOLEAN, CreateWatch(uid, target, relay)
      PROVE  RowsOK' /\ RowsBelong' /\ Kept(uid) /\ UNCHANGED <<users, sessions>>
  BY <1>1, CreateWatchKeeps DEF CreateWatch
<1>2. ASSUME NEW w \in Ids, DeleteWatch(uid, w)
      PROVE  RowsOK' /\ RowsBelong' /\ Kept(uid) /\ UNCHANGED <<users, sessions>>
  <2>1. DeleteWatches({w} \intersect WatchesOf(uid)) /\ UNCHANGED <<users, sessions>>
    BY <1>2 DEF DeleteWatch
  <2>2. /\ RowsOK' /\ Kept(uid)
        /\ \A r \in DOMAIN rules' : rules'[r] \in DOMAIN watches'
        /\ DOMAIN watches' \subseteq DOMAIN watches
        /\ \A x \in DOMAIN watches' : watches'[x] = watches[x]
    BY <2>1, DeleteWatchesKeeps
  <2> QED
    BY <2>1, <2>2 DEF RowsBelong
<1>3. ASSUME NEW w \in Ids, EditWatch(uid, w)
      PROVE  RowsOK' /\ RowsBelong' /\ Kept(uid) /\ UNCHANGED <<users, sessions>>
  BY <1>3, EditedKeeps DEF EditWatch
<1>4. ASSUME NEW r \in RuleIds, UpdateRule(uid, r)
      PROVE  RowsOK' /\ RowsBelong' /\ Kept(uid) /\ UNCHANGED <<users, sessions>>
  <2>1. rules[r] \in WatchesOf(uid) /\ Edited(rules[r]) /\ UNCHANGED <<users, sessions, rules>>
    BY <1>4 DEF UpdateRule, RulesOf
  <2> QED
    BY <2>1, EditedKeeps
<1>5. ASSUME NEW r \in RuleIds, DeleteRule(uid, r)
      PROVE  RowsOK' /\ RowsBelong' /\ Kept(uid) /\ UNCHANGED <<users, sessions>>
  BY <1>5, DeleteRuleKeeps DEF DeleteRule
<1> QED
  BY <1>1, <1>2, <1>3, <1>4, <1>5 DEF Change

-------------------------------------------------------------------------------
(***************************************************************************)
(* The parts of the invariant that speak of ids, where accounts and        *)
(* sessions can only go.                                                   *)
(***************************************************************************)
LEMMA InvParts == IInv => RowsOK /\ RowsBelong /\ \A s \in DOMAIN sessions : sessions[s] \in DOMAIN users
  BY DEF IInv, TypeOK, RowsOK, RowsBelong, WatchRow, NothingIsLeftBehind

\* Nobody is added.
OnlyGone(table, later) == \A k \in DOMAIN later : k \in DOMAIN table /\ later[k] = table[k]

LEMMA RequestsStep ==
    ASSUME TypeOK, RequestsAreOwn, NEW t \in Tabs, NEW place,
           tab' = [tab EXCEPT ![t] = place], lent' = lent, OnlyGone(users, users'),
           ~lent /\ place.at \in WithId /\ place.uid \in DOMAIN users'
               => users'[place.uid] = Owner[t]
    PROVE  RequestsAreOwn'
<1> SUFFICES ASSUME ~lent, NEW x \in Tabs, tab'[x].at \in WithId, tab'[x].uid \in DOMAIN users'
             PROVE  users'[tab'[x].uid] = Owner[x]
  BY DEF RequestsAreOwn
<1>1. CASE x = t
  BY <1>1 DEF TypeOK
<1>2. CASE x # t
  <2>1. tab'[x] = tab[x]
    BY <1>2 DEF TypeOK
  <2> QED
    BY <2>1 DEF RequestsAreOwn, OnlyGone
<1> QED
  BY <1>1, <1>2

LEMMA CookiesStep ==
    ASSUME TypeOK, CookiesAreOwn, lent' = lent, OnlyGone(users, users'),
           OnlyGone(sessions, sessions'), \A p \in People : cookie'[p] \in {cookie[p], 0}
    PROVE  CookiesAreOwn'
<1> SUFFICES ASSUME ~lent, NEW p \in People, cookie'[p] \in DOMAIN sessions',
                    sessions'[cookie'[p]] \in DOMAIN users'
             PROVE  users'[sessions'[cookie'[p]]] = p
  BY DEF CookiesAreOwn
<1>1. 0 \notin DOMAIN sessions
  BY DEF TypeOK, Tokens
<1>2. cookie'[p] = cookie[p] /\ sessions'[cookie[p]] = sessions[cookie[p]]
  BY <1>1 DEF OnlyGone
<1> QED
  BY <1>2 DEF CookiesAreOwn, OnlyGone

LEMMA TokensStep ==
    ASSUME TypeOK, TokensGrow, tokens' = tokens, OnlyGone(sessions, sessions'),
           \A p \in People : cookie'[p] \in {cookie[p], 0}
    PROVE  TokensGrow'
  BY DEF TypeOK, TokensGrow, OnlyGone

LEMMA Untouched == \A table : OnlyGone(table, table)
  BY DEF OnlyGone

\* A cookie is kept or cleared.
LEMMA ClearedCookie ==
    ASSUME TypeOK, NEW t \in Tabs, CookieOf(t, 0) \/ cookie' = cookie
    PROVE  /\ cookie' \in [People -> {0} \union Tokens]
           /\ \A p \in People : cookie'[p] \in {cookie[p], 0}
  BY Limits DEF TypeOK, CookieOf

-------------------------------------------------------------------------------
(***************************************************************************)
(* Each step keeps the invariant.                                          *)
(***************************************************************************)
\* A request goes on, or ends, and nothing else changes.
LEMMA PlaceStep ==
    ASSUME IInv, NEW t \in Tabs, NEW place \in Places, tab' = [tab EXCEPT ![t] = place],
           UNCHANGED <<database, cookie, tokens, lent>>,
           ~lent /\ place.at \in WithId /\ place.uid \in DOMAIN users
               => users[place.uid] = Owner[t]
    PROVE  IInv'
<1>1. UNCHANGED <<users, sessions, watches, rules, cookie, tokens, lent>>
  BY DEF database
<1>2. TypeOK'
  BY <1>1 DEF IInv, TypeOK
<1>3. NothingIsLeftBehind' /\ TokensGrow' /\ CookiesAreOwn'
  BY <1>1 DEF IInv, NothingIsLeftBehind, TokensGrow, CookiesAreOwn
<1>4. RequestsAreOwn'
  <2>1. OnlyGone(users, users')
    BY <1>1, Untouched
  <2> QED
    BY <2>1, <1>1, RequestsStep DEF IInv
<1> QED
  BY <1>2, <1>3, <1>4 DEF IInv

LEMMA QuietStep ==
    ASSUME IInv, NEW t \in Tabs,
           Abandon(t) \/ OldAccount(t) \/ SessionUser(t) \/ WatchOwnedBy(t)
    PROVE  IInv'
<1>1. CASE Abandon(t)
  <2>1. Idle \in Places /\ Idle.at \notin WithId
    BY PlacesThereAre DEF Idle, WithId
  <2> QED
    BY <1>1, <2>1, PlaceStep DEF Abandon
<1>2. CASE OldAccount(t)
  <2>1. PICK id \in AccountsOf(Owner[t]) : Goes(t, "idle", [at |-> "signing in", uid |-> id])
    BY <1>2 DEF OldAccount
  <2>2. id \in Ids /\ users[id] = Owner[t]
    BY DEF AccountsOf, IInv, TypeOK
  <2> DEFINE place == [at |-> "signing in", uid |-> id]
  <2>3. place \in Places /\ place.uid = id
    BY <2>2, PlacesThereAre
  <2>4. tab' = [tab EXCEPT ![t] = place] /\ UNCHANGED <<database, cookie, tokens, lent>>
    BY <1>2, <2>1 DEF OldAccount, Goes
  <2> HIDE DEF place
  <2> QED
    BY <2>2, <2>3, <2>4, PlaceStep
<1>3. CASE SessionUser(t)
  <2> DEFINE held  == cookie[Owner[t]]
             place == [at |-> "handling", uid |-> sessions[held], token |-> held]
  <2>1. /\ held \in DOMAIN sessions /\ tab' = [tab EXCEPT ![t] = place]
        /\ UNCHANGED <<database, cookie, tokens, lent>>
    BY <1>3 DEF SessionUser, Goes
  <2>2. held \in Tokens /\ sessions[held] \in Ids /\ Owner[t] \in People
    BY <2>1, Limits DEF IInv, TypeOK
  <2>3. place \in Places /\ place.uid = sessions[held]
    BY <2>2, PlacesThereAre
  <2>4. ~lent /\ sessions[held] \in DOMAIN users => users[sessions[held]] = Owner[t]
    BY <2>1, <2>2 DEF IInv, CookiesAreOwn
  <2> HIDE DEF held, place
  <2> QED
    BY <2>1, <2>3, <2>4, PlaceStep
<1>4. CASE WatchOwnedBy(t)
  <2>1. PICK w \in WatchesOf(tab[t].uid) :
           Goes(t, "handling", [at |-> "owned", uid |-> tab[t].uid, watch |-> w])
    BY <1>4 DEF WatchOwnedBy
  <2> DEFINE place == [at |-> "owned", uid |-> tab[t].uid, watch |-> w]
  <2>2. tab[t].at \in WithId /\ tab' = [tab EXCEPT ![t] = place]
        /\ UNCHANGED <<database, cookie, tokens, lent>>
    BY <1>4, <2>1 DEF WatchOwnedBy, Goes, WithId
  <2>3. tab[t].uid \in Ids /\ w \in Ids
    BY <2>2, Known DEF IInv, TypeOK, WatchesOf
  <2>4. place \in Places /\ place.uid = tab[t].uid
    BY <2>3, PlacesThereAre
  <2> HIDE DEF place
  <2>5. ~lent /\ tab[t].uid \in DOMAIN users => users[tab[t].uid] = Owner[t]
    BY <2>2 DEF IInv, RequestsAreOwn
  <2> QED
    BY <2>2, <2>4, <2>5, PlaceStep
<1> QED
  BY <1>1, <1>2, <1>3, <1>4

\* A handler's transaction on watches and rules, and the request's end.
LEMMA RowsStep ==
    ASSUME IInv, NEW t \in Tabs, tab' = [tab EXCEPT ![t] = Idle],
           RowsOK', RowsBelong', UNCHANGED <<users, sessions, cookie, tokens, lent>>
    PROVE  IInv'
<1>1. Idle \in Places /\ Idle.at \notin WithId
  BY PlacesThereAre DEF Idle, WithId
<1>2. TypeOK'
  BY <1>1 DEF IInv, TypeOK, RowsOK, WatchRow
<1>3. NothingIsLeftBehind'
  BY DEF IInv, NothingIsLeftBehind, RowsBelong
<1>4. TokensGrow' /\ CookiesAreOwn'
  BY DEF IInv, TokensGrow, CookiesAreOwn
<1>5. RequestsAreOwn'
  <2>1. OnlyGone(users, users')
    BY Untouched
  <2> QED
    BY <1>1, <2>1, RequestsStep DEF IInv
<1> QED
  BY <1>2, <1>3, <1>4, <1>5 DEF IInv

\* A new account gets an id no account and no session has.
LEMMA NewAccountStep == ASSUME IInv, NEW t \in Tabs, NewAccount(t) PROVE IInv'
<1> DEFINE p     == Owner[t]
           new   == NextRow(users)
           place == [at |-> "signing in", uid |-> new]
<1>1. /\ new \in Ids /\ tab' = [tab EXCEPT ![t] = place]
      /\ users' = Upserted(Row(new, p), users)
      /\ lent' = (lent \/ HeldByAnother(new, p))
      /\ UNCHANGED <<sessions, watches, rules, cookie, tokens>>
  BY DEF NewAccount, Goes
<1>2. new \notin DOMAIN users
  BY NextRowIsNew, Limits DEF IInv, TypeOK, Ids
<1>3. p \in People
  BY Limits
<1>4. place \in Places /\ place.uid = new
  BY <1>1, PlacesThereAre
<1> HIDE DEF p, new, place
<1>5. /\ DOMAIN users' = {new} \union DOMAIN users /\ users'[new] = p
      /\ \A id \in DOMAIN users : users'[id] = users[id]
      /\ users' \in [DOMAIN users' -> People]
  <2> DEFINE added == Row(new, p)
  <2>1. DOMAIN added = {new} /\ added[new] = p /\ added \in [DOMAIN added -> People]
    BY <1>3, RowTable
  <2> HIDE DEF added
  <2>2. /\ DOMAIN Upserted(added, users) = DOMAIN added \union DOMAIN users
        /\ \A k \in DOMAIN added : Upserted(added, users)[k] = added[k]
        /\ \A k \in DOMAIN users : k \notin DOMAIN added => Upserted(added, users)[k] = users[k]
    BY UpsertedTable
  <2>3. Upserted(added, users) \in [DOMAIN Upserted(added, users) -> People]
    BY <2>1, UpsertedType DEF IInv, TypeOK
  <2> QED
    BY <1>1, <1>2, <2>1, <2>2, <2>3 DEF added
<1>6. lent' \in BOOLEAN
  BY <1>1 DEF IInv, TypeOK, HeldByAnother
<1>7. TypeOK'
  BY <1>1, <1>4, <1>5, <1>6 DEF IInv, TypeOK
<1>8. NothingIsLeftBehind'
  BY <1>1, <1>5 DEF IInv, NothingIsLeftBehind
<1>9. TokensGrow'
  BY <1>1 DEF IInv, TokensGrow
<1>10. RequestsAreOwn'
  <2> SUFFICES ASSUME ~lent', NEW x \in Tabs, tab'[x].at \in WithId, tab'[x].uid \in DOMAIN users'
               PROVE  users'[tab'[x].uid] = Owner[x]
    BY DEF RequestsAreOwn
  <2>1. ~lent /\ ~HeldByAnother(new, p)
    BY <1>1
  <2>2. CASE x = t
    BY <2>2, <1>1, <1>4, <1>5 DEF IInv, TypeOK, p
  <2>3. CASE x # t
    <3>1. tab'[x] = tab[x]
      BY <2>3, <1>1 DEF IInv, TypeOK
    <3>2. CASE tab[x].uid = new
      BY <3>1, <3>2, <2>1, <1>5 DEF HeldByAnother
    <3>3. CASE tab[x].uid # new
      BY <3>1, <3>3, <2>1, <1>5 DEF IInv, RequestsAreOwn
    <3> QED
      BY <3>2, <3>3
  <2> QED
    BY <2>2, <2>3
<1>11. CookiesAreOwn'
  <2> SUFFICES ASSUME ~lent', NEW q \in People, cookie'[q] \in DOMAIN sessions',
                      sessions'[cookie'[q]] \in DOMAIN users'
               PROVE  users'[sessions'[cookie'[q]]] = q
    BY DEF CookiesAreOwn
  <2>1. ~lent /\ sessions[cookie[q]] \in DOMAIN users
    BY <1>1 DEF IInv, NothingIsLeftBehind
  <2> QED
    BY <2>1, <1>1, <1>5 DEF IInv, CookiesAreOwn
<1> QED
  BY <1>7, <1>8, <1>9, <1>10, <1>11 DEF IInv

\* A new token, of an account there is, that the person's request stood for.
LEMMA CreateSessionStep == ASSUME IInv, NEW t \in Tabs, CreateSession(t) PROVE IInv'
<1> DEFINE new == tokens + 1
           uid == tab[t].uid
           p   == Owner[t]
<1>1. /\ tab[t].at \in WithId /\ tab' = [tab EXCEPT ![t] = Idle]
      /\ uid \in DOMAIN users /\ new \in Tokens /\ tokens' = new
      /\ sessions' = Upserted(Row(new, uid), sessions)
      /\ cookie' = [cookie EXCEPT ![p] = new]
      /\ UNCHANGED <<users, watches, rules, lent>>
  BY DEF CreateSession, Goes, CookieOf, WithId
<1>2. uid \in Ids /\ p \in People /\ (~lent => users[uid] = p)
  BY <1>1, Limits DEF IInv, TypeOK, RequestsAreOwn
<1>3. /\ tokens \in Nat /\ new > tokens /\ new \in 0..MaxToken
      /\ \A s \in DOMAIN sessions : s \in Nat /\ s <= tokens
      /\ \A q \in People : cookie[q] \in Nat /\ cookie[q] <= tokens
  BY <1>1, Limits DEF IInv, TypeOK, TokensGrow, Tokens
<1>4. Idle \in Places /\ Idle.at \notin WithId
  BY PlacesThereAre DEF Idle, WithId
<1> HIDE DEF new, uid, p
<1>5. /\ DOMAIN sessions' = {new} \union DOMAIN sessions /\ sessions'[new] = uid
      /\ \A s \in DOMAIN sessions : s # new => sessions'[s] = sessions[s]
      /\ sessions' \in [DOMAIN sessions' -> Ids]
  <2> DEFINE added == Row(new, uid)
  <2>1. DOMAIN added = {new} /\ added[new] = uid /\ added \in [DOMAIN added -> Ids]
    BY <1>2, RowTable
  <2> HIDE DEF added
  <2>2. /\ DOMAIN Upserted(added, sessions) = DOMAIN added \union DOMAIN sessions
        /\ \A k \in DOMAIN added : Upserted(added, sessions)[k] = added[k]
        /\ \A k \in DOMAIN sessions :
              k \notin DOMAIN added => Upserted(added, sessions)[k] = sessions[k]
    BY UpsertedTable
  <2>3. Upserted(added, sessions) \in [DOMAIN Upserted(added, sessions) -> Ids]
    BY <2>1, UpsertedType DEF IInv, TypeOK
  <2> QED
    BY <1>1, <2>1, <2>2, <2>3 DEF added
<1>6. new \in Nat /\ new \notin DOMAIN sessions /\ \A q \in People : cookie[q] # new
  BY <1>3
<1>7. /\ cookie'[p] = new /\ \A q \in People : q # p => cookie'[q] = cookie[q]
      /\ cookie' \in [People -> {0} \union Tokens]
  BY <1>1, <1>2 DEF IInv, TypeOK
<1>8. TypeOK'
  BY <1>1, <1>3, <1>4, <1>5, <1>7 DEF IInv, TypeOK
<1>9. NothingIsLeftBehind'
  BY <1>1, <1>5, <1>6 DEF IInv, NothingIsLeftBehind
<1>10. TokensGrow'
  <2>1. ASSUME NEW s \in DOMAIN sessions' PROVE s <= tokens'
    BY <1>1, <1>3, <1>5, <1>6
  <2>2. ASSUME NEW q \in People PROVE cookie'[q] <= tokens'
    BY <1>1, <1>3, <1>6, <1>7
  <2> QED
    BY <2>1, <2>2 DEF TokensGrow
<1>11. RequestsAreOwn'
  <2>1. OnlyGone(users, users') /\ lent' = lent
    BY <1>1, Untouched
  <2> QED
    BY <1>1, <1>4, <2>1, RequestsStep DEF IInv
<1>12. CookiesAreOwn'
  <2> SUFFICES ASSUME ~lent, NEW q \in People, cookie'[q] \in DOMAIN sessions',
                      sessions'[cookie'[q]] \in DOMAIN users
               PROVE  users[sessions'[cookie'[q]]] = q
    BY <1>1 DEF CookiesAreOwn
  <2>1. CASE q = p
    BY <2>1, <1>2, <1>5, <1>7
  <2>2. CASE q # p
    <3>1. cookie'[q] = cookie[q] /\ cookie[q] # new
      BY <2>2, <1>6, <1>7
    <3>2. cookie[q] \in DOMAIN sessions /\ sessions'[cookie'[q]] = sessions[cookie[q]]
      BY <3>1, <1>5
    <3> QED
      BY <3>1, <3>2 DEF IInv, CookiesAreOwn
  <2> QED
    BY <2>1, <2>2
<1> QED
  BY <1>8, <1>9, <1>10, <1>11, <1>12 DEF IInv

LEMMA NoSessionStep == ASSUME IInv, NEW t \in Tabs, NoSession(t) PROVE IInv'
<1>1. CookieOf(t, 0) /\ UNCHANGED <<users, sessions, watches, rules, tab, tokens, lent>>
  BY DEF NoSession, database
<1>2. /\ cookie' \in [People -> {0} \union Tokens]
      /\ \A p \in People : cookie'[p] \in {cookie[p], 0}
  BY <1>1, ClearedCookie DEF IInv
<1>3. OnlyGone(users, users') /\ OnlyGone(sessions, sessions') /\ lent' = lent
  BY <1>1, Untouched
<1>4. TypeOK'
  BY <1>1, <1>2 DEF IInv, TypeOK
<1>5. NothingIsLeftBehind' /\ RequestsAreOwn'
  BY <1>1 DEF IInv, NothingIsLeftBehind, RequestsAreOwn
<1>6. TokensGrow' /\ CookiesAreOwn'
  BY <1>1, <1>2, <1>3, TokensStep, CookiesStep DEF IInv
<1> QED
  BY <1>4, <1>5, <1>6 DEF IInv

LEMMA HandleStep ==
    ASSUME IInv, NEW t \in Tabs, Handle(t) \/ HandleAddRule(t)
    PROVE  IInv' /\ Kept(tab[t].uid) /\ tab[t].at \in WithId /\ tab'[t] # tab[t]
                 /\ UNCHANGED <<users, lent>>
<1>1. /\ tab[t].at \in WithId /\ tab' = [tab EXCEPT ![t] = Idle]
      /\ UNCHANGED <<cookie, tokens, lent>>
  BY DEF Handle, HandleAddRule, Goes, WithId
<1>2. tab[t].uid \in Ids
  BY <1>1, Known DEF IInv
<1>3. RowsOK /\ RowsBelong
  BY InvParts
<1>4. RowsOK' /\ RowsBelong' /\ Kept(tab[t].uid) /\ UNCHANGED <<users, sessions>>
  <2>1. CASE Handle(t)
    BY <2>1, <1>2, <1>3, ChangeKeeps DEF Handle
  <2>2. CASE HandleAddRule(t)
    <3>1. tab[t].at = "owned" /\ AddRule(tab[t].uid, tab[t].watch)
      BY <2>2 DEF HandleAddRule, Goes
    <3>2. tab[t].watch \in Ids
      BY <3>1, Known DEF IInv
    <3>3. UNCHANGED <<users, sessions>>
      BY <3>1 DEF AddRule
    <3> QED
      BY <3>1, <3>2, <3>3, <1>2, <1>3, AddRuleKeeps
  <2> QED
    BY <2>1, <2>2
<1>5. IInv'
  BY <1>1, <1>4, RowsStep
<1>6. tab'[t] # tab[t]
  <2>1. tab'[t] = Idle /\ Idle.at \notin WithId
    BY <1>1 DEF IInv, TypeOK, Idle, WithId
  <2> QED
    BY <2>1, <1>1
<1> QED
  BY <1>1, <1>4, <1>5, <1>6

\* Sessions go, at the end of a request or by themselves.
LEMMA SessionsGo ==
    ASSUME IInv, NEW gone, sessions' = Without(sessions, gone),
           UNCHANGED <<users, watches, rules, tokens, lent>>,
           cookie' \in [People -> {0} \union Tokens],
           \A p \in People : cookie'[p] \in {cookie[p], 0},
           tab' = tab \/ \E t \in Tabs : tab' = [tab EXCEPT ![t] = Idle]
    PROVE  IInv'
<1>1. /\ DOMAIN sessions' = DOMAIN sessions \ gone
      /\ \A s \in DOMAIN sessions \ gone : sessions'[s] = sessions[s]
  <2>1. /\ DOMAIN Without(sessions, gone) = DOMAIN sessions \ gone
        /\ \A s \in DOMAIN sessions \ gone : Without(sessions, gone)[s] = sessions[s]
    BY WithoutTable
  <2> QED
    BY <2>1
<1>2. sessions' \in [DOMAIN sessions' -> Ids]
  BY WithoutType DEF IInv, TypeOK
<1>3. OnlyGone(users, users') /\ OnlyGone(sessions, sessions') /\ lent' = lent
  BY <1>1, Untouched DEF OnlyGone
<1>4. Idle \in Places /\ Idle.at \notin WithId
  BY PlacesThereAre DEF Idle, WithId
<1>5. TypeOK'
  <2>1. tab' \in [Tabs -> Places]
    BY <1>4 DEF IInv, TypeOK
  <2> QED
    BY <1>1, <1>2, <2>1 DEF IInv, TypeOK
<1>6. NothingIsLeftBehind'
  BY <1>1 DEF IInv, NothingIsLeftBehind
<1>7. TokensGrow' /\ CookiesAreOwn'
  BY <1>3, TokensStep, CookiesStep DEF IInv
<1>8. RequestsAreOwn'
  <2>1. CASE tab' = tab
    BY <2>1 DEF IInv, RequestsAreOwn
  <2>2. CASE \E t \in Tabs : tab' = [tab EXCEPT ![t] = Idle]
    BY <2>2, <1>3, <1>4, RequestsStep DEF IInv
  <2> QED
    BY <2>1, <2>2
<1> QED
  BY <1>5, <1>6, <1>7, <1>8 DEF IInv

LEMMA HandleLogoutStep == ASSUME IInv, NEW t \in Tabs, HandleLogout(t) PROVE IInv'
<1>1. /\ tab' = [tab EXCEPT ![t] = Idle] /\ UNCHANGED <<users, watches, rules, tokens, lent>>
      /\ CookieOf(t, 0) \/ cookie' = cookie
  BY DEF HandleLogout, Goes, Answered, DeleteSession, database
<1>2. /\ cookie' \in [People -> {0} \union Tokens]
      /\ \A p \in People : cookie'[p] \in {cookie[p], 0}
  BY <1>1, ClearedCookie DEF IInv
<1>3. CASE sessions' = sessions
  <2>1. RowsOK' /\ RowsBelong' /\ TypeOK'
    <3>1. Idle \in Places
      BY PlacesThereAre
    <3> QED
      BY <3>1, <1>1, <1>2, <1>3, InvParts DEF IInv, TypeOK, RowsOK, RowsBelong, WatchRow
  <2>2. NothingIsLeftBehind'
    BY <1>1, <1>3 DEF IInv, NothingIsLeftBehind
  <2>3. OnlyGone(users, users') /\ OnlyGone(sessions, sessions') /\ Idle.at \notin WithId
    BY <1>1, <1>3, Untouched DEF Idle, WithId
  <2>4. TokensGrow' /\ CookiesAreOwn'
    BY <1>1, <1>2, <2>3, TokensStep, CookiesStep DEF IInv
  <2>5. RequestsAreOwn'
    BY <1>1, <2>3, RequestsStep DEF IInv
  <2> QED
    BY <2>1, <2>2, <2>4, <2>5 DEF IInv
<1>4. CASE DeleteSession(tab[t].token)
  <2>1. sessions' = Without(sessions, {tab[t].token})
    BY <1>4 DEF DeleteSession
  <2> QED
    BY <1>1, <1>2, <2>1, SessionsGo
<1> QED
  BY <1>3, <1>4 DEF HandleLogout, database

LEMMA ExpireStep == ASSUME IInv, NEW token \in Tokens, Expire(token) PROVE IInv'
<1>1. /\ sessions' = Without(sessions, {token}) /\ tab' = tab
      /\ UNCHANGED <<users, watches, rules, cookie, tokens, lent>>
  BY DEF Expire, DeleteSession
<1>2. /\ cookie' \in [People -> {0} \union Tokens]
      /\ \A p \in People : cookie'[p] \in {cookie[p], 0}
  BY <1>1 DEF IInv, TypeOK
<1> QED
  BY <1>1, <1>2, SessionsGo

\* The account goes with its sessions, watches and rules.
LEMMA HandleDeleteAccountStep ==
    ASSUME IInv, NEW t \in Tabs, HandleDeleteAccount(t)
    PROVE  /\ IInv' /\ Kept(tab[t].uid) /\ tab[t].at \in WithId /\ tab'[t] # tab[t]
           /\ users' = Without(users, {tab[t].uid}) /\ lent' = lent
<1> DEFINE uid  == tab[t].uid
           gone == {s \in DOMAIN sessions : sessions[s] = uid}
<1>1. /\ tab[t].at \in WithId /\ tab' = [tab EXCEPT ![t] = Idle] /\ tokens' = tokens /\ lent' = lent
      /\ users' = Without(users, {uid}) /\ sessions' = Without(sessions, gone)
      /\ DeleteWatches(WatchesOf(uid))
      /\ CookieOf(t, 0) \/ cookie' = cookie
  BY DEF HandleDeleteAccount, DeleteUser, Goes, Answered, WithId
<1>2. uid \in Ids
  BY <1>1, Known DEF IInv
<1>3. \A s \in DOMAIN sessions : s \in gone <=> sessions[s] = uid
  OBVIOUS
<1>4. \A w \in DOMAIN watches : w \in WatchesOf(uid) <=> watches[w].user = uid
  BY DEF WatchesOf
<1>5. Idle \in Places /\ Idle.at \notin WithId
  BY PlacesThereAre DEF Idle, WithId
<1>6. tab'[t] # tab[t]
  <2>1. tab'[t] = Idle
    BY <1>1 DEF IInv, TypeOK
  <2> QED
    BY <2>1, <1>1, <1>5
<1> HIDE DEF uid, gone
<1>7. /\ DOMAIN users' = DOMAIN users \ {uid}
      /\ \A k \in DOMAIN users' : users'[k] = users[k]
      /\ users' \in [DOMAIN users' -> People]
  <2>1. /\ DOMAIN Without(users, {uid}) = DOMAIN users \ {uid}
        /\ \A k \in DOMAIN users \ {uid} : Without(users, {uid})[k] = users[k]
    BY WithoutTable
  <2>2. Without(users, {uid}) \in [DOMAIN Without(users, {uid}) -> People]
    BY WithoutType DEF IInv, TypeOK
  <2> QED
    BY <1>1, <2>1, <2>2
<1>8. /\ DOMAIN sessions' = DOMAIN sessions \ gone
      /\ \A s \in DOMAIN sessions' : sessions'[s] = sessions[s]
      /\ sessions' \in [DOMAIN sessions' -> Ids]
  <2>1. /\ DOMAIN Without(sessions, gone) = DOMAIN sessions \ gone
        /\ \A k \in DOMAIN sessions \ gone : Without(sessions, gone)[k] = sessions[k]
    BY WithoutTable
  <2>2. Without(sessions, gone) \in [DOMAIN Without(sessions, gone) -> Ids]
    BY WithoutType DEF IInv, TypeOK
  <2> QED
    BY <1>1, <2>1, <2>2
<1>9. /\ RowsOK' /\ Kept(uid)
      /\ \A r \in DOMAIN rules' : rules'[r] \in DOMAIN watches'
      /\ DOMAIN watches' = DOMAIN watches \ WatchesOf(uid)
      /\ \A w \in DOMAIN watches' : watches'[w] = watches[w]
  <2> DEFINE ws == WatchesOf(uid)
  <2>1. ws \subseteq WatchesOf(uid) /\ DeleteWatches(ws) /\ RowsOK /\ RowsBelong
    BY <1>1, InvParts
  <2> HIDE DEF ws
  <2>2. /\ RowsOK' /\ Kept(uid)
        /\ \A r \in DOMAIN rules' : rules'[r] \in DOMAIN watches'
        /\ DOMAIN watches' = DOMAIN watches \ ws
        /\ \A w \in DOMAIN watches' : watches'[w] = watches[w]
    BY <1>2, <2>1, DeleteWatchesKeeps
  <2> QED
    BY <2>2 DEF ws
<1>10. /\ cookie' \in [People -> {0} \union Tokens]
       /\ \A p \in People : cookie'[p] \in {cookie[p], 0}
  BY <1>1, ClearedCookie DEF IInv
<1>11. OnlyGone(users, users') /\ OnlyGone(sessions, sessions')
  BY <1>7, <1>8 DEF OnlyGone
<1>12. TypeOK'
  <2>1. DOMAIN users' \subseteq Ids /\ DOMAIN sessions' \subseteq Tokens /\ tab' \in [Tabs -> Places]
    BY <1>1, <1>5, <1>7, <1>8 DEF IInv, TypeOK
  <2>2. tokens' \in 0..MaxToken /\ lent' \in BOOLEAN
    BY <1>1 DEF IInv, TypeOK
  <2> QED
    BY <2>1, <2>2, <1>7, <1>8, <1>9, <1>10 DEF TypeOK, RowsOK, WatchRow
<1>13. NothingIsLeftBehind'
  <2>1. ASSUME NEW s \in DOMAIN sessions' PROVE sessions'[s] \in DOMAIN users'
    BY <1>3, <1>7, <1>8 DEF IInv, NothingIsLeftBehind
  <2>2. ASSUME NEW w \in DOMAIN watches' PROVE watches'[w].user \in DOMAIN users'
    BY <1>4, <1>7, <1>9 DEF IInv, NothingIsLeftBehind
  <2> QED
    BY <2>1, <2>2, <1>9 DEF NothingIsLeftBehind
<1>14. TokensGrow' /\ CookiesAreOwn'
  BY <1>1, <1>10, <1>11, TokensStep, CookiesStep DEF IInv
<1>15. RequestsAreOwn'
  BY <1>1, <1>5, <1>11, RequestsStep DEF IInv
<1>16. IInv'
  BY <1>12, <1>13, <1>14, <1>15 DEF IInv
<1> QED
  BY <1>1, <1>6, <1>9, <1>16 DEF uid

LEMMA NextIInv == IInv /\ [Next]_vars => IInv'
<1> SUFFICES ASSUME IInv, [Next]_vars PROVE IInv'
  OBVIOUS
<1>1. CASE UNCHANGED vars
  BY <1>1 DEF vars, database, IInv, TypeOK, NothingIsLeftBehind, TokensGrow, RequestsAreOwn,
              CookiesAreOwn
<1>2. ASSUME NEW t \in Tabs, SignIn(t) PROVE IInv'
  BY <1>2, QuietStep, NewAccountStep, CreateSessionStep DEF SignIn
<1>3. ASSUME NEW t \in Tabs, Request(t) PROVE IInv'
  BY <1>3, QuietStep, NoSessionStep, HandleStep, HandleLogoutStep, HandleDeleteAccountStep
     DEF Request
<1>4. ASSUME NEW t \in Tabs, Abandon(t) PROVE IInv'
  BY <1>4, QuietStep
<1>5. ASSUME NEW token \in Tokens, Expire(token) PROVE IInv'
  BY <1>5, ExpireStep
<1> QED
  BY <1>1, <1>2, <1>3, <1>4, <1>5 DEF Next

(***************************************************************************)
(* The inductive invariant holds after every request, under every          *)
(* interleaving of tabs.                                                   *)
(***************************************************************************)
THEOREM Inductive == Spec => []IInv
  BY InitIInv, NextIInv, PTL DEF Spec

-------------------------------------------------------------------------------
(***************************************************************************)
(* The state stays well-formed: ids, tokens and rows are what the tables   *)
(* can hold.                                                               *)
(***************************************************************************)
THEOREM TypeCorrect == Spec => []TypeOK
<1>1. IInv => TypeOK
  BY DEF IInv
<1> QED
  BY <1>1, Inductive, PTL

(***************************************************************************)
(* Every session, watch and rule is of an account there is (DeleteUser and *)
(* the foreign keys).                                                      *)
(***************************************************************************)
THEOREM NothingIsLeftBehindHolds == Spec => []NothingIsLeftBehind
<1>1. IInv => NothingIsLeftBehind
  BY DEF IInv
<1> QED
  BY <1>1, Inductive, PTL

(***************************************************************************)
(* A cookie opens the account of the browser's own person, if any.         *)
(***************************************************************************)
THEOREM SignedInAsThemselvesHolds == Spec => []SignedInAsThemselves
<1>1. IInv => SignedInAsThemselves
  BY DEF IInv, CookiesAreOwn, SignedInAsThemselves, SignedInAs
<1> QED
  BY <1>1, Inductive, PTL

-------------------------------------------------------------------------------
(***************************************************************************)
(* What a person watches is what the rows of their account say.            *)
(***************************************************************************)
OwnWatches(p) == {w \in DOMAIN watches : watches[w].user \in AccountsOf(p)}
OwnRules(p)   == {r \in DOMAIN rules : rules[r] \in OwnWatches(p)}

LEMMA WatchedByIs ==
    ASSUME NEW p
    PROVE  /\ WatchedBy(p) = <<[w \in OwnWatches(p) |-> watches[w]], [r \in OwnRules(p) |-> rules[r]]>>
           /\ WatchedBy(p)' = <<[w \in OwnWatches(p)' |-> watches'[w]], [r \in OwnRules(p)' |-> rules'[r]]>>
<1>1. ASSUME NEW ws, ws = OwnWatches(p)
      PROVE  RulesOf(ws) = OwnRules(p)
  BY <1>1 DEF RulesOf, OwnRules
<1>2. ASSUME NEW ws, ws = OwnWatches(p)'
      PROVE  {r \in DOMAIN rules' : rules'[r] \in ws} = OwnRules(p)'
  BY <1>2 DEF OwnRules
<1>3. UNION {WatchesOf(id) : id \in AccountsOf(p)} = OwnWatches(p)
  BY DEF WatchesOf, OwnWatches
<1>4. UNION {{w \in DOMAIN watches' : watches'[w].user = id} : id \in AccountsOf(p)'} = OwnWatches(p)'
  BY DEF OwnWatches
<1>5. WatchedBy(p) = <<[w \in OwnWatches(p) |-> watches[w]], [r \in OwnRules(p) |-> rules[r]]>>
  BY <1>1, <1>3 DEF WatchedBy
<1>6. WatchedBy(p)' = <<[w \in OwnWatches(p)' |-> watches'[w]], [r \in OwnRules(p)' |-> rules'[r]]>>
  BY <1>2, <1>4 DEF WatchedBy, WatchesOf, RulesOf
<1> QED
  BY <1>5, <1>6

LEMMA WatchedByRows ==
    ASSUME IInv, NEW uid, Kept(uid), NEW p, AccountsOf(p)' = AccountsOf(p), uid \notin AccountsOf(p)
    PROVE  WatchedBy(p)' = WatchedBy(p)
<1>1. WatchedBy(p) = <<[w \in OwnWatches(p) |-> watches[w]], [r \in OwnRules(p) |-> rules[r]]>>
  BY WatchedByIs
<1>2. WatchedBy(p)' = <<[w \in OwnWatches(p)' |-> watches'[w]], [r \in OwnRules(p)' |-> rules'[r]]>>
  BY WatchedByIs
<1>3. RowsBelong
  BY InvParts
<1>4. /\ \A w : w \in OwnWatches(p) <=> w \in DOMAIN watches /\ watches[w].user \in AccountsOf(p)
      /\ \A w : w \in OwnWatches(p)' <=> w \in DOMAIN watches' /\ watches'[w].user \in AccountsOf(p)
      /\ \A r : r \in OwnRules(p) <=> r \in DOMAIN rules /\ rules[r] \in OwnWatches(p)
      /\ \A r : r \in OwnRules(p)' <=> r \in DOMAIN rules' /\ rules'[r] \in OwnWatches(p)'
  BY DEF OwnWatches, OwnRules
<1>5. \A w \in OwnWatches(p) : w \in OwnWatches(p)' /\ watches'[w] = watches[w]
  BY <1>4 DEF Kept
<1>6. \A w \in OwnWatches(p)' : w \in OwnWatches(p)
  BY <1>4 DEF Kept
<1>7. \A r \in OwnRules(p) : r \in OwnRules(p)' /\ rules'[r] = rules[r]
  BY <1>3, <1>4, <1>5 DEF Kept, RowsBelong
<1>8. ASSUME NEW r \in OwnRules(p)' PROVE r \in OwnRules(p)
  <2>1. rules'[r] \in OwnWatches(p) /\ watches'[rules'[r]].user # uid /\ r \in DOMAIN rules'
    BY <1>4, <1>6, <1>8
  <2>2. r \in DOMAIN rules /\ rules'[r] = rules[r]
    BY <2>1 DEF Kept
  <2> QED
    BY <1>4, <2>1, <2>2
<1>9. OwnWatches(p)' = OwnWatches(p) /\ OwnRules(p)' = OwnRules(p)
  BY <1>5, <1>6, <1>7, <1>8
<1> QED
  BY <1>1, <1>2, <1>5, <1>7, <1>9

Theirs == ~lent => \A p \in People :
    (\A t \in Tabs : Owner[t] = p => tab'[t] = tab[t]) => WatchedBy(p)' = WatchedBy(p)

LEMMA TheirsStep == ASSUME IInv, [Next]_vars PROVE [Theirs]_<<users, watches, rules>>
<1> SUFFICES ASSUME ~lent, NEW p \in People,
                    \A t \in Tabs : Owner[t] = p => tab'[t] = tab[t],
                    ~UNCHANGED <<users, watches, rules>>
             PROVE  WatchedBy(p)' = WatchedBy(p)
  BY DEF Theirs
<1>1. ASSUME NEW t \in Tabs, NewAccount(t) PROVE WatchedBy(p)' = WatchedBy(p)
  <2>1. /\ users' = Upserted(Row(NextRow(users), Owner[t]), users)
        /\ tab' = [tab EXCEPT ![t] = [at |-> "signing in", uid |-> NextRow(users)]]
        /\ tab[t].at = "idle" /\ watches' = watches /\ rules' = rules
    BY <1>1 DEF NewAccount, Goes
  <2>2. Owner[t] # p
    <3>1. tab'[t].at = "signing in"
      BY <2>1 DEF IInv, TypeOK
    <3> QED
      BY <2>1, <3>1
  <2> DEFINE new   == NextRow(users)
             added == Row(new, Owner[t])
  <2>3. DOMAIN added = {new} /\ added[new] = Owner[t]
    BY RowTable
  <2>4. users' = Upserted(added, users)
    BY <2>1
  <2>5. new \notin DOMAIN users
    BY NextRowIsNew, Limits DEF IInv, TypeOK, Ids
  <2> HIDE DEF added, new
  <2>6. /\ DOMAIN Upserted(added, users) = DOMAIN added \union DOMAIN users
        /\ \A k \in DOMAIN added : Upserted(added, users)[k] = added[k]
        /\ \A k \in DOMAIN users : k \notin DOMAIN added => Upserted(added, users)[k] = users[k]
    BY UpsertedTable
  <2>7. AccountsOf(p)' = AccountsOf(p)
    BY <2>2, <2>3, <2>4, <2>5, <2>6 DEF AccountsOf
  <2>8. Kept(new)
    BY <2>1 DEF Kept
  <2>9. new \notin AccountsOf(p)
    BY <2>5 DEF AccountsOf
  <2> QED
    BY <2>7, <2>8, <2>9, WatchedByRows
<1>2. ASSUME NEW t \in Tabs, Handle(t) \/ HandleAddRule(t) PROVE WatchedBy(p)' = WatchedBy(p)
  <2>1. Kept(tab[t].uid) /\ tab[t].at \in WithId /\ tab'[t] # tab[t] /\ users' = users
    BY <1>2, HandleStep
  <2>2. tab[t].uid \notin AccountsOf(p)
    BY <2>1 DEF AccountsOf, IInv, RequestsAreOwn
  <2>3. AccountsOf(p)' = AccountsOf(p)
    BY <2>1 DEF AccountsOf
  <2> QED
    BY <2>1, <2>2, <2>3, WatchedByRows
<1>3. ASSUME NEW t \in Tabs, HandleDeleteAccount(t) PROVE WatchedBy(p)' = WatchedBy(p)
  <2> DEFINE uid == tab[t].uid
  <2>1. /\ Kept(uid) /\ tab[t].at \in WithId /\ tab'[t] # tab[t]
        /\ users' = Without(users, {uid})
    BY <1>3, HandleDeleteAccountStep
  <2>2. uid \notin AccountsOf(p)
    BY <2>1 DEF AccountsOf, IInv, RequestsAreOwn
  <2> HIDE DEF uid
  <2>3. /\ DOMAIN Without(users, {uid}) = DOMAIN users \ {uid}
        /\ \A k \in DOMAIN users \ {uid} : Without(users, {uid})[k] = users[k]
    BY WithoutTable
  <2>4. AccountsOf(p)' = AccountsOf(p)
    BY <2>1, <2>2, <2>3 DEF AccountsOf
  <2> QED
    BY <2>1, <2>2, <2>4, WatchedByRows
<1>4. CASE UNCHANGED vars
  BY <1>4 DEF vars, database
<1>5. ASSUME NEW t \in Tabs,
             \/ OldAccount(t) \/ CreateSession(t) \/ SessionUser(t) \/ NoSession(t)
             \/ WatchOwnedBy(t) \/ HandleLogout(t) \/ Abandon(t)
      PROVE  FALSE
  BY <1>5 DEF OldAccount, CreateSession, SessionUser, NoSession, WatchOwnedBy, HandleLogout,
              Abandon, DeleteSession, database
<1>6. ASSUME NEW token \in Tokens, Expire(token) PROVE FALSE
  BY <1>6 DEF Expire, DeleteSession
<1>7. ASSUME NEW t \in Tabs, SignIn(t) PROVE WatchedBy(p)' = WatchedBy(p)
  BY <1>1, <1>5, <1>7 DEF SignIn
<1>8. ASSUME NEW t \in Tabs, Request(t) PROVE WatchedBy(p)' = WatchedBy(p)
  BY <1>2, <1>3, <1>5, <1>8 DEF Request
<1> QED
  BY <1>4, <1>5, <1>6, <1>7, <1>8 DEF Next

(***************************************************************************)
(* Nobody changes what another person watches (the queries' user_id).      *)
(***************************************************************************)
THEOREM OnlyTheirOwnHolds == Spec => OnlyTheirOwn
<1>1. Spec => [][Theirs]_<<users, watches, rules>>
  BY TheirsStep, Inductive, PTL DEF Spec
<1> QED
  BY <1>1 DEF OnlyTheirOwn, Theirs

-------------------------------------------------------------------------------
(***************************************************************************)
(* The limits.  They are counted per id, whether it is in use or not: what *)
(* is not in use has no watches and no rules.                              *)
(***************************************************************************)
OneAccountEach == \A a, b \in DOMAIN users : users[a] = users[b] => a = b

WatchesLimited ==
    \A u \in Ids : /\ Cardinality(WatchesOf(u)) <= MaxWatchesPerUser
                   /\ \A v, w \in WatchesOf(u) : watches[v].target = watches[w].target => v = w

RulesLimited == \A w \in Ids : Cardinality(RulesOf({w})) <= MaxRulesPerWatch

WithinLimits == OneAccountEach /\ WatchesLimited /\ RulesLimited

LEMMA FewerAreNoMore ==
    ASSUME NEW S, IsFiniteSet(S), NEW T, T \subseteq S, NEW n \in Nat, Cardinality(S) <= n
    PROVE  Cardinality(T) <= n
<1>1. Cardinality(T) <= Cardinality(S) /\ Cardinality(T) \in Nat /\ Cardinality(S) \in Nat
  BY FS_Subset, FS_CardinalityType
<1> QED
  BY <1>1

LEMMA OneMore ==
    ASSUME NEW S, IsFiniteSet(S), NEW x, NEW T, T \subseteq S \union {x}, NEW n \in Nat,
           Cardinality(S) < n
    PROVE  Cardinality(T) <= n
<1> DEFINE more == S \union {x}
<1>1. /\ IsFiniteSet(more) /\ Cardinality(S) \in Nat
      /\ Cardinality(more) \in {Cardinality(S), Cardinality(S) + 1}
  BY FS_AddElement, FS_CardinalityType
<1>2. Cardinality(more) <= n /\ T \subseteq more
  BY <1>1
<1> HIDE DEF more
<1> QED
  BY <1>1, <1>2, FewerAreNoMore

LEMMA NoneIsWithin == Cardinality({}) = 0
  BY FS_EmptySet

LEMMA FinitelyMany ==
    ASSUME RowsOK
    PROVE  /\ \A u : IsFiniteSet(WatchesOf(u))
           /\ \A ws : IsFiniteSet(RulesOf(ws))
<1>1. IsFiniteSet(Ids) /\ IsFiniteSet(RuleIds)
  BY FS_Interval, Limits DEF Ids, RuleIds
<1>2. \A u : WatchesOf(u) \in SUBSET Ids
  BY DEF WatchesOf, RowsOK
<1>3. \A ws : RulesOf(ws) \in SUBSET RuleIds
  BY DEF RulesOf, RowsOK
<1> QED
  BY <1>1, <1>2, <1>3, FS_Subset

\* Watches and rules go, or a watch is edited, and none is added.
Thinned ==
    /\ \A w \in DOMAIN watches' : /\ w \in DOMAIN watches
                                  /\ watches'[w].user = watches[w].user
                                  /\ watches'[w].target = watches[w].target
    /\ \A r \in DOMAIN rules' : r \in DOMAIN rules /\ rules'[r] = rules[r]

LEMMA WatchesThinned ==
    ASSUME RowsOK, WatchesLimited,
           \A w \in DOMAIN watches' : /\ w \in DOMAIN watches
                                      /\ watches'[w].user = watches[w].user
                                      /\ watches'[w].target = watches[w].target
    PROVE  WatchesLimited'
<1> SUFFICES ASSUME NEW u \in Ids
             PROVE  /\ Cardinality(WatchesOf(u)') <= MaxWatchesPerUser
                    /\ \A v, w \in WatchesOf(u)' :
                          watches'[v].target = watches'[w].target => v = w
  BY DEF WatchesLimited
<1>1. WatchesOf(u)' \subseteq WatchesOf(u)
  BY DEF WatchesOf
<1>2. IsFiniteSet(WatchesOf(u)) /\ MaxWatchesPerUser \in Nat
      /\ Cardinality(WatchesOf(u)) <= MaxWatchesPerUser
  BY FinitelyMany, Limits DEF WatchesLimited
<1>3. Cardinality(WatchesOf(u)') <= MaxWatchesPerUser
  BY <1>1, <1>2, FewerAreNoMore
<1>4. \A v, w \in WatchesOf(u)' : watches'[v].target = watches'[w].target => v = w
  BY <1>1 DEF WatchesLimited, WatchesOf
<1> QED
  BY <1>3, <1>4

LEMMA RulesThinned ==
    ASSUME RowsOK, RulesLimited, \A r \in DOMAIN rules' : r \in DOMAIN rules /\ rules'[r] = rules[r]
    PROVE  RulesLimited'
<1> SUFFICES ASSUME NEW w \in Ids PROVE Cardinality(RulesOf({w})') <= MaxRulesPerWatch
  BY DEF RulesLimited
<1>1. RulesOf({w})' \subseteq RulesOf({w})
  BY DEF RulesOf
<1>2. IsFiniteSet(RulesOf({w})) /\ MaxRulesPerWatch \in Nat
      /\ Cardinality(RulesOf({w})) <= MaxRulesPerWatch
  BY FinitelyMany, Limits DEF RulesLimited
<1> QED
  BY <1>1, <1>2, FewerAreNoMore

\* The new rules have the ids that come next.
LEMMA RulesCounted ==
    ASSUME RowsOK, NEW w \in Ids, NEW n \in Nat, rules' = InsertedRules(w, n)
    PROVE  LET first == NextRow(rules)
           IN  \A r \in DOMAIN rules' :
                  \/ r \in first..(first + n - 1) /\ rules'[r] = w
                  \/ r \in DOMAIN rules /\ rules'[r] = rules[r]
<1> DEFINE first == NextRow(rules)
           new   == [r \in first..(first + n - 1) |-> w]
<1>1. DOMAIN new = first..(first + n - 1) /\ \A r \in DOMAIN new : new[r] = w
  OBVIOUS
<1>2. rules' = Upserted(new, rules)
  BY DEF InsertedRules
<1> HIDE DEF new, first
<1>3. /\ DOMAIN Upserted(new, rules) = DOMAIN new \union DOMAIN rules
      /\ \A k \in DOMAIN new : Upserted(new, rules)[k] = new[k]
      /\ \A k \in DOMAIN rules : k \notin DOMAIN new => Upserted(new, rules)[k] = rules[k]
  BY UpsertedTable
<1>4. \A r \in DOMAIN rules' :
         \/ r \in first..(first + n - 1) /\ rules'[r] = w
         \/ r \in DOMAIN rules /\ rules'[r] = rules[r]
  BY <1>1, <1>2, <1>3
<1> QED
  BY <1>4 DEF first

\* A watch starts with fewer rules than it may have, and is the first of its
\* account on its target.
LEMMA CreateWatchLimited ==
    ASSUME RowsOK, RowsBelong, WatchesLimited, RulesLimited, NEW uid \in Ids,
           NEW target \in Targets, NEW relay \in BOOLEAN, CreateWatch(uid, target, relay)
    PROVE  WatchesLimited' /\ RulesLimited'
<1> DEFINE new == NextRow(watches)
           n   == StartsWith(target, relay)
           fields == [user |-> uid, target |-> target, edited |-> FALSE]
<1>1. /\ Cardinality(WatchesOf(uid)) < MaxWatchesPerUser
      /\ target \notin {watches[w].target : w \in WatchesOf(uid)}
      /\ new \in Ids /\ watches' = Upserted(Row(new, fields), watches)
      /\ rules' = InsertedRules(new, n)
  BY DEF CreateWatch
<1>2. new \notin DOMAIN watches
  BY NextRowIsNew, Limits DEF RowsOK, Ids
<1>3. n \in Nat /\ n <= 3 /\ n >= 1
  BY DEF StartsWith
<1>4. fields.user = uid /\ fields.target = target
  OBVIOUS
<1> HIDE DEF new, n, fields
<1>5. /\ DOMAIN watches' = {new} \union DOMAIN watches /\ watches'[new] = fields
      /\ \A x \in DOMAIN watches : watches'[x] = watches[x]
  <2> DEFINE added == Row(new, fields)
  <2>1. DOMAIN added = {new} /\ added[new] = fields /\ watches' = Upserted(added, watches)
    BY <1>1, RowTable
  <2> HIDE DEF added
  <2>2. /\ DOMAIN Upserted(added, watches) = DOMAIN added \union DOMAIN watches
        /\ \A k \in DOMAIN added : Upserted(added, watches)[k] = added[k]
        /\ \A k \in DOMAIN watches :
              k \notin DOMAIN added => Upserted(added, watches)[k] = watches[k]
    BY UpsertedTable
  <2> QED
    BY <1>2, <2>1, <2>2
<1>6. WatchesLimited'
  <2> SUFFICES ASSUME NEW u \in Ids
               PROVE  /\ Cardinality(WatchesOf(u)') <= MaxWatchesPerUser
                      /\ \A v, w \in WatchesOf(u)' :
                            watches'[v].target = watches'[w].target => v = w
    BY DEF WatchesLimited
  <2>1. IsFiniteSet(WatchesOf(u)) /\ MaxWatchesPerUser \in Nat
        /\ Cardinality(WatchesOf(u)) <= MaxWatchesPerUser
    BY FinitelyMany, Limits DEF WatchesLimited
  <2>2. CASE u = uid
    <3>1. WatchesOf(u)' \subseteq WatchesOf(u) \union {new}
      BY <1>5 DEF WatchesOf
    <3>2. Cardinality(WatchesOf(u)') <= MaxWatchesPerUser
      BY <1>1, <2>1, <2>2, <3>1, OneMore
    <3>3. \A w \in WatchesOf(u) : watches'[w].target = watches[w].target
                                  /\ watches[w].target # target
      BY <1>1, <1>5, <2>2 DEF WatchesOf
    <3>4. \A v, w \in WatchesOf(u) : watches[v].target = watches[w].target => v = w
      BY DEF WatchesLimited
    <3> QED
      BY <1>4, <1>5, <3>1, <3>2, <3>3, <3>4
  <2>3. CASE u # uid
    <3>1. WatchesOf(u)' = WatchesOf(u)
      BY <1>2, <1>4, <1>5, <2>3 DEF WatchesOf
    <3>2. \A v, w \in WatchesOf(u) : watches'[v].target = watches'[w].target => v = w
      BY <1>5 DEF WatchesLimited, WatchesOf
    <3> QED
      BY <2>1, <3>1, <3>2
  <2> QED
    BY <2>2, <2>3
<1>7. RulesLimited'
  <2> DEFINE first == NextRow(rules)
             added == first..(first + n - 1)
  <2>1. \A r \in DOMAIN rules' : \/ r \in added /\ rules'[r] = new
                                 \/ r \in DOMAIN rules /\ rules'[r] = rules[r]
    BY <1>1, <1>3, RulesCounted
  <2>2. IsFiniteSet(added) /\ Cardinality(added) <= MaxRulesPerWatch
    <3>1. first \in Nat
      BY NextRowIsNew, Limits DEF RowsOK, RuleIds
    <3> HIDE DEF first
    <3> DEFINE last == first + n - 1
    <3>2. first \in Int /\ last \in Int /\ ~(first > last) /\ last - first + 1 = n
      BY <3>1, <1>3
    <3> HIDE DEF last
    <3>3. IsFiniteSet(first..last) /\ Cardinality(first..last) = last - first + 1
      BY <3>2, FS_Interval
    <3>4. IsFiniteSet(added) /\ Cardinality(added) = n
      BY <3>2, <3>3 DEF last
    <3> QED
      BY <3>4, <1>3, Limits
  <2> HIDE DEF added
  <2>3. \A r \in DOMAIN rules : rules[r] # new
    BY <1>2 DEF RowsBelong
  <2> SUFFICES ASSUME NEW w \in Ids PROVE Cardinality(RulesOf({w})') <= MaxRulesPerWatch
    BY DEF RulesLimited
  <2>4. CASE w = new
    <3>1. RulesOf({w})' \subseteq added
      BY <2>1, <2>3, <2>4 DEF RulesOf
    <3> QED
      BY <2>2, <3>1, FewerAreNoMore, Limits
  <2>5. CASE w # new
    <3>1. RulesOf({w})' \subseteq RulesOf({w})
      BY <2>1, <2>5 DEF RulesOf
    <3>2. IsFiniteSet(RulesOf({w})) /\ MaxRulesPerWatch \in Nat
          /\ Cardinality(RulesOf({w})) <= MaxRulesPerWatch
      BY FinitelyMany, Limits DEF RulesLimited
    <3> QED
      BY <3>1, <3>2, FewerAreNoMore
  <2> QED
    BY <2>4, <2>5
<1> QED
  BY <1>6, <1>7

LEMMA AddRuleLimited ==
    ASSUME RowsOK, WatchesLimited, RulesLimited, NEW uid \in Ids, NEW w \in Ids, AddRule(uid, w)
    PROVE  WatchesLimited' /\ RulesLimited'
<1>1. /\ Cardinality(RulesOf({w})) < MaxRulesPerWatch
      /\ rules' = InsertedRules(w, 1) /\ watches' = watches
  BY DEF AddRule
<1>2. WatchesLimited'
  BY <1>1 DEF WatchesLimited, WatchesOf
<1> DEFINE first == NextRow(rules)
<1>3. \A r \in DOMAIN rules' : \/ r = first /\ rules'[r] = w
                               \/ r \in DOMAIN rules /\ rules'[r] = rules[r]
  <2>1. \A r \in DOMAIN rules' : \/ r \in first..(first + 1 - 1) /\ rules'[r] = w
                                 \/ r \in DOMAIN rules /\ rules'[r] = rules[r]
    BY <1>1, RulesCounted
  <2>2. first \in Nat
    BY NextRowIsNew, Limits DEF RowsOK, RuleIds
  <2> HIDE DEF first
  <2>3. \A r \in first..(first + 1 - 1) : r = first
    BY <2>2
  <2> QED
    BY <2>1, <2>3
<1> HIDE DEF first
<1>4. RulesLimited'
  <2> SUFFICES ASSUME NEW x \in Ids PROVE Cardinality(RulesOf({x})') <= MaxRulesPerWatch
    BY DEF RulesLimited
  <2>1. IsFiniteSet(RulesOf({x})) /\ MaxRulesPerWatch \in Nat
        /\ Cardinality(RulesOf({x})) <= MaxRulesPerWatch
    BY FinitelyMany, Limits DEF RulesLimited
  <2>2. CASE x = w
    <3>1. RulesOf({x})' \subseteq RulesOf({x}) \union {first}
      BY <1>3, <2>2 DEF RulesOf
    <3> QED
      BY <1>1, <2>1, <2>2, <3>1, OneMore
  <2>3. CASE x # w
    <3>1. RulesOf({x})' \subseteq RulesOf({x})
      BY <1>3, <2>3 DEF RulesOf
    <3> QED
      BY <2>1, <3>1, FewerAreNoMore
  <2> QED
    BY <2>2, <2>3
<1> QED
  BY <1>2, <1>4

\* Every other transaction on watches and rules only takes away or edits.
LEMMA ChangeLimited ==
    ASSUME RowsOK, RowsBelong, WatchesLimited, RulesLimited, NEW uid \in Ids, Change(uid)
    PROVE  WatchesLimited' /\ RulesLimited'
<1>1. ASSUME NEW target \in Targets, NEW relay \in BOOLEAN, CreateWatch(uid, target, relay)
      PROVE  WatchesLimited' /\ RulesLimited'
  BY <1>1, CreateWatchLimited
<1>2. ASSUME NEW w \in Ids, DeleteWatch(uid, w) PROVE Thinned
  <2> DEFINE gone == {w} \intersect WatchesOf(uid)
             away == RulesOf(gone)
  <2>1. watches' = Without(watches, gone) /\ rules' = Without(rules, away)
    BY <1>2 DEF DeleteWatch, DeleteWatches
  <2> HIDE DEF gone, away
  <2>2. /\ DOMAIN watches' = DOMAIN watches \ gone
        /\ \A x \in DOMAIN watches \ gone : watches'[x] = watches[x]
        /\ DOMAIN rules' = DOMAIN rules \ away
        /\ \A x \in DOMAIN rules \ away : rules'[x] = rules[x]
    BY <2>1 DEF Without
  <2> QED
    BY <2>2 DEF Thinned
<1>3. ASSUME NEW w \in DOMAIN watches, Edited(w), rules' = rules PROVE Thinned
  <2>1. DOMAIN watches' = DOMAIN watches
        /\ \A x \in DOMAIN watches : x # w => watches'[x] = watches[x]
    BY <1>3 DEF Edited, RowsOK
  <2>2. watches'[w].user = watches[w].user /\ watches'[w].target = watches[w].target
    BY <1>3 DEF Edited, RowsOK, WatchRow
  <2> QED
    BY <1>3, <2>1, <2>2 DEF Thinned
<1>4. ASSUME NEW w \in Ids, EditWatch(uid, w) PROVE Thinned
  BY <1>3, <1>4 DEF EditWatch, WatchesOf
<1>5. ASSUME NEW r \in RuleIds, UpdateRule(uid, r) PROVE Thinned
  <2>1. rules[r] \in DOMAIN watches /\ Edited(rules[r]) /\ rules' = rules
    BY <1>5 DEF UpdateRule, RulesOf, WatchesOf
  <2> QED
    BY <2>1, <1>3
<1>6. ASSUME NEW r \in RuleIds, DeleteRule(uid, r) PROVE Thinned
  <2> DEFINE away == {r} \intersect RulesOf(WatchesOf(uid))
  <2>1. rules' = Without(rules, away) /\ watches' = watches
    BY <1>6 DEF DeleteRule
  <2> HIDE DEF away
  <2>2. /\ DOMAIN rules' = DOMAIN rules \ away
        /\ \A x \in DOMAIN rules \ away : rules'[x] = rules[x]
    BY <2>1 DEF Without
  <2> QED
    BY <2>1, <2>2 DEF Thinned
<1>7. ASSUME Thinned PROVE WatchesLimited' /\ RulesLimited'
  BY <1>7, WatchesThinned, RulesThinned DEF Thinned
<1> QED
  BY <1>1, <1>2, <1>4, <1>5, <1>6, <1>7 DEF Change

LEMMA InitWithinLimits == Init => WithinLimits
<1> SUFFICES ASSUME Init PROVE WithinLimits
  OBVIOUS
<1>1. DOMAIN users = {} /\ DOMAIN watches = {} /\ DOMAIN rules = {}
  BY EmptyTable DEF Init
<1>2. (\A u : WatchesOf(u) = {}) /\ (\A ws : RulesOf(ws) = {})
  BY <1>1 DEF WatchesOf, RulesOf
<1>3. /\ \A u : Cardinality(WatchesOf(u)) = 0
      /\ \A ws : Cardinality(RulesOf(ws)) = 0
  BY <1>2, NoneIsWithin
<1>4. OneAccountEach
  BY <1>1 DEF OneAccountEach
<1>5. WatchesLimited
  BY <1>2, <1>3, Limits DEF WatchesLimited
<1>6. RulesLimited
  BY <1>3, Limits DEF RulesLimited
<1> QED
  BY <1>4, <1>5, <1>6 DEF WithinLimits

LEMMA NextWithinLimits == IInv /\ WithinLimits /\ [Next]_vars => WithinLimits'
<1> SUFFICES ASSUME IInv, WithinLimits, [Next]_vars PROVE WithinLimits'
  OBVIOUS
<1>1. RowsOK /\ RowsBelong
  BY InvParts
<1>2. ASSUME UNCHANGED <<watches, rules>> PROVE WatchesLimited' /\ RulesLimited'
  BY <1>2 DEF WithinLimits, WatchesLimited, RulesLimited, WatchesOf, RulesOf
<1>3. ASSUME users' = users PROVE OneAccountEach'
  BY <1>3 DEF WithinLimits, OneAccountEach
<1>4. ASSUME UNCHANGED <<users, watches, rules>> PROVE WithinLimits'
  BY <1>2, <1>3, <1>4 DEF WithinLimits
<1>5. ASSUME NEW t \in Tabs, NewAccount(t) PROVE WithinLimits'
  <2> DEFINE new == NextRow(users)
             p   == Owner[t]
  <2>1. /\ AccountsOf(p) = {} /\ users' = Upserted(Row(new, p), users)
        /\ UNCHANGED <<watches, rules>>
    BY <1>5 DEF NewAccount
  <2>2. \A id \in DOMAIN users : users[id] # p
    BY <2>1 DEF AccountsOf
  <2> DEFINE added == Row(new, p)
  <2>3. DOMAIN added = {new} /\ added[new] = p /\ users' = Upserted(added, users)
    BY <2>1, RowTable
  <2> HIDE DEF added, new, p
  <2>4. /\ DOMAIN users' = {new} \union DOMAIN users /\ users'[new] = p
        /\ \A k \in DOMAIN users : k # new => users'[k] = users[k]
    <3>1. /\ DOMAIN Upserted(added, users) = DOMAIN added \union DOMAIN users
          /\ \A k \in DOMAIN added : Upserted(added, users)[k] = added[k]
          /\ \A k \in DOMAIN users : k \notin DOMAIN added => Upserted(added, users)[k] = users[k]
      BY UpsertedTable
    <3> QED
      BY <2>3, <3>1
  <2>5. OneAccountEach'
    BY <2>2, <2>4 DEF WithinLimits, OneAccountEach
  <2> QED
    BY <1>2, <2>1, <2>5 DEF WithinLimits
<1>6. ASSUME NEW t \in Tabs, HandleDeleteAccount(t) PROVE WithinLimits'
  <2> DEFINE uid  == tab[t].uid
             gone == WatchesOf(uid)
             away == RulesOf(gone)
  <2>1. /\ users' = Without(users, {uid}) /\ watches' = Without(watches, gone)
        /\ rules' = Without(rules, away)
    BY <1>6 DEF HandleDeleteAccount, DeleteUser, DeleteWatches
  <2> HIDE DEF uid, gone, away
  <2>2. /\ DOMAIN watches' = DOMAIN watches \ gone
        /\ \A x \in DOMAIN watches \ gone : watches'[x] = watches[x]
        /\ DOMAIN rules' = DOMAIN rules \ away
        /\ \A x \in DOMAIN rules \ away : rules'[x] = rules[x]
    BY <2>1 DEF Without
  <2>3. /\ DOMAIN users' = DOMAIN users \ {uid}
        /\ \A x \in DOMAIN users \ {uid} : users'[x] = users[x]
    BY <2>1 DEF Without
  <2>4. WatchesLimited' /\ RulesLimited'
    BY <1>1, <2>2, WatchesThinned, RulesThinned DEF WithinLimits
  <2>5. OneAccountEach'
    BY <2>3 DEF WithinLimits, OneAccountEach
  <2> QED
    BY <2>4, <2>5 DEF WithinLimits
<1>7. ASSUME NEW t \in Tabs, Handle(t) PROVE WithinLimits'
  <2>1. Change(tab[t].uid) /\ tab[t].at \in WithId
    BY <1>7 DEF Handle, Goes, WithId
  <2>2. tab[t].uid \in Ids /\ users' = users
    BY <1>7, <2>1, Known, HandleStep DEF IInv
  <2>3. WatchesLimited' /\ RulesLimited'
    BY <1>1, <2>1, <2>2, ChangeLimited DEF WithinLimits
  <2> QED
    BY <1>3, <2>2, <2>3 DEF WithinLimits
<1>8. ASSUME NEW t \in Tabs, HandleAddRule(t) PROVE WithinLimits'
  <2>1. AddRule(tab[t].uid, tab[t].watch) /\ tab[t].at = "owned"
    BY <1>8 DEF HandleAddRule, Goes
  <2>2. tab[t].uid \in Ids /\ tab[t].watch \in Ids /\ users' = users
    BY <1>8, <2>1, Known, HandleStep DEF IInv, WithId
  <2>3. WatchesLimited' /\ RulesLimited'
    BY <1>1, <2>1, <2>2, AddRuleLimited DEF WithinLimits
  <2> QED
    BY <1>3, <2>2, <2>3 DEF WithinLimits
<1>9. ASSUME NEW t \in Tabs,
             \/ OldAccount(t) \/ CreateSession(t) \/ SessionUser(t) \/ NoSession(t)
             \/ WatchOwnedBy(t) \/ HandleLogout(t) \/ Abandon(t)
      PROVE  WithinLimits'
  <2>1. UNCHANGED <<users, watches, rules>>
    BY <1>9 DEF OldAccount, CreateSession, SessionUser, NoSession, WatchOwnedBy, HandleLogout,
                Abandon, DeleteSession, database
  <2> QED
    BY <1>4, <2>1
<1>10. ASSUME NEW token \in Tokens, Expire(token) PROVE WithinLimits'
  BY <1>4, <1>10 DEF Expire, DeleteSession
<1>11. CASE UNCHANGED vars
  BY <1>4, <1>11 DEF vars, database
<1>12. ASSUME NEW t \in Tabs, SignIn(t) PROVE WithinLimits'
  BY <1>5, <1>9, <1>12 DEF SignIn
<1>13. ASSUME NEW t \in Tabs, Request(t) PROVE WithinLimits'
  BY <1>6, <1>7, <1>8, <1>9, <1>13 DEF Request
<1> QED
  BY <1>9, <1>10, <1>11, <1>12, <1>13 DEF Next

LEMMA AtMostOne ==
    ASSUME NEW S, \A a, b \in S : a = b
    PROVE  Cardinality(S) <= 1
<1>1. CASE S = {}
  BY <1>1, FS_EmptySet
<1>2. CASE S # {}
  <2>1. PICK a \in S : TRUE
    BY <1>2
  <2>2. S = {a}
    BY <2>1
  <2> QED
    BY <2>2, FS_Singleton
<1> QED
  BY <1>1, <1>2

(***************************************************************************)
(* One account of a person, at most MaxWatchesPerUser watches of an        *)
(* account, none of them twice, and at most MaxRulesPerWatch rules of a    *)
(* watch (CreateWatch, AddRule), however many tabs send the same form.     *)
(***************************************************************************)
THEOREM LimitsHoldAlways == Spec => []LimitsHold
<1>1. IInv /\ WithinLimits => LimitsHold
  <2> SUFFICES ASSUME IInv, WithinLimits PROVE LimitsHold
    OBVIOUS
  <2>1. ASSUME NEW p \in People PROVE Cardinality(AccountsOf(p)) <= 1
    <3>1. \A a, b \in AccountsOf(p) : a = b
      BY DEF AccountsOf, WithinLimits, OneAccountEach
    <3> QED
      BY <3>1, AtMostOne
  <2>2. DOMAIN users \subseteq Ids /\ DOMAIN watches \subseteq Ids
    BY DEF IInv, TypeOK
  <2> QED
    BY <2>1, <2>2 DEF LimitsHold, WithinLimits, WatchesLimited, RulesLimited
<1>2. Spec => [](IInv /\ WithinLimits)
  BY InitIInv, NextIInv, InitWithinLimits, NextWithinLimits, PTL DEF Spec
<1> QED
  BY <1>1, <1>2, PTL

===============================================================================
