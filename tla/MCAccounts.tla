----------------------------- MODULE MCAccounts -----------------------------
EXTENDS Accounts, TLC

CONSTANTS alice, bob, a1, a2, b1, n1, o1, o2

TwoTabsAndOne == [t \in Tabs |-> IF t = b1 THEN bob ELSE alice]

\* Two accounts with a watch each, or the one with more than it may have.
Crowded == [users |-> 2, tokens |-> 2, watches |-> 2, rules |-> 3, targets |-> {n1}]
Rich    == [users |-> 1, tokens |-> 1, watches |-> 3, rules |-> 4, targets |-> Targets]

EitherRoom == {Crowded, Rich}

Interchangeable == Permutations({a1, a2}) \union Permutations({o1, o2})

=============================================================================
