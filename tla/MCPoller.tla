------------------------------- MODULE MCPoller -------------------------------
\* Poller on an instance TLC can exhaust: a watch is muted or it is not.
EXTENDS Poller

MutedOrNot == {[muted |-> m, notifyRecovery |-> TRUE] : m \in BOOLEAN}

===============================================================================
