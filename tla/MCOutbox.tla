------------------------------- MODULE MCOutbox -------------------------------
\* Outbox with interchangeable people.
EXTENDS Outbox, TLC

Interchangeable == Permutations(People)

===============================================================================
