------------------------------ MODULE MCIngest ------------------------------
EXTENDS Ingest, Sequences

CONSTANTS a, b, c

\* b and c share a prefix.
Prefixes == [n \in Nodes |-> IF n = a THEN 1 ELSE 2]

Wide(n)   == [by |-> n, wide |-> TRUE]
Narrow(n) == [by |-> n, wide |-> FALSE]

\* Adverts and text relayed on floods, one at a narrow hop, one without a
\* time, one on a direct route, one whose time is older than its place.
Day == <<
    [at |-> 1, kind |-> "text",   from |-> {},  flood |-> TRUE,  hops |-> {Wide(a)}],
    [at |-> 2, kind |-> "advert", from |-> {a}, flood |-> TRUE,  hops |-> {Wide(b)}],
    [at |-> 0, kind |-> "text",   from |-> {},  flood |-> TRUE,  hops |-> {Wide(a)}],
    [at |-> 5, kind |-> "text",   from |-> {},  flood |-> TRUE,  hops |-> {Wide(a), Wide(c)}],
    [at |-> 4, kind |-> "text",   from |-> {},  flood |-> TRUE,  hops |-> {Wide(a), Narrow(b)}],
    [at |-> 6, kind |-> "text",   from |-> {},  flood |-> FALSE, hops |-> {Wide(a)}],
    [at |-> 7, kind |-> "advert", from |-> {b}, flood |-> TRUE,  hops |-> {Wide(a)}] >>

\* The whole list, and one without the node that shares a prefix.
Lists == {Nodes, Nodes \ {c}}

=============================================================================
