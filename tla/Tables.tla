-------------------------------- MODULE Tables --------------------------------
(***************************************************************************)
(* A table of the database is a function from the primary keys in use to   *)
(* the rows under them.                                                    *)
(***************************************************************************)
Nothing == <<>>

\* INSERT, INSERT ... ON CONFLICT DO UPDATE, and UPDATE of the rows whole.
Upserted(new, table) ==
    [k \in DOMAIN new \union DOMAIN table |-> IF k \in DOMAIN new THEN new[k] ELSE table[k]]

\* DELETE, by key.
Without(table, gone) == [k \in DOMAIN table \ gone |-> table[k]]

===============================================================================
