------------------------------- MODULE Tables -------------------------------
(***************************************************************************)
(* A SQLite table is a function from the primary keys that have a row to   *)
(* the rows.  Every write of internal/store goes through one connection    *)
(* (store.go, Open: writeDB.SetMaxOpenConns(1)), so a statement or a       *)
(* transaction maps one table value to the next in a single step.          *)
(***************************************************************************)

\* INSERT, or INSERT ... ON CONFLICT DO UPDATE: the row of key becomes row.
Put(table, key, row) ==
  [k \in DOMAIN table \cup {key} |-> IF k = key THEN row ELSE table[k]]

\* DELETE FROM table WHERE key IN keys.
Without(table, keys) == [k \in DOMAIN table \ keys |-> table[k]]
=============================================================================
