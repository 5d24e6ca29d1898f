----------------------------- MODULE SchemaHistory -----------------------------
(***************************************************************************)
(* What db/migrate.ts promises of a database: migrations take effect one   *)
(* at a time, each once and each in full (its statements together with its *)
(* row of schema_migrations), in the order of their file names.            *)
(***************************************************************************)
EXTENDS Naturals, Sequences

CONSTANT Names    \* migrations, numbered in the lexical order of their file names

VARIABLES
  schema,        \* the migrations in force, in the order they were applied
  recorded       \* the rows of schema_migrations

Init == schema = <<>> /\ recorded = {}

Migrate(f) ==
  /\ f \notin recorded
  /\ \A i \in 1 .. Len(schema) : schema[i] < f
  /\ schema' = Append(schema, f)
  /\ recorded' = recorded \cup {f}

Next == \E f \in Names : Migrate(f)

Spec == Init /\ [][Next]_<<schema, recorded>>
=============================================================================
