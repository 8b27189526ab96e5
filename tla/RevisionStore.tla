---------------------------- MODULE RevisionStore ----------------------------
(***************************************************************************)
(* The stores in which the enterprise services keep a record per key: a    *)
(* PostgreSQL table whose row is inserted with ON CONFLICT DO NOTHING and  *)
(* replaced by UPDATE ... WHERE revision = expectedRevision.  Each of the  *)
(* two is one transaction; a service reads in another one before it.       *)
(***************************************************************************)
EXTENDS Naturals

CONSTANT Nil   \* no row, and null in a record

\* The table after an INSERT of rec under key.
Inserted(table, key, rec) ==
  IF table[key] = Nil THEN [table EXCEPT ![key] = rec] ELSE table

\* (mutant) The UPDATE without WHERE revision = expectedRevision.
MatchesAny(table, key, expected) == table[key] # Nil

\* The UPDATE of the row under key finds a row with the expected revision.
Matches(table, key, expected) ==
  table[key] # Nil /\ table[key].revision = expected

\* (mutant) The row is replaced although another revision was answered.
UpdatedAlways(table, key, rec, expected) ==
  IF table[key] # Nil THEN [table EXCEPT ![key] = rec] ELSE table

\* The table after that UPDATE.
Updated(table, key, rec, expected) ==
  IF Matches(table, key, expected) THEN [table EXCEPT ![key] = rec] ELSE table

\* A record as its service wrote it: revision 1 is a create, any other
\* revision a replace of the one before.
Stored(table, key, rec) ==
  IF rec.revision = 1
  THEN Inserted(table, key, rec)
  ELSE Updated(table, key, rec, rec.revision - 1)

\* The store answered ok.
Accepts(table, key, rec) ==
  IF rec.revision = 1
  THEN table[key] = Nil
  ELSE Matches(table, key, rec.revision - 1)
==============================================================================
